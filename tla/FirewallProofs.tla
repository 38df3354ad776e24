---------------------------- MODULE FirewallProofs ----------------------------
(***************************************************************************)
(* What a call to the firewall controller may do to the policy while       *)
(* nobody else writes, what it says of the policy, and how many references *)
(* to rules it may leave behind, for any policies, requests and names.     *)
(*                                                                         *)
(* RulesHeld says which function may be called by which and what each may  *)
(* have left behind; PolicyHeld says, for each place in the code, what has *)
(* become of the policy there; TypesHeld, that the rules are complete;     *)
(* ReadHeld, what a call that reads has seen so far. They are proved one   *)
(* after the other, function by function.                                  *)
(***************************************************************************)
EXTENDS Firewall, FiniteSetTheorems, SequenceTheorems, TLAPS

-----------------------------------------------------------------------------
(* Who called whom, and how many references each function may have          *)
(* left behind when it runs or when it is back.                             *)

ActFields == {"op", "stack", "at", "name", "rule", "want", "id", "k", "todo", "refs", "out", "told", "said"}
Alone == {"addRule", "ruleExists", "getRules", "getRule", "getStatus", "setStatus"}

\* removeRule() calls ruleExists(), which may leave one rule behind, and leaves
\* up to two itself.
Removing(stack, inner) ==
  \/ act.stack = stack /\ (act.refs = 0 \/ (act.at \in {"back", "search"} /\ act.refs <= 1))
  \/ act.stack = inner /\ act.refs = 0

Calling ==
  \/ act.at = "idle" /\ act.stack = <<>>
  \/ act.at # "idle" /\ act.op \in Alone /\ act.stack = <<act.op>> /\ act.refs = 0
  \/ /\ act.at # "idle" /\ act.op = "removeRule"
     /\ Removing(<<"removeRule">>, <<"removeRule", "ruleExists">>)
  \/ /\ act.at # "idle" /\ act.op = "updateRule"
     /\ \/ act.stack = <<"updateRule">> /\ (act.refs = 0 \/ act.at = "back")
        \/ act.stack = <<"addRule">>
        \/ Removing(<<"updateRule", "removeRule">>, <<"updateRule", "removeRule", "ruleExists">>)

\* The places in the code that one function alone has.
Runs(at, f) ==
  /\ at \in {"validate", "put"} => f = "updateRule"
  /\ at = "add" => f = "addRule"
  /\ at \in {"remove", "search"} => f = "removeRule"
  /\ at = "look" => f = "ruleExists"
  /\ at \in {"enum", "convert"} => f \in {"getRules", "getRule"}
  /\ at = "profile" => f \in {"getStatus", "setStatus"}

Running == Runs(act.at, Fun)

RulesHeld ==
  /\ DOMAIN act = ActFields /\ act.refs \in Nat
  /\ RulesReleased
  /\ Calling /\ Running

LEMMA AppendTwo ==
  ASSUME NEW a, NEW b, NEW c
  PROVE  Append(<<a, b>>, c) = <<a, b, c>>
<1> DEFINE S == {a, b, c}
           t == Append(<<a, b>>, c)
<1>1. <<a, b>> \in Seq(S) /\ <<a, b, c>> \in Seq(S) /\ c \in S
  OBVIOUS
<1> HIDE DEF S
<1>2. t \in Seq(S) /\ Len(t) = 3 /\ t[1] = a /\ t[2] = b /\ t[3] = c
  BY <1>1, AppendProperties
<1>3. /\ Len(<<a, b, c>>) = 3
      /\ <<a, b, c>>[1] = a /\ <<a, b, c>>[2] = b /\ <<a, b, c>>[3] = c
      /\ \A i \in 1..3 : i = 1 \/ i = 2 \/ i = 3
  OBVIOUS
<1> HIDE DEF t
<1>4. t = <<a, b, c>>
  BY <1>1, <1>2, <1>3, SeqEqual
<1> QED
  BY <1>4 DEF t

LEMMA Stacks ==
  ASSUME NEW a, NEW b, NEW c
  PROVE  /\ Last(<<a>>) = a /\ Last(<<a, b>>) = b
         /\ Last(<<a, b, c>>) = c
         /\ Front(<<a, b>>) = <<a>> /\ Front(<<a, b, c>>) = <<a, b>>
         /\ Append(<<a>>, b) = <<a, b>> /\ Append(<<a, b>>, c) = <<a, b, c>>
         /\ Len(<<a>>) = 1 /\ Len(<<a, b>>) = 2 /\ Len(<<a, b, c>>) = 3
<1>1. Last(<<a>>) = a /\ Last(<<a, b>>) = b /\ Last(<<a, b, c>>) = c
  BY DEF Last
<1> DEFINE S == {a, b, c}
<1>2. Front(<<a, b>>) = <<a>>
  <2> DEFINE t == SubSeq(<<a, b>>, 1, 1)
  <2>1. \A i \in 1..1 : <<a, b>>[i] \in S
    BY \A i \in 1..1 : i = 1
  <2>2. t \in Seq(S) /\ Len(t) = 1 /\ t[1] = a
    BY <2>1, SubSeqProperties
  <2>3. <<a>> \in Seq(S) /\ Len(<<a>>) = 1 /\ \A i \in 1..1 : i = 1
    OBVIOUS
  <2> HIDE DEF S, t
  <2>4. t = <<a>>
    BY <2>2, <2>3, SeqEqual
  <2> QED
    BY <2>4 DEF Front, t
<1>3. Front(<<a, b, c>>) = <<a, b>>
  <2> DEFINE t == SubSeq(<<a, b, c>>, 1, 2)
  <2>1. \A i \in 1..2 : <<a, b, c>>[i] \in S
    BY \A i \in 1..2 : i = 1 \/ i = 2
  <2>2. t \in Seq(S) /\ Len(t) = 2 /\ t[1] = a /\ t[2] = b
    BY <2>1, SubSeqProperties
  <2>3. <<a, b>> \in Seq(S) /\ Len(<<a, b>>) = 2 /\ <<a, b>>[1] = a /\ <<a, b>>[2] = b
        /\ \A i \in 1..2 : i = 1 \/ i = 2
    OBVIOUS
  <2> HIDE DEF S, t
  <2>4. t = <<a, b>>
    BY <2>2, <2>3, SeqEqual
  <2> QED
    BY <2>4 DEF Front, t
<1>4. /\ <<a>> \in Seq(S) /\ <<a, b>> \in Seq(S) /\ <<a, b, c>> \in Seq(S)
      /\ b \in S /\ c \in S
  OBVIOUS
<1>5. Append(<<a>>, b) = <<a, b>>
  <2> DEFINE t == Append(<<a>>, b)
  <2> HIDE DEF S
  <2>1. t \in Seq(S) /\ Len(t) = 2 /\ t[1] = a /\ t[2] = b
    BY <1>4, AppendProperties
  <2>2. Len(<<a, b>>) = 2 /\ <<a, b>>[1] = a /\ <<a, b>>[2] = b /\ \A i \in 1..2 : i = 1 \/ i = 2
    OBVIOUS
  <2> HIDE DEF t
  <2>3. t = <<a, b>>
    BY <1>4, <2>1, <2>2, SeqEqual
  <2> QED
    BY <2>3 DEF t
<1>6. Append(<<a, b>>, c) = <<a, b, c>>
  BY AppendTwo
<1> QED
  BY <1>1, <1>2, <1>3, <1>5, <1>6

LEMMA RulesInit == Init => RulesHeld
BY DEF Init, NoAct, RulesHeld, ActFields, RulesReleased, Calling,
   Running, Runs

\* A call ends and leaves no more behind than it may.
LEMMA RulesOver ==
  ASSUME DOMAIN act' = ActFields, act'.at = "idle", act'.stack = <<>>, act'.refs \in 0..3,
         act'.op \in Alone \ {"ruleExists"} => act'.refs = 0,
         act'.op = "ruleExists" /\ act'.said = "false" => act'.refs = 0
  PROVE  RulesHeld'
BY DEF RulesHeld, RulesReleased, Calling, Running, Runs, Alone

LEMMA RulesEnd ==
  ASSUME RulesHeld, NEW said, act.at # "idle",
         act' = Over(said) \/ \E i : act' = [Over(said) EXCEPT !.id = i]
  PROVE  RulesHeld'
<1>1. /\ DOMAIN act' = ActFields /\ act'.at = "idle" /\ act'.stack = <<>> /\ act'.refs = act.refs
      /\ act'.op = act.op /\ act'.said = said
  BY ZenonT(60) DEF Over, NoAct, ActFields
<1>2. act.refs \in 0..3 /\ (act.op \in Alone => act.refs = 0)
  BY DEF RulesHeld, RulesReleased, Calling, Alone
<1>3. "ruleExists" \in Alone
  BY DEF Alone
<1> QED
  BY <1>1, <1>2, <1>3, RulesOver

LEMMA RulesThrow ==
  ASSUME RulesHeld, act.at # "idle", NEW code, Throw(code)
  PROVE  RulesHeld'
BY RulesEnd DEF Throw, Goto

LEMMA RulesCheck ==
  ASSUME RulesHeld, act.at # "idle", checkHResult
  PROVE  RulesHeld'
BY RulesThrow DEF checkHResult

\* The function that runs goes on.
LEMMA RulesGoOn ==
  ASSUME RulesHeld, act.at # "idle", DOMAIN act' = ActFields,
         act'.op = act.op, act'.stack = act.stack, act'.refs = act.refs, act'.at # "idle",
         \/ act'.at = act.at
         \/ act.at \notin {"back", "search"}
         \/ act.at = "back" /\ act'.at = "search" /\ Fun = "removeRule",
         act'.at = act.at \/ Runs(act'.at, Fun)
  PROVE  RulesHeld'
<1>1. Running'
  BY DEF RulesHeld, Running, Fun
<1>2. RulesReleased'
  BY DEF RulesHeld, RulesReleased, Calling, Alone
<1>3. CASE act'.at = act.at \/ act.at \notin {"back", "search"}
  <2>1. Calling'
    BY <1>3 DEF RulesHeld, Calling, Removing
  <2> QED
    BY <1>1, <1>2, <2>1 DEF RulesHeld
<1>4. CASE act.at = "back" /\ act'.at = "search" /\ Fun = "removeRule"
  <2>1. act.stack # <<"updateRule">>
    BY <1>4, Stacks DEF Fun
  <2>2. Calling'
    BY <1>4, <2>1 DEF RulesHeld, Calling, Removing
  <2> QED
    BY <1>1, <1>2, <2>2 DEF RulesHeld
<1> QED
  BY <1>3, <1>4


\* The stacks that the calls of these functions make.
LEMMA CallStacks ==
  /\ \A f \in Alone : Last(<<f>>) = f /\ Len(<<f>>) = 1
  /\ Last(<<"removeRule">>) = "removeRule" /\ Len(<<"removeRule">>) = 1
  /\ Last(<<"updateRule">>) = "updateRule" /\ Len(<<"updateRule">>) = 1
  /\ Last(<<"removeRule", "ruleExists">>) = "ruleExists"
  /\ Len(<<"removeRule", "ruleExists">>) = 2
  /\ Front(<<"removeRule", "ruleExists">>) = <<"removeRule">>
  /\ Append(<<"removeRule">>, "ruleExists") = <<"removeRule", "ruleExists">>
  /\ Last(<<"updateRule", "removeRule">>) = "removeRule"
  /\ Len(<<"updateRule", "removeRule">>) = 2
  /\ Front(<<"updateRule", "removeRule">>) = <<"updateRule">>
  /\ Append(<<"updateRule">>, "removeRule") = <<"updateRule", "removeRule">>
  /\ Last(<<"updateRule", "removeRule", "ruleExists">>) = "ruleExists"
  /\ Len(<<"updateRule", "removeRule", "ruleExists">>) = 3
  /\ Front(<<"updateRule", "removeRule", "ruleExists">>) = <<"updateRule", "removeRule">>
  /\ Append(<<"updateRule", "removeRule">>, "ruleExists") = <<"updateRule", "removeRule", "ruleExists">>
<1>1. ASSUME NEW f PROVE Last(<<f>>) = f /\ Len(<<f>>) = 1
  BY Stacks
<1>2. ASSUME NEW f, NEW g
      PROVE  /\ Last(<<f, g>>) = g /\ Len(<<f, g>>) = 2
             /\ Front(<<f, g>>) = <<f>> /\ Append(<<f>>, g) = <<f, g>>
  BY Stacks
<1>3. ASSUME NEW f, NEW g, NEW h
      PROVE  /\ Last(<<f, g, h>>) = h /\ Len(<<f, g, h>>) = 3
             /\ Front(<<f, g, h>>) = <<f, g>> /\ Append(<<f, g>>, h) = <<f, g, h>>
  <2>1. Last(<<f, g, h>>) = h
    BY DEF Last
  <2>2. Len(<<f, g, h>>) = 3
    OBVIOUS
  <2>3. Front(<<f, g, h>>) = <<f, g>>
    BY Stacks
  <2>4. Append(<<f, g>>, h) = <<f, g, h>>
    BY AppendTwo
  <2> QED
    BY <2>1, <2>2, <2>3, <2>4
<1>4. /\ Last(<<"removeRule", "ruleExists">>) = "ruleExists"
      /\ Len(<<"removeRule", "ruleExists">>) = 2
      /\ Front(<<"removeRule", "ruleExists">>) = <<"removeRule">>
      /\ Append(<<"removeRule">>, "ruleExists") = <<"removeRule", "ruleExists">>
  BY <1>2
<1>5. /\ Last(<<"updateRule", "removeRule">>) = "removeRule"
      /\ Len(<<"updateRule", "removeRule">>) = 2
      /\ Front(<<"updateRule", "removeRule">>) = <<"updateRule">>
      /\ Append(<<"updateRule">>, "removeRule") = <<"updateRule", "removeRule">>
  BY <1>2
<1>6. /\ Last(<<"updateRule", "removeRule", "ruleExists">>) = "ruleExists"
      /\ Len(<<"updateRule", "removeRule", "ruleExists">>) = 3
      /\ Front(<<"updateRule", "removeRule", "ruleExists">>) = <<"updateRule", "removeRule">>
      /\ Append(<<"updateRule", "removeRule">>, "ruleExists") = <<"updateRule", "removeRule", "ruleExists">>
  BY <1>3
<1> QED
  BY <1>1, <1>4, <1>5, <1>6

\* Which stack has the function that runs on top.
LEMMA WhoRuns ==
  ASSUME RulesHeld, act.at # "idle"
  PROVE  /\ Fun \in Alone \cup {"removeRule", "updateRule"}
         /\ Fun = "updateRule" =>
              /\ act.op = "updateRule" /\ act.stack = <<"updateRule">>
              /\ act.refs = 0 \/ act.at = "back"
         /\ Fun = "removeRule" =>
              /\ \/ act.op = "removeRule" /\ act.stack = <<"removeRule">>
                 \/ act.op = "updateRule" /\ act.stack = <<"updateRule", "removeRule">>
              /\ act.refs = 0 \/ (act.at \in {"back", "search"} /\ act.refs <= 1)
         /\ Fun = "ruleExists" =>
              /\ \/ act.op = "ruleExists" /\ act.stack = <<"ruleExists">>
                 \/ act.op = "removeRule" /\ act.stack = <<"removeRule", "ruleExists">>
                 \/ act.op = "updateRule" /\ act.stack = <<"updateRule", "removeRule", "ruleExists">>
              /\ act.refs = 0
<1>1. CASE act.op \in Alone /\ act.stack = <<act.op>> /\ act.refs = 0
  BY <1>1, CallStacks DEF Fun, Alone
<1>2. CASE act.op = "removeRule" /\ Removing(<<"removeRule">>, <<"removeRule", "ruleExists">>)
  BY <1>2, CallStacks DEF Fun, Removing, Alone
<1>3. CASE act.op = "updateRule" /\ act.stack = <<"updateRule">> /\ (act.refs = 0 \/ act.at = "back")
  BY <1>3, CallStacks DEF Fun
<1>4. CASE act.op = "updateRule" /\ act.stack = <<"addRule">>
  BY <1>4, CallStacks DEF Fun, Alone
<1>5. CASE act.op = "updateRule"
           /\ Removing(<<"updateRule", "removeRule">>, <<"updateRule", "removeRule", "ruleExists">>)
  BY <1>5, CallStacks DEF Fun, Removing, Alone
<1> QED
  BY <1>1, <1>2, <1>3, <1>4, <1>5 DEF RulesHeld, Calling

\* ruleExists() is done: its caller may find one rule left behind.
LEMMA RulesBackFromExists ==
  ASSUME RulesHeld, act.at # "idle", Fun = "ruleExists",
         NEW a, DOMAIN a = ActFields, a.op = act.op, a.stack = act.stack, a.refs \in {0, 1},
         NEW said, said = "false" => a.refs = 0, act' = Back(a, said)
  PROVE  RulesHeld'
<1>1. CASE Len(act.stack) = 1
  <2>1. /\ DOMAIN act' = ActFields /\ act'.at = "idle" /\ act'.stack = <<>> /\ act'.refs = a.refs
        /\ act'.op = act.op /\ act'.said = said
    BY <1>1 DEF Back, Over, NoAct, ActFields
  <2>2. act.op = "ruleExists"
    BY <1>1, WhoRuns, CallStacks
  <2> QED
    BY <2>1, <2>2, RulesOver
<1>2. CASE Len(act.stack) # 1
  <2>1. /\ DOMAIN act' = ActFields /\ act'.at = "back" /\ act'.stack = Front(act.stack)
        /\ act'.refs = a.refs /\ act'.op = act.op
    BY <1>2 DEF Back, ActFields
  <2>2. \/ act.op = "removeRule" /\ act'.stack = <<"removeRule">>
        \/ act.op = "updateRule" /\ act'.stack = <<"updateRule", "removeRule">>
    BY <1>2, <2>1, WhoRuns, CallStacks
  <2> QED
    BY <2>1, <2>2 DEF RulesHeld, RulesReleased, Calling, Removing, Running, Runs
<1> QED
  BY <1>1, <1>2

\* removeRule() is done.
LEMMA RulesBackFromRemove ==
  ASSUME RulesHeld, act.at # "idle", Fun = "removeRule",
         NEW a, DOMAIN a = ActFields, a.op = act.op, a.stack = act.stack, a.refs \in 0..3,
         NEW said, act' = Back(a, said)
  PROVE  RulesHeld'
<1>1. CASE Len(act.stack) = 1
  <2>1. /\ DOMAIN act' = ActFields /\ act'.at = "idle" /\ act'.stack = <<>> /\ act'.refs = a.refs
        /\ act'.op = act.op
    BY <1>1 DEF Back, Over, NoAct, ActFields
  <2>2. act.op = "removeRule"
    BY <1>1, WhoRuns, CallStacks
  <2> QED
    BY <2>1, <2>2, RulesOver DEF Alone
<1>2. CASE Len(act.stack) # 1
  <2>1. /\ DOMAIN act' = ActFields /\ act'.at = "back" /\ act'.stack = Front(act.stack)
        /\ act'.refs = a.refs /\ act'.op = act.op
    BY <1>2 DEF Back, ActFields
  <2>2. act.op = "updateRule" /\ act'.stack = <<"updateRule">>
    BY <1>2, <2>1, WhoRuns, CallStacks
  <2> QED
    BY <2>1, <2>2 DEF RulesHeld, RulesReleased, Calling, Removing, Running, Runs
<1> QED
  BY <1>1, <1>2

LEMMA RulesCall ==
  ASSUME RulesHeld, Call \/ Forget \/ OthersWrite
  PROVE  RulesHeld'
<1>1. ASSUME NEW op \in Alone \cup {"removeRule", "updateRule"}, NEW name, NEW r, NEW want,
             NEW at \in {"policy", "validate"}, at = "validate" => op = "updateRule", Begin(op, name, r, want, at)
      PROVE  RulesHeld'
  <2>1. /\ DOMAIN act' = ActFields /\ act'.at = at /\ act'.stack = <<op>> /\ act'.refs = 0
        /\ act'.op = op
    BY <1>1 DEF Begin, NoAct, ActFields
  <2>2. Running'
    BY <1>1, <2>1, CallStacks DEF Running, Runs, Fun
  <2> QED
    BY <2>1, <2>2 DEF RulesHeld, RulesReleased, Calling, Removing
<1>2. CASE Call
  BY <1>1, <1>2 DEF Call, Alone
<1>3. CASE Forget
  BY <1>3 DEF Forget, NoAct, RulesHeld, ActFields, RulesReleased,
     Calling, Running, Runs
<1>4. CASE OthersWrite
  BY <1>4 DEF OthersWrite, RulesHeld, RulesReleased, Calling, Removing, Running, Runs,
     Fun
<1> QED
  BY <1>2, <1>3, <1>4

\* The function that runs calls another one.
LEMMA RulesPush ==
  ASSUME RulesHeld, act.at # "idle",
         NEW f,
         \/ Fun = "updateRule" /\ act.at # "back" /\ f = "removeRule"
         \/ Fun = "removeRule" /\ act.at = "remove" /\ f = "ruleExists",
         act' = [act EXCEPT !.stack = Append(@, f), !.at = "policy"]
  PROVE  RulesHeld'
<1>1. /\ DOMAIN act' = ActFields /\ act'.at = "policy" /\ act'.stack = Append(act.stack, f)
      /\ act'.refs = act.refs /\ act'.op = act.op /\ act.refs = 0
  BY WhoRuns DEF RulesHeld, ActFields
<1>2. \/ act.op = "removeRule" /\ act'.stack = <<"removeRule", "ruleExists">>
      \/ act.op = "updateRule" /\ act'.stack \in {<<"updateRule", "removeRule">>,
                                                  <<"updateRule", "removeRule", "ruleExists">>}
  BY <1>1, WhoRuns, CallStacks
<1> QED
  BY <1>1, <1>2 DEF RulesHeld, RulesReleased, Calling, Removing, Running, Runs


\* One COM call at a time.
LEMMA RulesPolicy ==
  ASSUME RulesHeld, ComInitializer \/ FirewallPolicyHelper
  PROVE  RulesHeld'
<1>1. act.at = "policy"
  BY DEF ComInitializer, FirewallPolicyHelper, At
<1>2. CASE ComInitializer
  BY <1>1, <1>2, RulesThrow DEF ComInitializer
<1>3. CASE FirewallPolicyHelper
  <2>1. CASE Throw("FireWallInitError") \/ checkHResult
    BY <1>1, <2>1, RulesThrow, RulesCheck
  <2>2. CASE Goto([act EXCEPT !.at = FirstStep[Fun],
                                         !.todo = DOMAIN rules])
    <3> DEFINE next == FirstStep[Fun]
    <3>1. Fun \in {"addRule", "updateRule", "removeRule", "ruleExists", "getRules",
                              "getRule", "getStatus", "setStatus"}
      BY <1>1, WhoRuns DEF Alone
    <3>2. /\ next \in {"add", "item", "remove", "enum", "profile"}
          /\ Runs(next, Fun)
      BY <3>1 DEF FirstStep, Runs
    <3>3. /\ DOMAIN act' = ActFields /\ act'.op = act.op /\ act'.stack = act.stack
          /\ act'.refs = act.refs /\ act'.at = next
      BY <2>2 DEF Goto, RulesHeld, ActFields
    <3> HIDE DEF next
    <3>4. act'.at \notin {"idle", "search", "look"}
      BY <3>2, <3>3
    <3>5. act.at \notin {"idle", "back", "search"}
      BY <1>1
    <3> QED
      BY <3>2, <3>3, <3>4, <3>5, RulesGoOn
  <2> QED
    BY <1>3, <2>1, <2>2 DEF FirewallPolicyHelper
<1> QED
  BY <1>2, <1>3

LEMMA RulesAdd == ASSUME RulesHeld, addRule PROVE RulesHeld'
<1>1. act.at = "add"
  BY DEF addRule, At
<1>2. CASE Throw("InvalidArgument") \/ Throw("FireWallInitFwRuleError")
           \/ Throw("FireWallError") \/ checkHResult
  BY <1>1, <1>2, RulesThrow, RulesCheck
<1>3. CASE \E i : act' = [Over("ok") EXCEPT !.id = i]
  BY <1>1, <1>3, RulesEnd
<1> QED
  BY <1>2, <1>3 DEF addRule, Write

LEMMA RulesUpdate == ASSUME RulesHeld, updateRule PROVE RulesHeld'
<1>1. CASE /\ act.at = "validate"
           /\ Throw("InvalidArgument") \/ Goto([act EXCEPT !.at = "policy"])
  <2>1. CASE Throw("InvalidArgument")
    BY <1>1, <2>1, RulesThrow
  <2>2. CASE Goto([act EXCEPT !.at = "policy"])
    <3>1. /\ DOMAIN act' = ActFields /\ act'.op = act.op /\ act'.stack = act.stack
          /\ act'.refs = act.refs /\ act'.at = "policy"
      BY <2>2 DEF Goto, RulesHeld, ActFields
    <3> QED
      BY <1>1, <3>1, RulesGoOn DEF Runs
  <2> QED
    BY <1>1, <2>1, <2>2
<1>2. ASSUME act.at = "item", Fun = "updateRule", NEW i, Goto([act EXCEPT !.at = "put", !.id = i])
      PROVE  RulesHeld'
  <2>1. /\ DOMAIN act' = ActFields /\ act'.op = act.op /\ act'.stack = act.stack
        /\ act'.refs = act.refs /\ act'.at = "put"
    BY <1>2 DEF Goto, RulesHeld, ActFields
  <2> QED
    BY <1>2, <2>1, RulesGoOn DEF Runs
<1>3. CASE /\ act.at = "item" /\ Fun = "updateRule"
           /\ Goto([act EXCEPT !.stack = Append(@, "removeRule"), !.at = "policy"])
  BY <1>3, RulesPush DEF Goto
<1>4. CASE /\ act.at = "back" /\ Fun = "updateRule"
           /\ Goto([act EXCEPT !.stack = <<"addRule">>, !.at = "policy"])
  <2>1. act.op = "updateRule"
    BY <1>4, WhoRuns
  <2>2. /\ DOMAIN act' = ActFields /\ act'.op = act.op /\ act'.stack = <<"addRule">>
        /\ act'.refs = act.refs /\ act'.at = "policy"
    BY <1>4 DEF Goto, RulesHeld, ActFields
  <2> QED
    BY <2>1, <2>2 DEF RulesHeld, RulesReleased, Calling, Running, Runs
<1> QED
  BY <1>1, <1>2, <1>3, <1>4 DEF updateRule, At

LEMMA RulesPut == ASSUME RulesHeld, putRule PROVE RulesHeld'
<1>1. act.at = "put"
  BY DEF putRule, At
<1>2. CASE checkHResult
  BY <1>1, <1>2, RulesCheck
<1>3. CASE act' = Over("ok")
  BY <1>1, <1>3, RulesEnd
<1>4. CASE act' = [act EXCEPT !.k = @ + 1]
  <2>1. /\ DOMAIN act' = ActFields /\ act'.op = act.op /\ act'.stack = act.stack
        /\ act'.refs = act.refs /\ act'.at = act.at
    BY <1>4 DEF RulesHeld, ActFields
  <2> QED
    BY <1>1, <2>1, RulesGoOn DEF Runs
<1> QED
  BY <1>2, <1>3, <1>4 DEF putRule, Goto, Write

LEMMA RulesRemove == ASSUME RulesHeld, removeRule PROVE RulesHeld'
<1>1. CASE act.at = "remove" \/ (act.at = "back" /\ checkHResult)
  <2>1. CASE checkHResult
    BY <1>1, <2>1, RulesCheck
  <2>2. CASE act.at = "remove" /\ act' = [act EXCEPT !.stack = Append(@, "ruleExists"), !.at = "policy"]
    BY <2>2, RulesPush DEF RulesHeld, Running, Runs
  <2> QED
    BY <1>1, <2>1, <2>2 DEF removeRule, At, Goto, Write
<1>2. CASE act.at = "back" /\ Fun = "removeRule" /\ Goto(Back(act, "ok"))
  BY <1>2, WhoRuns, RulesBackFromRemove DEF Goto, RulesHeld
<1>3. CASE /\ act.at = "back" /\ Fun = "removeRule"
           /\ Goto([act EXCEPT !.at = "search", !.todo = DOMAIN rules])
  <2>1. /\ DOMAIN act' = ActFields /\ act'.op = act.op /\ act'.stack = act.stack
        /\ act'.refs = act.refs /\ act'.at = "search"
    BY <1>3 DEF Goto, RulesHeld, ActFields
  <2> QED
    BY <1>3, <2>1, RulesGoOn DEF Runs
<1> QED
  BY <1>1, <1>2, <1>3 DEF removeRule, At


LEMMA RulesFound == ASSUME RulesHeld, removeFound PROVE RulesHeld'
<1>1. act.at = "search" /\ Fun = "removeRule"
  BY DEF removeFound, At, RulesHeld, Running, Runs
<1>2. act.op \notin Alone /\ act.refs \in {0, 1}
  BY <1>1, WhoRuns DEF RulesHeld, Alone
<1>3. CASE Throw("FireWallRuleNotFound")
  BY <1>1, <1>3, RulesThrow
<1>4. ASSUME NEW i, Goto([act EXCEPT !.todo = @ \ {i}])
      PROVE  RulesHeld'
  <2>1. /\ DOMAIN act' = ActFields /\ act'.op = act.op /\ act'.stack = act.stack
        /\ act'.refs = act.refs /\ act'.at = act.at
    BY <1>4 DEF Goto, RulesHeld, ActFields
  <2> QED
    BY <1>1, <2>1, RulesGoOn DEF Runs
<1>5. ASSUME NEW n \in {1, 2}, act' = Back([act EXCEPT !.refs = @ + n], "ok")
      PROVE  RulesHeld'
  <2> DEFINE a == [act EXCEPT !.refs = @ + n]
  <2>1. DOMAIN a = ActFields /\ a.op = act.op /\ a.stack = act.stack /\ a.refs \in 0..3
    BY <1>2 DEF RulesHeld, ActFields
  <2> HIDE DEF a
  <2>2. act' = Back(a, "ok")
    BY <1>5 DEF a
  <2> QED
    BY <1>1, <2>1, <2>2, RulesBackFromRemove
<1>6. ASSUME NEW n \in {1, 2}, NEW said,
             act' = [Over(said) EXCEPT !.refs = [act EXCEPT !.refs = @ + n].refs]
      PROVE  RulesHeld'
  <2>1. [act EXCEPT !.refs = @ + n].refs \in 0..3
    BY <1>2 DEF RulesHeld, ActFields
  <2>2. /\ DOMAIN act' = ActFields /\ act'.at = "idle" /\ act'.stack = <<>> /\ act'.refs \in 0..3
        /\ act'.op = act.op
    BY <1>6, <2>1 DEF Over, NoAct, ActFields
  <2> QED
    BY <1>2, <2>2, RulesOver DEF Alone
<1> DEFINE n(i) == IF act.todo = {i} THEN 1 ELSE 2
<1>7. \A i : n(i) \in {1, 2}
  OBVIOUS
<1>8. \/ Throw("FireWallRuleNotFound")
      \/ \E i : Goto([act EXCEPT !.todo = @ \ {i}])
      \/ \E i : act' = Back([act EXCEPT !.refs = @ + n(i)], "ok")
      \/ \E i, said : act' = [Over(said) EXCEPT !.refs = [act EXCEPT !.refs = @ + n(i)].refs]
  BY DEF removeFound, Goto, Write
<1> HIDE DEF n
<1> QED
  BY <1>3, <1>4, <1>5, <1>6, <1>7, <1>8

LEMMA RulesExists == ASSUME RulesHeld, ruleExists PROVE RulesHeld'
<1>1. act.at \in {"item", "look"} /\ Fun = "ruleExists" /\ act.refs = 0
  BY WhoRuns DEF ruleExists, At, RulesHeld, Running, Runs
<1>2. ASSUME NEW said \in {"true", "false"}, Goto(Back(act, said))
      PROVE  RulesHeld'
  BY <1>1, <1>2, RulesBackFromExists DEF Goto, RulesHeld
<1>3. CASE checkHResult
  BY <1>1, <1>3, RulesCheck
<1>4. ASSUME NEW at \in {"item", "look"}, NEW todo,
             Goto([act EXCEPT !.at = at, !.todo = todo])
      PROVE  RulesHeld'
  <2>1. /\ DOMAIN act' = ActFields /\ act'.op = act.op /\ act'.stack = act.stack
        /\ act'.refs = act.refs /\ act'.at = at
    BY <1>4 DEF Goto, RulesHeld, ActFields
  <2> QED
    BY <1>1, <2>1, RulesGoOn DEF Runs
<1>5. ASSUME NEW i, Goto([act EXCEPT !.todo = @ \ {i}])
      PROVE  RulesHeld'
  <2>1. /\ DOMAIN act' = ActFields /\ act'.op = act.op /\ act'.stack = act.stack
        /\ act'.refs = act.refs /\ act'.at = act.at
    BY <1>5 DEF Goto, RulesHeld, ActFields
  <2> QED
    BY <1>1, <2>1, RulesGoOn DEF Runs
<1>6. ASSUME NEW n \in {0, 1}, Goto(Back([act EXCEPT !.refs = @ + n], "true"))
      PROVE  RulesHeld'
  <2> DEFINE a == [act EXCEPT !.refs = @ + n]
  <2>1. DOMAIN a = ActFields /\ a.op = act.op /\ a.stack = act.stack /\ a.refs \in {0, 1}
    BY <1>1 DEF RulesHeld, ActFields
  <2> HIDE DEF a
  <2>2. act' = Back(a, "true")
    BY <1>6 DEF a, Goto
  <2> QED
    BY <1>1, <2>1, <2>2, RulesBackFromExists
<1> DEFINE n(i) == IF act.todo = {i} THEN 0 ELSE 1
<1>7. \A i : n(i) \in {0, 1}
  OBVIOUS
<1>8. \/ checkHResult
      \/ \E said \in {"true", "false"} : Goto(Back(act, said))
      \/ Goto([act EXCEPT !.at = "look", !.todo = DOMAIN rules])
      \/ \E i : Goto([act EXCEPT !.todo = @ \ {i}])
      \/ \E i : Goto(Back([act EXCEPT !.refs = @ + n(i)], "true"))
  BY DEF ruleExists
<1> HIDE DEF n
<1> QED
  BY <1>2, <1>3, <1>4, <1>5, <1>6, <1>7, <1>8

LEMMA RulesRead ==
  ASSUME RulesHeld, getRules \/ getRule \/ convertFwRule2Rule
  PROVE  RulesHeld'
<1>1. act.at \in {"enum", "convert"} /\ Fun \in {"getRules", "getRule"}
  BY DEF getRules, getRule, convertFwRule2Rule, At, RulesHeld, Running, Runs
<1>2. CASE Goto(Over("ok"))
  BY <1>1, <1>2, RulesEnd DEF Goto
<1>3. ASSUME DOMAIN act' = ActFields, act'.op = act.op, act'.stack = act.stack,
             act'.refs = act.refs, act'.at \in {"enum", "convert"}
      PROVE  RulesHeld'
  BY <1>1, <1>3, RulesGoOn DEF Runs
<1>4. ASSUME NEW i, Converted(i) \/ Goto([act EXCEPT !.todo = @ \ {i}])
      PROVE  RulesHeld'
  BY <1>1, <1>3, <1>4 DEF Converted, Goto, RulesHeld, ActFields
<1>5. CASE convertFwRule2Rule
  <2>1. \/ Goto([act EXCEPT !.at = "enum", !.out = Append(@, act.rule)])
        \/ \E r : Goto([act EXCEPT !.k = @ + 1, !.rule = r])
    BY <1>5 DEF convertFwRule2Rule
  <2> QED
    BY <1>1, <1>3, <2>1 DEF Goto, RulesHeld, ActFields
<1> QED
  BY <1>2, <1>4, <1>5 DEF getRules, getRule

LEMMA RulesStatus ==
  ASSUME RulesHeld, getStatus \/ setStatus
  PROVE  RulesHeld'
<1>1. act.at = "profile"
  BY DEF getStatus, setStatus, At
<1>2. CASE act' = Over("ok")
  BY <1>1, <1>2, RulesEnd
<1>3. CASE checkHResult
  BY <1>1, <1>3, RulesCheck
<1>4. ASSUME DOMAIN act' = ActFields, act'.op = act.op, act'.stack = act.stack,
             act'.refs = act.refs, act'.at = "profile"
      PROVE  RulesHeld'
  BY <1>1, <1>4, RulesGoOn DEF Runs
<1>5. CASE \/ act' = [act EXCEPT !.k = @ + 1]
           \/ act' = [act EXCEPT !.k = @ + 1, !.told = @ \cup {Profiles[act.k]}]
  BY <1>1, <1>4, <1>5 DEF RulesHeld, ActFields
<1> QED
  BY <1>2, <1>3, <1>5 DEF getStatus, setStatus, Goto

LEMMA RulesNext == ASSUME RulesHeld, Next PROVE RulesHeld'
BY RulesCall, RulesPolicy, RulesAdd, RulesUpdate, RulesPut, RulesRemove, RulesFound, RulesExists,
   RulesRead, RulesStatus
   DEF Next, Step


-----------------------------------------------------------------------------
(* What has become of the policy while a call is under way and nobody else  *)
(* has written: a call that adds a rule has added none yet, one that removes *)
(* has taken away none, one or two rules of the name it was given, one that *)
(* updates has done the same or has written the first properties of a rule, *)
(* and one that sets the status has set that of the first profiles.         *)

Left(S) == rules = [i \in DOMAIN Old \ S |-> Old[i]]
OneLess == (OldNamed = {} /\ Left({})) \/ \E i \in OldNamed : Left({i})
TwoLess == \E S \in SUBSET OldNamed : Cardinality(S) <= 2 /\ Left(S)

InPlaceSoFar ==
  /\ act.id \in OldNamed /\ act.k \in 1..(Len(Fields) + 1)
  /\ DOMAIN rules = DOMAIN Old /\ DOMAIN rules[act.id] = ToSet(Fields)
  /\ \A j \in DOMAIN Old \ {act.id} : rules[j] = Old[j]
  /\ \A j \in DOMAIN Fields :
       rules[act.id][Fields[j]] = IF j < act.k THEN Updated(act.id)[Fields[j]] ELSE Old[act.id][Fields[j]]

SetSoFar ==
  /\ act.k \in 1..(Len(Profiles) + 1)
  /\ \A j \in DOMAIN Profiles :
       Profiles[j] \in profiles <=> Profiles[j] \in (IF j < act.k THEN act.want ELSE before.profiles)

Removes == act.op \in {"removeRule", "updateRule"}
Done ==
  /\ Old \in Seq([ToSet(Fields) -> STRING])
  /\ act.op = "addRule" => rules = Old
  /\ Removes /\ Fun = "removeRule" /\ act.at \in {"policy", "remove"} => rules = Old
  /\ Removes /\ Fun = "removeRule" /\ act.at \notin {"policy", "remove"} =>
       OneLess /\ (act.at = "back" /\ act.said = "false" => Named(act.name) = {})
  /\ Removes /\ Fun = "ruleExists" => OneLess /\ (act.at = "look" => Named(act.name) \subseteq act.todo)
  /\ act.op = "updateRule" /\ Fun = "updateRule" /\ act.at \notin {"put", "back"} => rules = Old /\ act.k = 1
  /\ act.op = "updateRule" /\ Fun = "updateRule" /\ act.at = "put" => InPlaceSoFar
  /\ act.op = "updateRule" /\ Fun = "updateRule" /\ act.at = "back" => TwoLess
  /\ act.op = "updateRule" /\ Fun = "addRule" => TwoLess
  /\ act.op = "setStatus" => SetSoFar

PolicyHeld ==
  /\ DOMAIN before = {"rules", "profiles", "on"} /\ others \in Nat
  /\ act.at # "idle" /\ others = 0 => Done

\* The call under way, when nobody else has written.
Alright == RulesHeld /\ PolicyHeld /\ act.at # "idle" /\ others = 0
Kept == PolicyHeld' /\ PolicyStep

LEMMA FieldsAre ==
  /\ Len(Fields) = 6 /\ DOMAIN Fields = 1..6
  /\ \A j \in 1..6 : Fields[j] \in ToSet(Fields)
  /\ \A i, j \in 1..6 : Fields[i] = Fields[j] => i = j
<1>1. Len(Fields) = 6 /\ DOMAIN Fields = 1..6
  BY DEF Fields
<1>2. \A j \in 1..6 : Fields[j] \in ToSet(Fields)
  BY <1>1 DEF ToSet
<1>3. \A i, j \in 1..6 : Fields[i] = Fields[j] => i = j
  <2>1. \A j \in 1..6 : j = 1 \/ j = 2 \/ j = 3 \/ j = 4 \/ j = 5 \/ j = 6
    OBVIOUS
  <2> QED
    BY <2>1 DEF Fields
<1> QED
  BY <1>1, <1>2, <1>3

LEMMA ProfilesAre ==
  /\ Len(Profiles) = 3 /\ DOMAIN Profiles = 1..3
  /\ \A i, j \in 1..3 : Profiles[i] = Profiles[j] => i = j
<1>1. Len(Profiles) = 3 /\ DOMAIN Profiles = 1..3
  BY DEF Profiles
<1>2. \A j \in 1..3 : j = 1 \/ j = 2 \/ j = 3
  OBVIOUS
<1> QED
  BY <1>1, <1>2 DEF Profiles

\* What is left when no rule, or one more, is taken away.
LEMMA NoneLost == ASSUME Done, rules = Old PROVE Left({})
BY DEF Done, Left

LEMMA OneMoreLost ==
  ASSUME Done, NEW S, Left(S), NEW i \in Named(act.name), rules' = Without(i)
  PROVE  i \in OldNamed \ S /\ Lost(S \cup {i})
BY DEF Left, Named, OldNamed, Without, Lost

LEMMA SmallSets ==
  ASSUME NEW i, NEW j
  PROVE  /\ Cardinality({}) = 0 /\ Cardinality({i}) = 1
         /\ i # j => Cardinality({i, j}) = 2
<1>1. Cardinality({}) = 0
  BY FS_EmptySet
<1>2. IsFiniteSet({i}) /\ Cardinality({i}) = 1
  BY FS_Singleton
<1>3. ASSUME i # j PROVE Cardinality({i, j}) = 2
  <2>1. j \notin {i} /\ {i} \cup {j} = {i, j}
    BY <1>3
  <2> QED
    BY <1>2, <2>1, FS_AddElement
<1> QED
  BY <1>1, <1>2, <1>3

\* One rule less, or none, is also two less at most.
LEMMA AtMostTwo ==
  ASSUME NEW S \in SUBSET OldNamed, Cardinality(S) <= 2, Left(S)
  PROVE  TwoLess
BY Zenon DEF TwoLess

LEMMA OneOfTwo == ASSUME OneLess PROVE TwoLess
<1>1. {} \in SUBSET OldNamed /\ Cardinality({}) <= 2
  BY FS_EmptySet
<1>2. \A i \in OldNamed : {i} \in SUBSET OldNamed /\ Cardinality({i}) <= 2
  BY SmallSets
<1> QED
  BY <1>1, <1>2, AtMostTwo, Zenon DEF OneLess

LEMMA NoneOfTwo == ASSUME Done, rules = Old PROVE TwoLess
<1>1. {} \in SUBSET OldNamed /\ Cardinality({}) <= 2
  BY FS_EmptySet
<1> QED
  BY <1>1, NoneLost, AtMostTwo, Zenon

\* The calls that each function may be part of.
LEMMA WhoIsCalled ==
  ASSUME RulesHeld, act.at # "idle"
  PROVE  \/ act.op \in Alone /\ Fun = act.op /\ act.stack = <<act.op>>
         \/ act.op = "removeRule" /\ Fun \in {"removeRule", "ruleExists"}
         \/ act.op = "updateRule" /\ Fun \in {"updateRule", "removeRule", "ruleExists", "addRule"}
<1>1. CASE act.op \in Alone /\ act.stack = <<act.op>>
  BY <1>1, CallStacks DEF Fun
<1>2. CASE act.op = "removeRule" /\ Removing(<<"removeRule">>, <<"removeRule", "ruleExists">>)
  BY <1>2, CallStacks DEF Fun, Removing
<1>3. CASE act.op = "updateRule" /\ act.stack = <<"updateRule">>
  BY <1>3, CallStacks DEF Fun
<1>4. CASE act.op = "updateRule" /\ act.stack = <<"addRule">>
  BY <1>4, CallStacks DEF Fun, Alone
<1>5. CASE act.op = "updateRule"
           /\ Removing(<<"updateRule", "removeRule">>, <<"updateRule", "removeRule", "ruleExists">>)
  BY <1>5, CallStacks DEF Fun, Removing
<1> QED
  BY <1>1, <1>2, <1>3, <1>4, <1>5 DEF RulesHeld, Calling

-----------------------------------------------------------------------------
(* One step of a call.                                                      *)

\* Every function that runs leaves what a failure may leave.
LEMMA FailureAllowed ==
  ASSUME Alright, act'.at = "idle", act'.said # "ok", UNCHANGED <<rules, profiles>>
  PROVE  PolicyStep
<1>1. Done
  BY DEF Alright, PolicyHeld
<1>2. ASSUME NEW S \in SUBSET OldNamed, Cardinality(S) <= 2, Left(S)
      PROVE  UpdateAnew /\ Removed
  <2>1. Lost(S)
    BY <1>2 DEF Lost, Left
  <2> QED
    BY <1>2, <2>1 DEF UpdateAnew, Removed, Alright
<1>3. TwoLess => UpdateAnew /\ Removed
  BY <1>2, Zenon DEF TwoLess
<1>4. CASE act.op = "updateRule"
  <2>1. Removes
    BY <1>4 DEF Removes
  <2>2. CASE Fun = "updateRule" /\ act.at = "put"
    <3>1. InPlaceSoFar
      BY <1>1, <1>4, <2>2 DEF Done
    <3>2. act.k - 1 \in 0..6 /\ \A j \in DOMAIN Fields : j <= act.k - 1 <=> j < act.k
      BY <3>1, FieldsAre DEF InPlaceSoFar
    <3>3. UpdateInPlace(act.id)
      BY <3>1, <3>2, FieldsAre DEF UpdateInPlace, InPlaceSoFar, Elsewhere
    <3> QED
      BY <1>4, <3>1, <3>3 DEF PolicyStep, Ended, InPlaceSoFar
  <2>3. CASE ~(Fun = "updateRule" /\ act.at = "put")
    <3>1. TwoLess
      BY <1>1, <1>4, <2>1, <2>3, WhoIsCalled, OneOfTwo, NoneOfTwo DEF Done, Alright
    <3> QED
      BY <1>3, <1>4, <3>1 DEF PolicyStep, Ended
  <2> QED
    BY <2>2, <2>3
<1>5. CASE act.op = "removeRule"
  <2>1. Removes
    BY <1>5 DEF Removes
  <2>2. TwoLess
    BY <1>1, <1>5, <2>1, WhoIsCalled, OneOfTwo, NoneOfTwo DEF Done, Alright, Alone
  <2> QED
    BY <1>3, <1>5, <2>2 DEF PolicyStep, Ended
<1>6. CASE act.op = "addRule"
  <2>1. rules = Old
    BY <1>1, <1>6 DEF Done
  <2>2. Lost({})
    BY <1>1, <2>1, NoneLost DEF Lost, Left
  <2> QED
    BY <1>6, <2>2 DEF PolicyStep, Ended
<1>7. CASE act.op = "setStatus"
  <2>1. SetSoFar
    BY <1>1, <1>7 DEF Done
  <2>2. act.k - 1 \in 0..3 /\ \A j \in DOMAIN Profiles : j <= act.k - 1 <=> j < act.k
    BY <2>1, ProfilesAre DEF SetSoFar
  <2>3. StatusSet
    BY <2>1, <2>2, ProfilesAre DEF StatusSet, SetSoFar
  <2> QED
    BY <1>7, <2>3 DEF PolicyStep, Ended
<1> QED
  BY <1>4, <1>5, <1>6, <1>7 DEF PolicyStep, Ended

LEMMA KeptEnd ==
  ASSUME Alright, act'.at = "idle", UNCHANGED <<before, others>>, PolicyStep
  PROVE  Kept
BY DEF Kept, PolicyHeld, Alright

LEMMA KeptFail ==
  ASSUME Alright, act'.at = "idle", act'.said # "ok", UNCHANGED <<rules, profiles, before, others>>
  PROVE  Kept
BY FailureAllowed, KeptEnd

LEMMA KeptThrow ==
  ASSUME Alright, NEW code, code # "ok", Throw(code)
  PROVE  Kept
<1>1. act'.at = "idle" /\ act'.said # "ok"
  BY DEF Throw, Goto, Over, NoAct
<1> QED
  BY <1>1, KeptFail DEF Throw, Goto

LEMMA KeptCheck == ASSUME Alright, checkHResult PROVE Kept
BY KeptThrow DEF checkHResult

\* A step that does not end the call.
LEMMA KeptGo ==
  ASSUME Alright, DOMAIN before' = DOMAIN before, others' = others, act'.at # "idle", Done'
  PROVE  Kept
BY DEF Kept, PolicyHeld, Alright, PolicyStep, Ended

\* A call that only reads.
LEMMA KeptReading ==
  ASSUME Alright, act.op \in {"getRules", "getRule", "getStatus", "ruleExists"}, act'.op = act.op,
         UNCHANGED <<before, others>>
  PROVE  Kept
<1>1. Done'
  BY DEF Alright, PolicyHeld, Done, Removes, Old
<1>2. PolicyStep
  BY DEF PolicyStep, Ended
<1> QED
  BY <1>1, <1>2 DEF Kept, PolicyHeld, Alright

LEMMA KeptPolicy ==
  ASSUME Alright, ComInitializer \/ FirewallPolicyHelper
  PROVE  Kept
<1>1. act.at = "policy"
  BY DEF ComInitializer, FirewallPolicyHelper, At
<1>2. CASE Throw("ComInitError") \/ Throw("FireWallInitError") \/ checkHResult
  BY <1>2, KeptThrow, KeptCheck
<1>3. CASE Goto([act EXCEPT !.at = FirstStep[Fun], !.todo = DOMAIN rules])
  <2> DEFINE next == FirstStep[Fun]
  <2>1. Fun \in {"addRule", "updateRule", "removeRule", "ruleExists", "getRules",
                 "getRule", "getStatus", "setStatus"}
    BY WhoRuns DEF Alone, Alright
  <2>2. /\ next \in {"add", "item", "remove", "enum", "profile"}
        /\ Fun = "removeRule" => next = "remove"
    BY <2>1 DEF FirstStep
  <2> HIDE DEF next
  <2>3. /\ act'.op = act.op /\ act'.at = next /\ act'.k = act.k /\ act'.id = act.id
        /\ act'.name = act.name /\ act'.rule = act.rule /\ act'.want = act.want
        /\ act'.stack = act.stack /\ UNCHANGED <<rules, profiles, before, others>>
    BY <1>3 DEF Goto, Alright, RulesHeld, ActFields, next
  <2>4. Fun' = Fun
    BY <2>3 DEF Fun
  <2>5. /\ Old' = Old /\ OneLess' = OneLess /\ TwoLess' = TwoLess /\ SetSoFar' = SetSoFar
        /\ Removes' = Removes
    BY <2>3 DEF OneLess, TwoLess, Left, SetSoFar, Old, OldNamed, Removes
  <2>6. Done'
    BY <1>1, <2>2, <2>3, <2>4, <2>5 DEF Alright, PolicyHeld, Done
  <2> QED
    BY <2>2, <2>3, <2>6, KeptGo
<1> QED
  BY <1>2, <1>3 DEF ComInitializer, FirewallPolicyHelper

LEMMA KeptAdd == ASSUME Alright, addRule PROVE Kept
<1>1. act.at = "add" /\ Fun = "addRule"
  BY DEF addRule, At, Alright, RulesHeld, Running, Runs
<1>2. CASE Throw("InvalidArgument") \/ Throw("FireWallInitFwRuleError") \/ Throw("FireWallError") \/ checkHResult
  BY <1>2, KeptThrow, KeptCheck
<1>3. ASSUME NEW i \in Fresh, Write(And(i, createNetFwRule(act.rule)), [Over("ok") EXCEPT !.id = i])
      PROVE  Kept
  <2> DEFINE new == createNetFwRule(act.rule)
  <2>1. /\ act'.at = "idle" /\ act'.said = "ok" /\ act'.id = i
        /\ rules' = And(i, new) /\ UNCHANGED <<profiles, before, others>>
    BY <1>3 DEF Write, Over, NoAct
  <2> HIDE DEF new
  <2>2. act.op = "addRule" \/ act.op = "updateRule"
    BY <1>1, WhoIsCalled DEF Alright
  <2>3. CASE act.op = "addRule"
    <3>1. rules = Old
      BY <2>3 DEF Alright, PolicyHeld, Done
    <3>2. rules' = [j \in DOMAIN Old \cup {i} |-> IF j = i THEN new ELSE Old[j]]
      BY <2>1, <3>1 DEF And
    <3>3. PolicyStep
      BY <2>1, <2>3, <3>2 DEF PolicyStep, Ended, new
    <3> QED
      BY <2>1, <3>3, KeptEnd
  <2>4. CASE act.op = "updateRule"
    <3>1. TwoLess
      BY <1>1, <2>4 DEF Alright, PolicyHeld, Done
    <3>2. PICK S \in SUBSET OldNamed : Cardinality(S) <= 2 /\ Left(S)
      BY <3>1 DEF TwoLess
    <3>3. rules' = [j \in (DOMAIN Old \ S) \cup {i} |-> IF j = i THEN new ELSE Old[j]]
      BY <2>1, <3>2 DEF And, Left
    <3>4. UpdateAnew
      BY <2>1, <3>2, <3>3 DEF UpdateAnew, new
    <3>5. PolicyStep
      BY <2>4, <3>4 DEF PolicyStep, Ended
    <3> QED
      BY <2>1, <3>5, KeptEnd
  <2> QED
    BY <2>2, <2>3, <2>4
<1> QED
  BY <1>2, <1>3 DEF addRule

\* What the lemmas about steps that go on need of the call and of the policy.
SameCall ==
  /\ act'.op = act.op /\ act'.name = act.name /\ act'.rule = act.rule /\ act'.want = act.want
  /\ UNCHANGED <<before, others>>

LEMMA SamePolicy ==
  ASSUME SameCall, UNCHANGED rules
  PROVE  /\ OneLess' = OneLess /\ TwoLess' = TwoLess /\ Old' = Old
         /\ Named(act.name)' = Named(act.name)
<1>1. Old' = Old /\ OldNamed' = OldNamed /\ Named(act.name)' = Named(act.name)
  BY DEF SameCall, Old, OldNamed, Named
<1>2. \A S : Left(S)' = Left(S)
  BY <1>1 DEF Left
<1> QED
  BY <1>1, <1>2 DEF OneLess, TwoLess

LEMMA KeptUpdate == ASSUME Alright, updateRule PROVE Kept
<1>1. CASE act.at = "validate" /\ (Throw("InvalidArgument") \/ Goto([act EXCEPT !.at = "policy"]))
  <2>1. CASE Throw("InvalidArgument")
    BY <2>1, KeptThrow
  <2>2. CASE Goto([act EXCEPT !.at = "policy"])
    <3>1. /\ SameCall /\ act'.at = "policy" /\ act'.k = act.k /\ act'.stack = act.stack
          /\ UNCHANGED <<rules, profiles>>
      BY <2>2 DEF Goto, Alright, RulesHeld, ActFields, SameCall
    <3>2. Fun = "updateRule" /\ Fun' = Fun /\ act.op = "updateRule"
      BY <1>1, <3>1, WhoRuns DEF Fun, Alright, RulesHeld, Running, Runs
    <3>3. Done'
      BY <1>1, <3>1, <3>2 DEF Alright, PolicyHeld, Done, SameCall, Old
    <3> QED
      BY <3>1, <3>3, KeptGo DEF SameCall
  <2> QED
    BY <1>1, <2>1, <2>2
<1>2. ASSUME act.at = "item", Fun = "updateRule", NEW i \in Named(act.name), Goto([act EXCEPT !.at = "put", !.id = i])
      PROVE  Kept
  <2>1. /\ SameCall /\ act'.at = "put" /\ act'.k = act.k /\ act'.stack = act.stack /\ act'.id = i
        /\ UNCHANGED <<rules, profiles>>
    BY <1>2 DEF Goto, Alright, RulesHeld, ActFields, SameCall
  <2>2. Fun' = "updateRule" /\ act.op = "updateRule"
    BY <1>2, <2>1, WhoRuns DEF Fun, Alright
  <2>3. rules = Old /\ act.k = 1 /\ Old \in Seq([ToSet(Fields) -> STRING])
    BY <1>2, <2>2 DEF Alright, PolicyHeld, Done
  <2>4. i \in DOMAIN Old /\ i \in OldNamed /\ DOMAIN Old[i] = ToSet(Fields)
    BY <1>2, <2>3 DEF Named, OldNamed
  <2>5. InPlaceSoFar'
    BY <2>1, <2>3, <2>4, FieldsAre DEF InPlaceSoFar, SameCall, Old, OldNamed
  <2>6. Done'
    BY <2>1, <2>2, <2>3, <2>5 DEF Done, SameCall, Old
  <2> QED
    BY <2>1, <2>6, KeptGo DEF SameCall
<1>3. CASE /\ act.at = "item" /\ Fun = "updateRule"
           /\ Goto([act EXCEPT !.stack = Append(@, "removeRule"), !.at = "policy"])
  <2>1. act.op = "updateRule" /\ act.stack = <<"updateRule">>
    BY <1>3, WhoRuns DEF Alright
  <2>2. /\ SameCall /\ act'.at = "policy" /\ act'.stack = Append(act.stack, "removeRule")
        /\ UNCHANGED <<rules, profiles>>
    BY <1>3 DEF Goto, Alright, RulesHeld, ActFields, SameCall
  <2>3. Fun' = "removeRule"
    BY <2>1, <2>2, CallStacks DEF Fun
  <2>4. Done'
    BY <1>3, <2>1, <2>2, <2>3 DEF Alright, PolicyHeld, Done, SameCall, Old
  <2> QED
    BY <2>2, <2>4, KeptGo DEF SameCall
<1>4. CASE /\ act.at = "back" /\ Fun = "updateRule"
           /\ Goto([act EXCEPT !.stack = <<"addRule">>, !.at = "policy"])
  <2>1. act.op = "updateRule"
    BY <1>4, WhoRuns DEF Alright
  <2>2. /\ SameCall /\ act'.at = "policy" /\ act'.stack = <<"addRule">> /\ UNCHANGED <<rules, profiles>>
    BY <1>4 DEF Goto, Alright, RulesHeld, ActFields, SameCall
  <2>3. Fun' = "addRule"
    BY <2>2, CallStacks DEF Fun, Alone
  <2>4. TwoLess'
    <3>1. TwoLess
      BY <1>4, <2>1 DEF Alright, PolicyHeld, Done
    <3> QED
      BY <2>2, <3>1, SamePolicy
  <2>5. Done'
    BY <2>1, <2>2, <2>3, <2>4 DEF Alright, PolicyHeld, Done, SameCall, Old
  <2> QED
    BY <2>2, <2>5, KeptGo DEF SameCall
<1> QED
  BY <1>1, <1>2, <1>3, <1>4 DEF updateRule, At

LEMMA KeptPut == ASSUME Alright, putRule PROVE Kept
<1>1. act.at = "put" /\ Fun = "updateRule" /\ act.op = "updateRule"
  BY WhoRuns DEF putRule, At, Alright, RulesHeld, Running, Runs
<1>2. InPlaceSoFar /\ Old \in Seq([ToSet(Fields) -> STRING])
  BY <1>1 DEF Alright, PolicyHeld, Done
<1>3. act.id \in OldNamed /\ act.id \in DOMAIN Old /\ act.k \in 1..7 /\ DOMAIN Old[act.id] = ToSet(Fields)
  BY <1>2, FieldsAre DEF InPlaceSoFar, OldNamed
<1> DEFINE f == Fields[act.k]
<1>4. CASE checkHResult
  BY <1>4, KeptCheck
<1>5. CASE act.k > Len(Fields) /\ Goto(Over("ok"))
  <2>1. act'.at = "idle" /\ UNCHANGED <<rules, profiles, before, others>>
    BY <1>5 DEF Goto, Over, NoAct
  <2>2. \A j \in DOMAIN Fields : j < act.k /\ j <= 6
    BY <1>3, <1>5, FieldsAre
  <2>3. /\ DOMAIN rules' = DOMAIN Old /\ Elsewhere(act.id)
        /\ \A j \in DOMAIN Fields : rules'[act.id][Fields[j]] = Updated(act.id)[Fields[j]]
    BY <1>2, <2>1, <2>2 DEF InPlaceSoFar, Elsewhere
  <2>4. UpdateInPlace(act.id)
    BY <2>2, <2>3, FieldsAre DEF UpdateInPlace
  <2>5. PolicyStep
    BY <1>1, <1>3, <2>4 DEF PolicyStep, Ended
  <2> QED
    BY <2>1, <2>5, KeptEnd
<1>6. ASSUME act.k <= Len(Fields), act' = [act EXCEPT !.k = @ + 1], UNCHANGED <<profiles, before, others>>,
             \/ ~Given(f) /\ UNCHANGED rules
             \/ Given(f) /\ rules' = With(act.id, f, act.rule[f])
      PROVE  Kept
  <2>1. /\ SameCall /\ act'.at = act.at /\ act'.stack = act.stack /\ act'.id = act.id
        /\ act'.k = act.k + 1
    BY <1>6 DEF Alright, RulesHeld, ActFields, SameCall
  <2>2. act.k \in 1..6 /\ act'.k \in 1..7 /\ f \in ToSet(Fields)
    BY <1>3, <1>6, <2>1, FieldsAre
  <2>3. Updated(act.id)[f] = IF Given(f) THEN act.rule[f] ELSE Old[act.id][f]
    BY <2>2 DEF Updated, Asks, Given
  <2>4. /\ DOMAIN rules' = DOMAIN Old /\ DOMAIN rules'[act.id] = ToSet(Fields)
        /\ \A j \in DOMAIN Old \ {act.id} : rules'[j] = Old[j]
        /\ \A g \in ToSet(Fields) \ {f} : rules'[act.id][g] = rules[act.id][g]
        /\ Given(f) => rules'[act.id][f] = act.rule[f]
        /\ ~Given(f) => rules'[act.id][f] = rules[act.id][f]
    BY <1>2, <1>3, <1>6, <2>2 DEF With, InPlaceSoFar
  <2>5. \A j \in DOMAIN Fields :
          rules'[act.id][Fields[j]] = IF j < act.k + 1 THEN Updated(act.id)[Fields[j]] ELSE Old[act.id][Fields[j]]
    <3>1. ASSUME NEW j \in DOMAIN Fields
          PROVE  rules[act.id][Fields[j]] = IF j < act.k THEN Updated(act.id)[Fields[j]] ELSE Old[act.id][Fields[j]]
      BY <1>2 DEF InPlaceSoFar
    <3> HIDE DEF f
    <3> TAKE j \in DOMAIN Fields
    <3>2. CASE j = act.k
      <4>1. Fields[j] = f /\ j < act.k + 1 /\ ~(j < act.k)
        BY <2>2, <3>2 DEF f
      <4> QED
        BY <2>3, <2>4, <3>1, <4>1
    <3>3. CASE j # act.k
      <4>1. Fields[j] \in ToSet(Fields) \ {f} /\ (j < act.k + 1 <=> j < act.k)
        BY <2>2, <3>3, FieldsAre DEF f
      <4> QED
        BY <2>4, <3>1, <4>1
    <3> QED
      BY <3>2, <3>3
  <2> HIDE DEF f
  <2>6. InPlaceSoFar'
    <3>1. Old' = Old /\ OldNamed' = OldNamed /\ act'.id = act.id
      BY <2>1 DEF SameCall, Old, OldNamed
    <3>2. Updated(act.id)' = Updated(act.id)
      BY <2>1 DEF SameCall, Old, Updated, Asks
    <3> QED
      BY <1>3, <2>1, <2>2, <2>4, <2>5, <3>1, <3>2, FieldsAre DEF InPlaceSoFar
  <2>7. Fun' = "updateRule"
    BY <1>1, <2>1 DEF Fun
  <2>8. Done'
    BY <1>1, <1>2, <2>1, <2>6, <2>7 DEF Done, SameCall, Old
  <2> QED
    BY <1>1, <2>1, <2>8, KeptGo DEF SameCall
<1> QED
  BY <1>4, <1>5, <1>6 DEF putRule, Goto, Write

\* removeRule() gives control back to updateRule(), or ends.
LEMMA KeptRemoved ==
  ASSUME Alright, Fun = "removeRule", NEW a, DOMAIN a = ActFields,
         a.op = act.op, a.name = act.name, a.rule = act.rule, a.want = act.want, a.stack = act.stack,
         act' = Back(a, "ok"), UNCHANGED <<profiles, before, others>>,
         NEW S \in SUBSET OldNamed, Cardinality(S) <= 2, Lost(S), Cardinality(S) = 2 \/ S = OldNamed \/ act.op = "updateRule"
  PROVE  Kept
<1>1. \/ act.op = "removeRule" /\ act.stack = <<"removeRule">>
      \/ act.op = "updateRule" /\ act.stack = <<"updateRule", "removeRule">>
  BY WhoRuns DEF Alright
<1>2. CASE act.op = "removeRule" /\ act.stack = <<"removeRule">>
  <2>1. act'.at = "idle"
    BY <1>2, CallStacks DEF Back, Over, NoAct
  <2>2. Removed
    BY <1>2 DEF Removed
  <2>3. PolicyStep
    BY <1>2, <2>2 DEF PolicyStep, Ended
  <2> QED
    BY <2>1, <2>3, KeptEnd
<1>3. CASE act.op = "updateRule" /\ act.stack = <<"updateRule", "removeRule">>
  <2>1. SameCall /\ act'.at = "back" /\ act'.stack = <<"updateRule">>
    BY <1>3, CallStacks DEF Back, SameCall, ActFields
  <2>2. Fun' = "updateRule"
    BY <2>1, CallStacks DEF Fun
  <2>3. TwoLess'
    BY <2>1 DEF TwoLess, Left, Lost, Old, OldNamed, SameCall
  <2>4. Done'
    BY <1>3, <2>1, <2>2, <2>3 DEF Done, SameCall, Old, Alright, PolicyHeld
  <2> QED
    BY <2>1, <2>4, KeptGo DEF SameCall
<1> QED
  BY <1>1, <1>2, <1>3

LEMMA KeptRemove == ASSUME Alright, removeRule PROVE Kept
<1>1. Fun = "removeRule" /\ act.at # "idle"
  BY DEF removeRule, At, Alright, RulesHeld, Running, Runs
<1>2. /\ Removes
      /\ \/ act.op = "removeRule" /\ act.stack = <<"removeRule">>
         \/ act.op = "updateRule" /\ act.stack = <<"updateRule", "removeRule">>
  BY <1>1, WhoRuns DEF Alright, Removes
<1>3. CASE checkHResult
  BY <1>3, KeptCheck
<1>4. ASSUME act.at = "remove", act' = [act EXCEPT !.stack = Append(@, "ruleExists"), !.at = "policy"],
             UNCHANGED <<profiles, before, others>>,
             \/ \E i \in Named(act.name) : rules' = Without(i)
             \/ Named(act.name) = {} /\ UNCHANGED rules
      PROVE  Kept
  <2>1. SameCall /\ act'.at = "policy" /\ act'.stack = Append(act.stack, "ruleExists")
    BY <1>4 DEF Alright, RulesHeld, ActFields, SameCall
  <2>2. Fun' = "ruleExists" /\ Removes'
    BY <1>2, <2>1, CallStacks DEF Fun, Removes, SameCall
  <2>3. rules = Old /\ Done
    BY <1>1, <1>2, <1>4 DEF Alright, PolicyHeld, Done
  <2>4. Left({})
    BY <2>3, NoneLost
  <2>5. OneLess'
    <3>1. ASSUME NEW i \in Named(act.name), rules' = Without(i) PROVE i \in OldNamed /\ Left({i})'
      <4>1. i \in OldNamed \ {} /\ Lost({} \cup {i})
        BY <2>3, <2>4, <3>1, OneMoreLost
      <4>2. Lost({i})
        BY <4>1, {} \cup {i} = {i}
      <4> QED
        BY <2>1, <4>1, <4>2 DEF Lost, Left, Old, SameCall
    <3>2. CASE Named(act.name) = {} /\ UNCHANGED rules
      <4>1. OldNamed = {}
        BY <2>3, <3>2 DEF OldNamed, Named
      <4> QED
        BY <2>1, <2>4, <3>2, <4>1 DEF OneLess, Left, Old, OldNamed, SameCall
    <3> QED
      BY <1>4, <2>1, <3>1, <3>2 DEF OneLess, OldNamed, Old, SameCall
  <2>6. Done'
    BY <1>2, <2>1, <2>2, <2>3, <2>5 DEF Done, SameCall, Old
  <2> QED
    BY <2>1, <2>6, KeptGo DEF SameCall
<1>5. ASSUME act.at = "back" PROVE OneLess
  BY <1>1, <1>2, <1>5 DEF Alright, PolicyHeld, Done
<1>6. ASSUME act.at = "back", act.said = "false", Goto(Back(act, "ok")) PROVE Kept
  <2>1. OneLess /\ Named(act.name) = {}
    BY <1>1, <1>2, <1>6 DEF Alright, PolicyHeld, Done
  <2>2. PICK S \in SUBSET OldNamed : Cardinality(S) <= 2 /\ Left(S) /\ S = OldNamed
    <3>1. CASE OldNamed = {} /\ Left({})
      BY <3>1, FS_EmptySet
    <3>2. ASSUME NEW i \in OldNamed, Left({i})
          PROVE  {i} = OldNamed /\ Cardinality({i}) <= 2
      <4>1. \A j \in OldNamed : j = i
        BY <2>1, <3>2 DEF Left, Named, OldNamed
      <4> QED
        BY <4>1, SmallSets
    <3> QED
      BY <2>1, <3>1, <3>2 DEF OneLess
  <2>3. DOMAIN act = ActFields /\ act' = Back(act, "ok") /\ UNCHANGED <<profiles, before, others>> /\ Lost(S)
    BY <1>6, <2>2 DEF Goto, Alright, RulesHeld, Lost, Left
  <2> QED
    BY <1>1, <2>2, <2>3, KeptRemoved
<1>7. CASE act.at = "back" /\ Goto([act EXCEPT !.at = "search", !.todo = DOMAIN rules])
  <2>1. SameCall /\ act'.at = "search" /\ act'.stack = act.stack /\ UNCHANGED <<rules, profiles>>
    BY <1>7 DEF Goto, Alright, RulesHeld, ActFields, SameCall
  <2>2. Fun' = "removeRule" /\ OneLess'
    BY <1>1, <1>5, <1>7, <2>1, SamePolicy DEF Fun
  <2>3. Done'
    BY <1>2, <2>1, <2>2 DEF Done, SameCall, Old, Alright, PolicyHeld
  <2> QED
    BY <2>1, <2>3, KeptGo DEF SameCall
<1> QED
  BY <1>3, <1>4, <1>6, <1>7 DEF removeRule, At, Goto, Write

LEMMA KeptFound == ASSUME Alright, removeFound PROVE Kept
<1>1. act.at = "search" /\ Fun = "removeRule"
  BY DEF removeFound, At, Alright, RulesHeld, Running, Runs
<1>2. /\ Removes
      /\ \/ act.op = "removeRule" /\ act.stack = <<"removeRule">>
         \/ act.op = "updateRule" /\ act.stack = <<"updateRule", "removeRule">>
  BY <1>1, WhoRuns DEF Alright, Removes
<1>3. Done /\ OneLess
  BY <1>1, <1>2 DEF Alright, PolicyHeld, Done
<1>4. CASE Throw("FireWallRuleNotFound")
  BY <1>4, KeptThrow
<1>5. ASSUME NEW i, Goto([act EXCEPT !.todo = @ \ {i}]) PROVE Kept
  <2>1. SameCall /\ act'.at = "search" /\ act'.stack = act.stack /\ UNCHANGED <<rules, profiles>>
    BY <1>1, <1>5 DEF Goto, Alright, RulesHeld, ActFields, SameCall
  <2>2. Fun' = "removeRule" /\ OneLess'
    BY <1>1, <1>3, <2>1, SamePolicy DEF Fun
  <2>3. Done'
    BY <1>2, <1>3, <2>1, <2>2 DEF Done, SameCall, Old
  <2> QED
    BY <2>1, <2>3, KeptGo DEF SameCall
<1>6. ASSUME NEW n, NEW j \in Named(act.name), Write(Without(j), Back([act EXCEPT !.refs = @ + n], "ok"))
      PROVE  Kept
  <2> DEFINE a == [act EXCEPT !.refs = @ + n]
  <2>1. /\ DOMAIN a = ActFields /\ a.op = act.op /\ a.name = act.name /\ a.rule = act.rule
        /\ a.want = act.want /\ a.stack = act.stack
    BY DEF Alright, RulesHeld, ActFields
  <2> HIDE DEF a
  <2>2. act' = Back(a, "ok") /\ rules' = Without(j) /\ UNCHANGED <<profiles, before, others>>
    BY <1>6 DEF Write, a
  <2>3. PICK S \in SUBSET OldNamed : Cardinality(S) = 2 /\ Lost(S)
    <3>1. CASE OldNamed = {} /\ Left({})
      BY <1>3, <2>2, <3>1, OneMoreLost
    <3>2. ASSUME NEW i \in OldNamed, Left({i})
          PROVE  {i, j} \in SUBSET OldNamed /\ Cardinality({i, j}) = 2 /\ Lost({i, j})
      <4>1. j \in OldNamed \ {i} /\ Lost({i} \cup {j})
        BY <1>3, <2>2, <3>2, OneMoreLost
      <4>2. Lost({i, j})
        BY <4>1, {i} \cup {j} = {i, j}
      <4>3. i # j
        BY <4>1
      <4> QED
        BY <4>1, <4>2, <4>3, SmallSets
    <3> QED
      BY <1>3, <3>1, <3>2 DEF OneLess
  <2> QED
    BY <1>1, <2>1, <2>2, <2>3, KeptRemoved
<1>7. ASSUME NEW said, said # "ok", NEW r, Goto([Over(said) EXCEPT !.refs = r]) PROVE Kept
  <2>1. act'.at = "idle" /\ act'.said # "ok"
    BY <1>7 DEF Goto, Over, NoAct
  <2> QED
    BY <1>7, <2>1, KeptFail DEF Goto
<1> DEFINE n(i) == IF act.todo = {i} THEN 1 ELSE 2
<1>8. \/ Throw("FireWallRuleNotFound")
      \/ \E i : Goto([act EXCEPT !.todo = @ \ {i}])
      \/ \E i : \E j \in Named(act.name) : Write(Without(j), Back([act EXCEPT !.refs = @ + n(i)], "ok"))
      \/ \E said \in {"FireWallError", "FireWallAccessDenied"} : \E i :
           Goto([Over(said) EXCEPT !.refs = [act EXCEPT !.refs = @ + n(i)].refs])
  BY DEF removeFound
<1> HIDE DEF n
<1> QED
  BY <1>4, <1>5, <1>6, <1>7, <1>8

\* ruleExists() gives control back to removeRule(), or ends.
LEMMA KeptLooked ==
  ASSUME Alright, Fun = "ruleExists", NEW a, DOMAIN a = ActFields,
         a.op = act.op, a.name = act.name, a.rule = act.rule, a.want = act.want, a.stack = act.stack,
         NEW said, Goto(Back(a, said)), said = "false" /\ Removes => Named(act.name) = {}
  PROVE  Kept
<1>1. \/ act.op = "ruleExists" /\ act.stack = <<"ruleExists">>
      \/ act.op = "removeRule" /\ act.stack = <<"removeRule", "ruleExists">>
      \/ act.op = "updateRule" /\ act.stack = <<"updateRule", "removeRule", "ruleExists">>
  BY WhoRuns DEF Alright
<1>2. CASE act.op = "ruleExists" /\ act.stack = <<"ruleExists">>
  <2>1. act'.op = act.op
    BY <1>2, CallStacks DEF Goto, Back, Over, NoAct, Alone
  <2> QED
    BY <1>2, <2>1, KeptReading DEF Goto
<1>3. CASE Removes
  <2>1. OneLess /\ Done
    BY <1>3 DEF Alright, PolicyHeld, Done
  <2>2. Len(act.stack) # 1 /\ Last(Front(act.stack)) = "removeRule"
    BY <1>1, <1>3, CallStacks DEF Removes
  <2>3. /\ SameCall /\ act'.at = "back" /\ act'.said = said /\ act'.stack = Front(act.stack)
        /\ UNCHANGED <<rules, profiles>>
    BY <2>2 DEF Goto, Back, SameCall, ActFields
  <2>4. Fun' = "removeRule"
    BY <2>2, <2>3 DEF Fun
  <2>5. OneLess' /\ (act'.said = "false" => Named(act.name)' = {})
    BY <1>3, <2>1, <2>3, SamePolicy
  <2>6. Done'
    BY <1>3, <2>1, <2>3, <2>4, <2>5 DEF Done, SameCall, Old, Removes
  <2> QED
    BY <2>3, <2>6, KeptGo DEF SameCall
<1> QED
  BY <1>1, <1>2, <1>3 DEF Removes

LEMMA KeptExists == ASSUME Alright, ruleExists PROVE Kept
<1>1. act.at \in {"item", "look"} /\ Fun = "ruleExists" /\ DOMAIN act = ActFields
  BY DEF ruleExists, At, Alright, RulesHeld, Running, Runs
<1>2. act.op \in {"ruleExists", "removeRule", "updateRule"}
  BY <1>1, WhoRuns DEF Alright
<1>3. Removes => Done /\ OneLess /\ (act.at = "look" => Named(act.name) \subseteq act.todo)
  BY <1>1 DEF Alright, PolicyHeld, Done
<1>4. CASE checkHResult
  BY <1>4, KeptCheck
<1>5. ASSUME Goto(Back(act, "true")) \/ (act.at = "look" /\ act.todo = {} /\ Goto(Back(act, "false")))
      PROVE  Kept
  <2>1. act.at = "look" /\ act.todo = {} /\ Removes => Named(act.name) = {}
    BY <1>3
  <2>2. CASE Goto(Back(act, "true"))
    BY <1>1, <2>2, KeptLooked
  <2>3. CASE act.at = "look" /\ act.todo = {} /\ Goto(Back(act, "false"))
    BY <1>1, <2>1, <2>3, KeptLooked
  <2> QED
    BY <1>5, <2>2, <2>3
<1>6. ASSUME NEW n, Goto(Back([act EXCEPT !.refs = @ + n], "true")) PROVE Kept
  <2> DEFINE a == [act EXCEPT !.refs = @ + n]
  <2>1. /\ DOMAIN a = ActFields /\ a.op = act.op /\ a.name = act.name /\ a.rule = act.rule
        /\ a.want = act.want /\ a.stack = act.stack
    BY <1>1 DEF ActFields
  <2> HIDE DEF a
  <2>2. Goto(Back(a, "true"))
    BY <1>6 DEF a
  <2> QED
    BY <1>1, <2>1, <2>2, KeptLooked
<1>7. ASSUME NEW todo, Goto([act EXCEPT !.at = "look", !.todo = todo]),
             Removes => Named(act.name) \subseteq todo
      PROVE  Kept
  <2>1. /\ SameCall /\ act'.at = "look" /\ act'.stack = act.stack /\ act'.todo = todo
        /\ UNCHANGED <<rules, profiles>>
    BY <1>1, <1>7 DEF Goto, ActFields, SameCall
  <2>2. CASE act.op = "ruleExists"
    BY <2>1, <2>2, KeptReading DEF SameCall
  <2>3. CASE Removes
    <3>1. Fun' = "ruleExists" /\ OneLess' /\ Named(act.name)' \subseteq act'.todo
      BY <1>1, <1>3, <1>7, <2>1, <2>3, SamePolicy DEF Fun
    <3>2. Done'
      BY <1>3, <2>1, <2>3, <3>1 DEF Done, SameCall, Old, Removes
    <3> QED
      BY <2>1, <3>2, KeptGo DEF SameCall
  <2> QED
    BY <1>2, <2>2, <2>3 DEF Removes
<1>8. CASE Goto([act EXCEPT !.at = "look", !.todo = DOMAIN rules])
  BY <1>7, <1>8 DEF Named
<1>9. ASSUME act.at = "look", NEW i, i \notin Named(act.name), Goto([act EXCEPT !.todo = @ \ {i}])
      PROVE  Kept
  <2>1. [act EXCEPT !.todo = @ \ {i}] = [act EXCEPT !.at = "look", !.todo = act.todo \ {i}]
    BY <1>1, <1>9 DEF ActFields
  <2>2. Removes => Named(act.name) \subseteq act.todo \ {i}
    BY <1>3, <1>9
  <2> QED
    BY <1>7, <1>9, <2>1, <2>2
<1> DEFINE n(i) == IF act.todo = {i} THEN 0 ELSE 1
<1>10. \/ checkHResult \/ Goto(Back(act, "true"))
       \/ act.at = "look" /\ act.todo = {} /\ Goto(Back(act, "false"))
       \/ Goto([act EXCEPT !.at = "look", !.todo = DOMAIN rules])
       \/ \E i : act.at = "look" /\ i \notin Named(act.name) /\ Goto([act EXCEPT !.todo = @ \ {i}])
       \/ \E i : Goto(Back([act EXCEPT !.refs = @ + n(i)], "true"))
  BY DEF ruleExists, At
<1> HIDE DEF n
<1> QED
  BY <1>4, <1>5, <1>6, <1>8, <1>9, <1>10

LEMMA KeptRead ==
  ASSUME Alright, getRules \/ getRule \/ convertFwRule2Rule
  PROVE  Kept
<1>1. act.at \in {"enum", "convert"} /\ Fun \in {"getRules", "getRule"} /\ DOMAIN act = ActFields
  BY DEF getRules, getRule, convertFwRule2Rule, At, Alright, RulesHeld, Running, Runs
<1>2. act.op \in {"getRules", "getRule"}
  BY <1>1, WhoIsCalled DEF Alright
<1>3. ASSUME act'.op = act.op, UNCHANGED <<before, others>> PROVE Kept
  BY <1>2, <1>3, KeptReading
<1>4. CASE Goto(Over("ok"))
  BY <1>3, <1>4 DEF Goto, Over, NoAct
<1>5. ASSUME NEW i, Converted(i) \/ Goto([act EXCEPT !.todo = @ \ {i}])
      PROVE  Kept
  BY <1>1, <1>3, <1>5 DEF Converted, Goto, ActFields
<1>6. CASE convertFwRule2Rule
  <2>1. \/ Goto([act EXCEPT !.at = "enum", !.out = Append(@, act.rule)])
        \/ \E r : Goto([act EXCEPT !.k = @ + 1, !.rule = r])
    BY <1>6 DEF convertFwRule2Rule
  <2> QED
    BY <1>1, <1>3, <2>1 DEF Goto, ActFields
<1> QED
  BY <1>4, <1>5, <1>6 DEF getRules, getRule

LEMMA KeptGetStatus == ASSUME Alright, getStatus PROVE Kept
<1>1. act.op = "getStatus" /\ DOMAIN act = ActFields
  BY WhoIsCalled DEF getStatus, Alright, RulesHeld
<1>2. act'.op = act.op /\ UNCHANGED <<before, others>>
  BY <1>1 DEF getStatus, Goto, Over, NoAct, ActFields
<1> QED
  BY <1>1, <1>2, KeptReading

LEMMA KeptSetStatus == ASSUME Alright, setStatus PROVE Kept
<1>1. act.op = "setStatus" /\ act.at = "profile" /\ Fun = "setStatus" /\ DOMAIN act = ActFields
  BY WhoIsCalled DEF setStatus, Alright, RulesHeld, At
<1>2. SetSoFar /\ Done
  BY <1>1 DEF Alright, PolicyHeld, Done
<1>3. CASE checkHResult
  BY <1>3, KeptCheck
<1>4. CASE act.k > Len(Profiles) /\ Goto(Over("ok"))
  <2>1. act'.at = "idle" /\ UNCHANGED <<rules, profiles, before, others>>
    BY <1>4 DEF Goto, Over, NoAct
  <2>2. \A j \in DOMAIN Profiles : j < act.k /\ j <= 3
    BY <1>2, <1>4, ProfilesAre DEF SetSoFar
  <2>3. \A j \in DOMAIN Profiles : Profiles[j] \in profiles' <=> Profiles[j] \in act.want
    BY <1>2, <2>1, <2>2 DEF SetSoFar
  <2>4. StatusSet
    BY <2>2, <2>3, ProfilesAre DEF StatusSet
  <2>5. PolicyStep
    BY <1>1, <2>4 DEF PolicyStep, Ended
  <2> QED
    BY <2>1, <2>5, KeptEnd
<1> DEFINE p == Profiles[act.k]
<1>5. ASSUME act.k <= Len(Profiles), act' = [act EXCEPT !.k = @ + 1],
             profiles' = (IF p \in act.want THEN profiles \cup {p} ELSE profiles \ {p}),
             before' = [before EXCEPT !.on = @ \cup profiles'], UNCHANGED <<rules, others>>
      PROVE  Kept
  <2>1. /\ act'.op = act.op /\ act'.want = act.want /\ act'.at = act.at /\ act'.k = act.k + 1
    BY <1>1, <1>5 DEF ActFields
  <2>2. DOMAIN before' = DOMAIN before /\ before'.rules = before.rules /\ before'.profiles = before.profiles
    BY <1>5 DEF Alright, PolicyHeld
  <2>3. act.k \in 1..3 /\ act'.k \in 1..4
    BY <1>2, <1>5, <2>1, ProfilesAre DEF SetSoFar
  <2>4. \A j \in DOMAIN Profiles \ {act.k} :
          /\ Profiles[j] \in profiles' <=> Profiles[j] \in profiles
          /\ j < act.k + 1 <=> j < act.k
    BY <1>5, <2>3, ProfilesAre
  <2>5. act.k < act.k + 1 /\ (Profiles[act.k] \in profiles' <=> Profiles[act.k] \in act.want)
    BY <1>5, <2>3
  <2>6. SetSoFar'
    <3>1. \A j \in DOMAIN Profiles :
            Profiles[j] \in profiles' <=> Profiles[j] \in (IF j < act.k + 1 THEN act.want ELSE before.profiles)
      BY <1>2, <2>3, <2>4, <2>5 DEF SetSoFar
    <3> QED
      BY <2>1, <2>2, <2>3, <3>1, ProfilesAre DEF SetSoFar
  <2>7. Done'
    BY <1>1, <1>2, <2>1, <2>2, <2>6 DEF Done, Old, Removes
  <2> QED
    BY <1>1, <1>5, <2>1, <2>2, <2>7, KeptGo
<1>6. act.k \in 1..4 /\ Len(Profiles) = 3
  BY <1>2, ProfilesAre DEF SetSoFar
<1>7. act.k > Len(Profiles) \/ act.k <= Len(Profiles)
  BY <1>6
<1> QED
  BY <1>1, <1>3, <1>4, <1>5, <1>7 DEF setStatus, Goto

-----------------------------------------------------------------------------
(* All steps.                                                               *)

\* Every step of a call leaves alone how often others have written.
LEMMA StepAlone ==
  ASSUME Step
  PROVE  act.at # "idle" /\ others' = others /\ (DOMAIN before' = DOMAIN before)
<1>1. \A code : Throw(code) => others' = others /\ before' = before
  BY DEF Throw, Goto
<1>2. checkHResult => others' = others /\ before' = before
  BY <1>1 DEF checkHResult
<1>3. \A a : Goto(a) => others' = others /\ before' = before
  BY DEF Goto
<1>4. \A r, a : Write(r, a) => others' = others /\ before' = before
  BY DEF Write
<1>5. ASSUME ComInitializer \/ FirewallPolicyHelper
      PROVE  act.at # "idle" /\ others' = others /\ before' = before
  BY <1>1, <1>2, <1>3, <1>5 DEF ComInitializer, FirewallPolicyHelper, At
<1>6. ASSUME addRule \/ updateRule \/ putRule
      PROVE  act.at # "idle" /\ others' = others /\ before' = before
  BY <1>1, <1>2, <1>3, <1>4, <1>6 DEF addRule, updateRule, putRule, At
<1>7. ASSUME removeRule \/ removeFound
      PROVE  act.at # "idle" /\ others' = others /\ before' = before
  BY <1>1, <1>2, <1>3, <1>4, <1>7 DEF removeRule, removeFound, At
<1>8. ASSUME ruleExists \/ getRules \/ getRule \/ convertFwRule2Rule \/ getStatus
      PROVE  act.at # "idle" /\ others' = others /\ before' = before
  BY <1>2, <1>3, <1>8 DEF ruleExists, getRules, getRule, convertFwRule2Rule, getStatus, Converted, At
<1>9. ASSUME setStatus
      PROVE  act.at # "idle" /\ others' = others /\ DOMAIN before' = DOMAIN before
  BY <1>2, <1>3, <1>9 DEF setStatus, At
<1> QED
  BY <1>5, <1>6, <1>7, <1>8, <1>9 DEF Step

LEMMA KeptStep ==
  ASSUME RulesHeld, PolicyHeld, Step
  PROVE  Kept
<1>1. act.at # "idle" /\ others' = others /\ DOMAIN before' = DOMAIN before
  BY StepAlone
<1>2. CASE others = 0
  BY <1>1, <1>2, KeptPolicy, KeptAdd, KeptUpdate, KeptPut, KeptRemove, KeptFound, KeptExists, KeptRead,
     KeptGetStatus, KeptSetStatus DEF Step, Alright
<1>3. CASE others # 0
  BY <1>1, <1>3 DEF Kept, PolicyHeld, PolicyStep, Ended
<1> QED
  BY <1>2, <1>3

\* A call begins with rules that have all their properties.
LEMMA KeptBegin ==
  ASSUME PoliciesFit, PolicyHeld, Call \/ Forget \/ OthersWrite
  PROVE  Kept
<1>1. ASSUME NEW op \in {"addRule", "updateRule", "removeRule", "ruleExists", "getRule", "getRules",
                         "getStatus", "setStatus"},
             NEW name, NEW r, NEW want, NEW at \in {"policy", "validate"},
             at = "validate" => op = "updateRule", Begin(op, name, r, want, at)
      PROVE  Kept
  <2>1. act.at = "idle"
    BY <1>1 DEF Begin, NoAct
  <2>2. /\ act'.op = op /\ act'.stack = <<op>> /\ act'.at = at /\ act'.k = 1 /\ act'.want = want
        /\ before'.rules = rules' /\ before'.profiles = profiles'
        /\ DOMAIN before' = {"rules", "profiles", "on"} /\ others' = 0
    BY <1>1 DEF Begin, NoAct
  <2>3. rules' \in Seq([ToSet(Fields) -> STRING])
    <3>1. <<>> \in Seq([ToSet(Fields) -> STRING])
      BY EmptySeq
    <3> QED
      BY <1>1, <3>1 DEF Begin, PoliciesFit
  <2>4. Fun' = op
    <3>1. Last(<<op>>) = op
      BY CallStacks DEF Alone
    <3> QED
      BY <2>2, <3>1 DEF Fun
  <2>5. SetSoFar'
    <3>1. \A j \in DOMAIN Profiles : ~(j < 1)
      BY ProfilesAre
    <3> QED
      BY <2>2, <3>1, ProfilesAre DEF SetSoFar
  <2>6. Done'
    BY <1>1, <2>2, <2>3, <2>4, <2>5 DEF Done, Removes, Old
  <2> QED
    BY <2>1, <2>2, <2>6 DEF Kept, PolicyHeld, PolicyStep, Ended, At
<1>2. CASE Call
  BY <1>1, <1>2 DEF Call
<1>3. CASE Forget
  BY <1>3 DEF Forget, NoAct, Kept, PolicyHeld, PolicyStep, Ended, At
<1>4. CASE OthersWrite
  <2>1. /\ act' = act /\ act.at # "idle" /\ others' = others + 1 /\ DOMAIN before' = DOMAIN before
    BY <1>4 DEF OthersWrite, At
  <2> QED
    BY <2>1 DEF Kept, PolicyHeld, PolicyStep, Ended
<1> QED
  BY <1>2, <1>3, <1>4

LEMMA PolicyInit == Init => PolicyHeld
BY DEF Init, NoAct, PolicyHeld

LEMMA PolicyNext ==
  ASSUME PoliciesFit, RulesHeld, PolicyHeld, Next
  PROVE  PolicyHeld' /\ PolicyStep
BY KeptStep, KeptBegin DEF Next, Kept

LEMMA PolicyStutters ==
  ASSUME PolicyHeld, UNCHANGED vars
  PROVE  PolicyHeld'
<1>1. act' = act /\ before' = before /\ others' = others /\ rules' = rules /\ profiles' = profiles
  BY DEF vars
<1>2. /\ Old' = Old /\ OneLess' = OneLess /\ TwoLess' = TwoLess /\ SetSoFar' = SetSoFar
      /\ Removes' = Removes /\ Fun' = Fun /\ Named(act.name)' = Named(act.name)
  BY <1>1 DEF OneLess, TwoLess, Left, SetSoFar, Old, OldNamed, Removes, Fun, Named
<1>3. InPlaceSoFar' = InPlaceSoFar
  BY <1>1 DEF InPlaceSoFar, Old, OldNamed, Updated, Asks
<1> QED
  BY <1>1, <1>2, <1>3 DEF PolicyHeld, Done

LEMMA RulesStutter == ASSUME RulesHeld, UNCHANGED vars PROVE RulesHeld'
BY DEF vars, RulesHeld, RulesReleased, Calling, Removing, Running, Runs, Fun

LEMMA RulesInvariance == Spec => []RulesHeld
<1>1. RulesHeld /\ [Next]_vars => RulesHeld'
  BY RulesNext, RulesStutter
<1> QED
  BY <1>1, RulesInit, PTL DEF Spec

\* What has become of the policy is, at every step of a call, what the code has
\* done so far.  (firewall_controller_windows.cpp:245-409, :659-688)
THEOREM Invariance ==
  ASSUME PoliciesFit
  PROVE  Spec => []PolicyHeld
<1>1. RulesHeld /\ PolicyHeld /\ [Next]_vars => PolicyHeld'
  BY PolicyNext, PolicyStutters
<1> QED
  BY <1>1, RulesInvariance, PolicyInit, PTL DEF Spec

\* What a call that nobody disturbs may do to the policy: an update changes one
\* rule of the name in place, or takes at most two away and adds the new one,
\* a removal takes away two or all there are, a failure leaves one of the
\* states on the way.  (firewall_controller_windows.cpp:245-409, :659-688)
THEOREM PolicyKeptAlways ==
  ASSUME PoliciesFit
  PROVE  Spec => PolicyKept
<1>1. RulesHeld /\ PolicyHeld /\ [Next]_vars => [PolicyStep]_vars
  BY PolicyNext
<1> QED
  BY <1>1, RulesInvariance, Invariance, PTL DEF Spec, PolicyKept

-----------------------------------------------------------------------------
(* The rules that are there have a name and a program.                      *)

TypesHeld ==
  /\ TypeOK /\ act.k \in Nat \ {0}
  /\ act.at # "idle" /\ act.op \in {"addRule", "updateRule"} => act.rule \in Requests
  /\ act.at \notin {"idle", "validate"} /\ act.op = "updateRule" => ~Invalid(act.rule)

LEMMA TypesInit == ASSUME RulesFit PROVE Init => TypesHeld
BY DEF Init, NoAct, TypesHeld, TypeOK, RulesFit

LEMMA EmptyStack == ASSUME RulesHeld' PROVE (act.at = "idle" <=> act.stack = <<>>)'
<1>1. ASSUME NEW f, NEW g, NEW h PROVE <<f>> # <<>> /\ <<f, g>> # <<>> /\ <<f, g, h>> # <<>>
  OBVIOUS
<1>2. /\ <<act'.op>> # <<>> /\ <<"removeRule">> # <<>> /\ <<"removeRule", "ruleExists">> # <<>>
      /\ <<"updateRule">> # <<>> /\ <<"addRule">> # <<>> /\ <<"updateRule", "removeRule">> # <<>>
      /\ <<"updateRule", "removeRule", "ruleExists">> # <<>>
  BY <1>1
<1> QED
  BY <1>2 DEF RulesHeld, Calling, Removing

\* A step of a call that writes no rule.
LEMMA TypesGoOn ==
  ASSUME RulesHeld', TypesHeld, act.at # "idle", UNCHANGED <<rules, profiles, others>>,
         act'.told \subseteq ToSet(Profiles), act'.k \in {act.k, act.k + 1, 1},
         \/ act'.at = "idle"
         \/ act'.op = act.op /\ act.op \notin {"addRule", "updateRule"}
         \/ act'.op = act.op /\ act'.rule = act.rule /\ (act.at = "validate" => ~Invalid(act.rule))
  PROVE  TypesHeld'
<1>1. (act.at = "idle" <=> act.stack = <<>>)'
  BY EmptyStack
<1>2. TypeOK'
  BY <1>1 DEF TypesHeld, TypeOK, Complete
<1> QED
  BY <1>2 DEF TypesHeld, Invalid

\* One that writes the rules.
LEMMA TypesWrite ==
  ASSUME RulesHeld', TypesHeld, act.at \notin {"idle", "validate"}, UNCHANGED <<profiles, others>>,
         act'.told = act.told, act'.k \in {act.k, act.k + 1},
         DOMAIN rules' \subseteq 1..(MaxRules + 1), \A i \in DOMAIN rules' : Complete(rules'[i]),
         act'.at = "idle" \/ (act'.op = act.op /\ act'.rule = act.rule)
  PROVE  TypesHeld'
<1>1. (act.at = "idle" <=> act.stack = <<>>)'
  BY EmptyStack
<1>2. TypeOK'
  BY <1>1 DEF TypesHeld, TypeOK, Complete
<1> QED
  BY <1>2 DEF TypesHeld, Invalid

LEMMA TypesOver ==
  ASSUME RulesHeld, RulesHeld', TypesHeld, act.at # "idle", NEW said, Goto(Over(said))
  PROVE  TypesHeld'
<1>1. act'.at = "idle" /\ act'.k = act.k /\ act'.told = act.told /\ UNCHANGED <<rules, profiles, others>>
  BY DEF Goto, Over, NoAct
<1> QED
  BY <1>1, TypesGoOn DEF TypesHeld, TypeOK

LEMMA TypesThrow ==
  ASSUME RulesHeld, RulesHeld', TypesHeld, act.at # "idle", checkHResult \/ \E code : Throw(code)
  PROVE  TypesHeld'
BY TypesOver DEF checkHResult, Throw

\* The call goes on, with the rule it was given.
LEMMA TypesStay ==
  ASSUME RulesHeld, RulesHeld', TypesHeld, act.at # "idle", act.at = "validate" => ~Invalid(act.rule),
         NEW a, Goto(a), a.op = act.op, a.told = act.told, a.rule = act.rule, a.k \in {act.k, act.k + 1}
  PROVE  TypesHeld'
BY TypesGoOn DEF Goto, TypesHeld, TypeOK

LEMMA TypesBack ==
  ASSUME RulesHeld, RulesHeld', TypesHeld, act.at \notin {"idle", "validate"},
         NEW a, DOMAIN a = ActFields, a.op = act.op, a.told = act.told, a.rule = act.rule, a.k \in {act.k, act.k + 1},
         NEW said, act' = Back(a, said), UNCHANGED <<rules, profiles, others>>
  PROVE  TypesHeld'
<1>1. CASE Len(act.stack) = 1
  <2>1. act'.at = "idle" /\ act'.k = act.k /\ act'.told = act.told
    BY <1>1 DEF Back, Over, NoAct
  <2> QED
    BY <2>1, TypesGoOn DEF TypesHeld, TypeOK
<1>2. CASE Len(act.stack) # 1
  <2>1. act'.op = act.op /\ act'.told = act.told /\ act'.rule = act.rule /\ act'.k = a.k
    BY <1>2 DEF Back, ActFields
  <2> QED
    BY <2>1, TypesGoOn DEF TypesHeld, TypeOK
<1> QED
  BY <1>1, <1>2

LEMMA FieldNames ==
  {"name", "applicationPath", "localPorts", "action", "enabled", "remoteAddresses"} = ToSet(Fields)
<1>1. DOMAIN Fields = 1..6 /\ \A j \in 1..6 : j = 1 \/ j = 2 \/ j = 3 \/ j = 4 \/ j = 5 \/ j = 6
  BY FieldsAre
<1>2. /\ Fields[1] = "name" /\ Fields[2] = "applicationPath" /\ Fields[3] = "localPorts"
      /\ Fields[4] = "action" /\ Fields[5] = "enabled" /\ Fields[6] = "remoteAddresses"
  BY DEF Fields
<1>3. ToSet(Fields) = {Fields[1], Fields[2], Fields[3], Fields[4], Fields[5], Fields[6]}
  BY <1>1 DEF ToSet
<1> QED
  BY <1>2, <1>3

\* Rules that go leave the others as they were.
LEMMA CompleteWithout ==
  ASSUME TypesHeld, NEW i \in DOMAIN rules, rules' = Without(i)
  PROVE  DOMAIN rules' \subseteq 1..(MaxRules + 1) /\ \A j \in DOMAIN rules' : Complete(rules'[j])
BY DEF TypesHeld, TypeOK, Without

LEMMA CompleteAnd ==
  ASSUME TypesHeld, NEW i \in Fresh, NEW r, Complete(r), rules' = And(i, r)
  PROVE  DOMAIN rules' \subseteq 1..(MaxRules + 1) /\ \A j \in DOMAIN rules' : Complete(rules'[j])
BY DEF TypesHeld, TypeOK, And, Fresh

LEMMA CompleteWith ==
  ASSUME TypesHeld, NEW i \in DOMAIN rules, NEW f \in ToSet(Fields), NEW value,
         f \in {"name", "applicationPath"} => value # None,
         f = "localPorts" => value # Malformed,
         f = "enabled" => value \in {"yes", "no"},
         rules' = With(i, f, value)
  PROVE  DOMAIN rules' \subseteq 1..(MaxRules + 1) /\ \A j \in DOMAIN rules' : Complete(rules'[j])
<1>1. Complete(rules[i])
  BY DEF TypesHeld, TypeOK
<1> DEFINE new == [rules[i] EXCEPT ![f] = value]
<1>2. Complete(new)
  <2>1. /\ DOMAIN new = ToSet(Fields)
        /\ \A g \in ToSet(Fields) : new[g] = IF g = f THEN value ELSE rules[i][g]
    BY <1>1 DEF Complete
  <2>2. {"name", "applicationPath", "localPorts", "enabled"} \subseteq ToSet(Fields)
    BY FieldNames
  <2> HIDE DEF new
  <2> QED
    BY <1>1, <2>1, <2>2 DEF Complete
<1>3. DOMAIN rules' = DOMAIN rules /\ \A j \in DOMAIN rules : rules'[j] = IF j = i THEN new ELSE rules[j]
  BY DEF With
<1> HIDE DEF new
<1> QED
  BY <1>2, <1>3 DEF TypesHeld, TypeOK

\* A call begins, what it said is forgotten, or others write.
LEMMA TypesCall ==
  ASSUME RulesFit, RulesHeld', TypesHeld, Call \/ Forget \/ OthersWrite
  PROVE  TypesHeld'
<1>0. (act.at = "idle" <=> act.stack = <<>>)'
  BY EmptyStack
<1>1. ASSUME NEW op, NEW name, NEW r, NEW want, NEW at \in {"policy", "validate"},
             op = "addRule" => at = "policy" /\ r \in Requests,
             op = "updateRule" => at = "validate" /\ r \in Requests,
             Begin(op, name, r, want, at)
      PROVE  TypesHeld'
  <2>1. /\ act'.at = at /\ act'.op = op /\ act'.rule = r /\ act'.told = {} /\ act'.k = 1 /\ others' = 0
        /\ profiles' \subseteq ToSet(Profiles) /\ rules' \in Policies \cup {<<>>}
    BY <1>1 DEF Begin, NoAct
  <2>2. DOMAIN rules' \subseteq 1..(MaxRules + 1) /\ \A i \in DOMAIN rules' : Complete(rules'[i])
    BY <2>1 DEF RulesFit
  <2> QED
    BY <1>0, <1>1, <2>1, <2>2 DEF TypesHeld, TypeOK, RulesFit
<1>2. CASE Call
  BY <1>1, <1>2 DEF Call
<1>3. CASE Forget
  <2>1. act'.at = "idle" /\ act'.k = 1 /\ act'.told = {} /\ others' = 0 /\ profiles' = {} /\ rules' = <<>>
    BY <1>3 DEF Forget, NoAct
  <2> QED
    BY <1>0, <2>1 DEF TypesHeld, TypeOK, RulesFit
<1>4. CASE OthersWrite
  <2>1. others' \in 0..MaxOthers /\ profiles' \subseteq ToSet(Profiles) /\ act' = act
    BY <1>4 DEF OthersWrite, TypesHeld, TypeOK, RulesFit
  <2>2. ASSUME NEW i \in DOMAIN rules, NEW r \in Stored, NEW f \in ToSet(Fields), rules' = With(i, f, r[f])
        PROVE  DOMAIN rules' \subseteq 1..(MaxRules + 1) /\ \A j \in DOMAIN rules' : Complete(rules'[j])
    BY <2>2, CompleteWith DEF RulesFit, Complete
  <2>3. DOMAIN rules' \subseteq 1..(MaxRules + 1) /\ \A j \in DOMAIN rules' : Complete(rules'[j])
    BY <1>4, <2>2, CompleteWithout, CompleteAnd DEF OthersWrite, RulesFit, TypesHeld, TypeOK
  <2> QED
    BY <1>0, <2>1, <2>3 DEF TypesHeld, TypeOK
<1> QED
  BY <1>2, <1>3, <1>4

LEMMA TypesPolicy ==
  ASSUME RulesHeld, RulesHeld', TypesHeld, ComInitializer \/ FirewallPolicyHelper
  PROVE  TypesHeld'
<1>1. act.at = "policy"
  BY DEF ComInitializer, FirewallPolicyHelper, At
<1>2. CASE Goto([act EXCEPT !.at = FirstStep[Fun], !.todo = DOMAIN rules])
  BY <1>1, <1>2, TypesStay DEF RulesHeld, ActFields
<1> QED
  BY <1>1, <1>2, TypesThrow DEF ComInitializer, FirewallPolicyHelper

LEMMA TypesAdd ==
  ASSUME RulesFit, RulesHeld, RulesHeld', TypesHeld, addRule
  PROVE  TypesHeld'
<1>1. act.at = "add" /\ Fun = "addRule"
  BY DEF addRule, At, RulesHeld, Running, Runs
<1>2. CASE checkHResult \/ \E code : Throw(code)
  BY <1>1, <1>2, TypesThrow
<1>3. ASSUME ~Invalid(act.rule), act.rule.localPorts # Malformed, NEW i \in Fresh,
             Write(And(i, createNetFwRule(act.rule)), [Over("ok") EXCEPT !.id = i])
      PROVE  TypesHeld'
  <2>1. act.rule \in Requests
    BY <1>1, WhoIsCalled DEF TypesHeld
  <2>2. DOMAIN act.rule = ToSet(Fields) /\ act.rule.enabled \in {"yes", "no"}
    BY <2>1 DEF RulesFit
  <2>3. Complete(createNetFwRule(act.rule))
    BY <1>3, <2>2, FieldNames DEF createNetFwRule, Complete, Invalid, Optional, Malformed, None
  <2>4. /\ act'.at = "idle" /\ act'.k = act.k /\ act'.told = act.told /\ UNCHANGED <<profiles, others>>
        /\ rules' = And(i, createNetFwRule(act.rule))
    BY <1>3 DEF Write, Over, NoAct
  <2>5. DOMAIN rules' \subseteq 1..(MaxRules + 1) /\ \A j \in DOMAIN rules' : Complete(rules'[j])
    BY <2>3, <2>4, CompleteAnd
  <2> QED
    BY <1>1, <2>4, <2>5, TypesWrite
<1> QED
  BY <1>2, <1>3 DEF addRule

LEMMA TypesUpdate ==
  ASSUME RulesHeld, RulesHeld', TypesHeld, updateRule
  PROVE  TypesHeld'
<1>1. CASE act.at \in {"validate", "item"} /\ Throw("InvalidArgument")
  BY <1>1, TypesThrow
<1>2. CASE act.at = "validate" /\ ~Invalid(act.rule) /\ Goto([act EXCEPT !.at = "policy"])
  BY <1>2, TypesStay DEF RulesHeld, ActFields
<1>3. CASE act.at = "item" /\ \E i : Goto([act EXCEPT !.at = "put", !.id = i])
  BY <1>3, TypesStay DEF RulesHeld, ActFields
<1>4. CASE act.at \in {"item", "back"} /\ \E s : Goto([act EXCEPT !.stack = s, !.at = "policy"])
  BY <1>4, TypesStay DEF RulesHeld, ActFields
<1> QED
  BY <1>1, <1>2, <1>3, <1>4 DEF updateRule, At

LEMMA TypesPut ==
  ASSUME RulesFit, RulesHeld, RulesHeld', TypesHeld, putRule
  PROVE  TypesHeld'
<1>1. act.at = "put" /\ Fun = "updateRule" /\ act.op = "updateRule"
  BY WhoRuns DEF putRule, At, RulesHeld, Running, Runs
<1>2. CASE Goto(Over("ok")) \/ checkHResult
  BY <1>1, <1>2, TypesOver, TypesThrow
<1>3. CASE Goto([act EXCEPT !.k = @ + 1])
  BY <1>1, <1>3, TypesStay DEF RulesHeld, ActFields
<1>4. ASSUME act.k <= Len(Fields), act.id \in DOMAIN rules, act.rule[Fields[act.k]] # Malformed,
             Write(With(act.id, Fields[act.k], act.rule[Fields[act.k]]), [act EXCEPT !.k = @ + 1])
      PROVE  TypesHeld'
  <2> DEFINE f == Fields[act.k]
  <2>1. /\ act'.op = act.op /\ act'.told = act.told /\ act'.rule = act.rule /\ act'.k = act.k + 1
        /\ UNCHANGED <<profiles, others>> /\ rules' = With(act.id, f, act.rule[f])
    BY <1>4 DEF Write, RulesHeld, ActFields
  <2>2. /\ act.rule.enabled \in {"yes", "no"}
        /\ None \notin {act.rule.name, act.rule.applicationPath}
    BY <1>1 DEF TypesHeld, RulesFit, Invalid
  <2>3. f \in ToSet(Fields)
    BY FieldsAre, <1>4 DEF TypesHeld
  <2> HIDE DEF f
  <2>4. DOMAIN rules' \subseteq 1..(MaxRules + 1) /\ \A j \in DOMAIN rules' : Complete(rules'[j])
    BY <1>4, <2>1, <2>2, <2>3, CompleteWith DEF f
  <2> QED
    BY <1>1, <2>1, <2>4, TypesWrite
<1> QED
  BY <1>2, <1>3, <1>4 DEF putRule

LEMMA TypesRemove ==
  ASSUME RulesHeld, RulesHeld', TypesHeld, removeRule
  PROVE  TypesHeld'
<1>1. CASE checkHResult /\ act.at \in {"remove", "back"}
  BY <1>1, TypesThrow
<1>2. CASE act.at = "remove" /\ Goto([act EXCEPT !.stack = Append(@, "ruleExists"), !.at = "policy"])
  BY <1>2, TypesStay DEF RulesHeld, ActFields
<1>3. ASSUME act.at = "remove", NEW i \in Named(act.name),
             Write(Without(i), [act EXCEPT !.stack = Append(@, "ruleExists"), !.at = "policy"])
      PROVE  TypesHeld'
  <2>1. /\ act'.op = act.op /\ act'.told = act.told /\ act'.rule = act.rule /\ act'.k = act.k
        /\ UNCHANGED <<profiles, others>> /\ rules' = Without(i) /\ i \in DOMAIN rules
    BY <1>3 DEF Write, RulesHeld, ActFields, Named
  <2> QED
    BY <1>3, <2>1, CompleteWithout, TypesWrite
<1>4. CASE act.at = "back" /\ Goto(Back(act, "ok"))
  BY <1>4, TypesBack DEF Goto, RulesHeld
<1>5. CASE act.at = "back" /\ Goto([act EXCEPT !.at = "search", !.todo = DOMAIN rules])
  BY <1>5, TypesStay DEF RulesHeld, ActFields
<1> QED
  BY <1>1, <1>2, <1>3, <1>4, <1>5 DEF removeRule, At

LEMMA TypesFound ==
  ASSUME RulesHeld, RulesHeld', TypesHeld, removeFound
  PROVE  TypesHeld'
<1>1. act.at = "search"
  BY DEF removeFound, At
<1>2. CASE \E code : Throw(code)
  BY <1>1, <1>2, TypesThrow
<1>3. ASSUME NEW i, Goto([act EXCEPT !.todo = @ \ {i}]) PROVE TypesHeld'
  BY <1>1, <1>3, TypesStay DEF RulesHeld, ActFields
<1>4. ASSUME NEW n, NEW j \in Named(act.name), Write(Without(j), Back([act EXCEPT !.refs = @ + n], "ok"))
      PROVE  TypesHeld'
  <2> DEFINE a == [act EXCEPT !.refs = @ + n]
  <2>1. act'.op = act.op /\ act'.told = act.told /\ act'.k = act.k /\ (act'.at = "idle" \/ act'.rule = act.rule)
    <3>1. DOMAIN a = ActFields /\ a.op = act.op /\ a.told = act.told /\ a.k = act.k /\ a.rule = act.rule
      BY DEF RulesHeld, ActFields
    <3>2. act' = Back(a, "ok")
      BY <1>4 DEF Write
    <3> HIDE DEF a
    <3>3. CASE Len(act.stack) = 1
      BY <3>2, <3>3 DEF Back, Over, NoAct
    <3>4. CASE Len(act.stack) # 1
      BY <3>1, <3>2, <3>4 DEF Back, ActFields
    <3> QED
      BY <3>3, <3>4
  <2>2. UNCHANGED <<profiles, others>> /\ rules' = Without(j) /\ j \in DOMAIN rules
    BY <1>4 DEF Write, Named
  <2> QED
    BY <1>1, <2>1, <2>2, CompleteWithout, TypesWrite
<1>5. ASSUME NEW code, NEW n, Goto([Over(code) EXCEPT !.refs = n]) PROVE TypesHeld'
  <2>1. act'.at = "idle" /\ act'.k = act.k /\ act'.told = act.told /\ UNCHANGED <<rules, profiles, others>>
    BY <1>5 DEF Goto, Over, NoAct
  <2> QED
    BY <1>1, <2>1, TypesGoOn DEF TypesHeld, TypeOK
<1> QED
  BY <1>2, <1>3, <1>4, <1>5 DEF removeFound

LEMMA TypesExists ==
  ASSUME RulesHeld, RulesHeld', TypesHeld, ruleExists
  PROVE  TypesHeld'
<1>1. act.at \in {"item", "look"}
  BY DEF ruleExists, At
<1>2. CASE checkHResult
  BY <1>1, <1>2, TypesThrow
<1>3. ASSUME NEW a, DOMAIN a = ActFields, a.op = act.op, a.told = act.told, a.rule = act.rule, a.k = act.k,
             NEW said, Goto(Back(a, said))
      PROVE  TypesHeld'
  BY <1>1, <1>3, TypesBack DEF Goto
<1>4. CASE \E said : Goto(Back(act, said))
  BY <1>3, <1>4 DEF RulesHeld
<1>5. CASE \E n, said : Goto(Back([act EXCEPT !.refs = @ + n], said))
  BY <1>3, <1>5 DEF RulesHeld, ActFields
<1>6. CASE \E S : Goto([act EXCEPT !.at = "look", !.todo = S]) \/ Goto([act EXCEPT !.todo = S])
  BY <1>1, <1>6, TypesStay DEF RulesHeld, ActFields
<1> QED
  BY <1>2, <1>4, <1>5, <1>6 DEF ruleExists

LEMMA TypesRead ==
  ASSUME RulesHeld, RulesHeld', TypesHeld, getRules \/ getRule \/ convertFwRule2Rule
  PROVE  TypesHeld'
<1>1. act.at \in {"enum", "convert"} /\ act.op \in {"getRules", "getRule"}
  BY WhoIsCalled DEF getRules, getRule, convertFwRule2Rule, At, RulesHeld, Running, Runs
<1>2. CASE Goto(Over("ok"))
  BY <1>1, <1>2, TypesOver
<1>3. ASSUME NEW a, Goto(a), a.op = act.op, a.told = act.told, a.k \in {act.k, act.k + 1, 1} PROVE TypesHeld'
  BY <1>1, <1>3, TypesGoOn DEF Goto, TypesHeld, TypeOK
<1>4. ASSUME NEW i, Converted(i) PROVE TypesHeld'
  BY <1>3, <1>4 DEF Converted, RulesHeld, ActFields
<1>5. CASE \E S : Goto([act EXCEPT !.todo = S])
  BY <1>3, <1>5 DEF RulesHeld, ActFields
<1>6. CASE convertFwRule2Rule
  <2>1. CASE Goto([act EXCEPT !.at = "enum", !.out = Append(@, act.rule)])
    BY <1>3, <2>1 DEF RulesHeld, ActFields
  <2>2. CASE \E r : Goto([act EXCEPT !.k = @ + 1, !.rule = r])
    BY <1>3, <2>2 DEF RulesHeld, ActFields
  <2> QED
    BY <1>6, <2>1, <2>2 DEF convertFwRule2Rule
<1> QED
  BY <1>2, <1>4, <1>5, <1>6 DEF getRules, getRule

LEMMA TypesStatus ==
  ASSUME RulesHeld, RulesHeld', TypesHeld, getStatus \/ setStatus
  PROVE  TypesHeld'
<1>1. act.at = "profile" /\ act.op \in {"getStatus", "setStatus"}
  BY WhoIsCalled DEF getStatus, setStatus, At, RulesHeld, Running, Runs
<1>2. CASE Goto(Over("ok")) \/ checkHResult
  BY <1>1, <1>2, TypesOver, TypesThrow
<1>3. CASE Goto([act EXCEPT !.k = @ + 1])
  BY <1>1, <1>3, TypesStay DEF RulesHeld, ActFields
<1>4. CASE /\ Profiles[act.k] \in profiles
           /\ Goto([act EXCEPT !.k = @ + 1, !.told = @ \cup {Profiles[act.k]}])
  <2>1. /\ act'.op = act.op /\ act'.k = act.k + 1 /\ act'.told = act.told \cup {Profiles[act.k]}
        /\ UNCHANGED <<rules, profiles, others>>
    BY <1>4 DEF Goto, RulesHeld, ActFields
  <2> QED
    BY <1>1, <1>4, <2>1, TypesGoOn DEF TypesHeld, TypeOK
<1>5. CASE /\ ~(act.k > Len(Profiles))
           /\ profiles' \in {profiles \cup {Profiles[act.k]}, profiles \ {Profiles[act.k]}}
           /\ act' = [act EXCEPT !.k = @ + 1] /\ UNCHANGED <<rules, others>>
  <2>1. act'.op = act.op /\ act'.k = act.k + 1 /\ act'.told = act.told
    BY <1>5 DEF RulesHeld, ActFields
  <2>2. Profiles[act.k] \in ToSet(Profiles)
    BY <1>5, ProfilesAre DEF TypesHeld, ToSet
  <2>3. (act.at = "idle" <=> act.stack = <<>>)'
    BY EmptyStack
  <2> QED
    BY <1>1, <1>5, <2>1, <2>2, <2>3 DEF TypesHeld, TypeOK
<1> QED
  BY <1>2, <1>3, <1>4, <1>5 DEF getStatus, setStatus

LEMMA TypesNext ==
  ASSUME RulesFit, RulesHeld, TypesHeld, Next
  PROVE  TypesHeld'
<1>1. RulesHeld'
  BY RulesNext
<1> QED
  BY <1>1, TypesCall, TypesPolicy, TypesAdd, TypesUpdate, TypesPut, TypesRemove, TypesFound, TypesExists,
     TypesRead, TypesStatus
     DEF Next, Step

-----------------------------------------------------------------------------
(* What a call that reads has seen so far.  While nobody else writes, the   *)
(* rules it has been through are those it has told: each once, or, for a    *)
(* name, each of that name.                                                 *)

Reading == {"ruleExists", "getRule", "getRules"}
Listing == {"getRule", "getRules"}
Wanted == IF act.op = "getRule" THEN OldNamed ELSE DOMAIN Old
Tells(out, S) ==
  /\ out \in Seq({Old[i] : i \in DOMAIN Old})
  /\ Len(out) = Cardinality(S \cap Wanted) /\ ToSet(out) = {Old[i] : i \in S \cap Wanted}
TellsOf(S) == Tells(act.out, S)

\* the properties of a rule that have been read
ReadSoFar == [f \in ToSet(Fields) |-> IF \E j \in 1..(act.k - 1) : Fields[j] = f THEN Old[act.id][f] ELSE Blank[f]]

Seen ==
  /\ rules = Old /\ Old \in Seq([ToSet(Fields) -> STRING])
  /\ act.op = "ruleExists" /\ act.at = "look" => Named(act.name) \subseteq act.todo
  /\ act.op \in Listing /\ act.at = "policy" => act.out = <<>>
  /\ act.op \in Listing /\ act.at = "enum" =>
       act.todo \subseteq DOMAIN Old /\ TellsOf(DOMAIN Old \ act.todo)
  /\ act.op \in Listing /\ act.at = "convert" =>
       /\ act.todo \subseteq DOMAIN Old /\ act.id \in Wanted \ act.todo
       /\ TellsOf(DOMAIN Old \ (act.todo \cup {act.id}))
       /\ act.k \in 1..7 /\ act.rule = ReadSoFar

ReadHeld ==
  /\ act.at # "idle" /\ act.op \in Reading /\ others = 0 => Seen
  /\ act.at # "idle" /\ act.op = "getStatus" => act.told \cup profiles \subseteq before.on

\* The call under way, when nobody else has written.
Looking == RulesHeld /\ Seen /\ act.at # "idle" /\ act.op \in Reading /\ others = 0
ReadOn == (act'.at # "idle" => Seen') /\ ReadStep

LEMMA WhoReads == ASSUME RulesHeld, act.at # "idle", act.op \in Alone PROVE Fun = act.op
BY WhoIsCalled DEF Alone

LEMMA ReadFail ==
  ASSUME Looking, act'.at = "idle", act'.said \notin {"ok", "true", "false"}
  PROVE  ReadOn
BY DEF Looking, ReadOn, ReadStep, Ended, StatusTold, Reading

LEMMA ReadThrow ==
  ASSUME Looking, checkHResult \/ \E code : code \notin {"ok", "true", "false"} /\ Throw(code)
  PROVE  ReadOn
<1>1. ASSUME NEW code, code \notin {"ok", "true", "false"}, Throw(code) PROVE ReadOn
  <2>1. act'.at = "idle" /\ act'.said \notin {"ok", "true", "false"}
    BY <1>1 DEF Throw, Goto, Over, NoAct
  <2> QED
    BY <2>1, ReadFail
<1> QED
  BY <1>1 DEF checkHResult

\* The next place of a call that goes on.
SameReading ==
  act'.op = act.op /\ act'.name = act.name /\ act'.at # "idle" /\ UNCHANGED <<rules, before, others>>

LEMMA SameOld ==
  ASSUME SameReading
  PROVE  Old' = Old /\ OldNamed' = OldNamed /\ Named(act.name)' = Named(act.name) /\ Wanted' = Wanted
BY DEF SameReading, Old, OldNamed, Named, Wanted

\* Nothing told is taken back by a step that writes no rule.
LEMMA SameTold ==
  ASSUME SameReading, NEW S, NEW out, Tells(out, S), act'.out = out
  PROVE  /\ (DOMAIN Old \ act.todo)' = S => TellsOf(DOMAIN Old \ act.todo)'
         /\ (DOMAIN Old \ (act.todo \cup {act.id}))' = S => TellsOf(DOMAIN Old \ (act.todo \cup {act.id}))'
<1>1. Old' = Old /\ Wanted' = Wanted
  BY SameOld
<1>2. ASSUME (DOMAIN Old \ act.todo)' = S PROVE TellsOf(DOMAIN Old \ act.todo)'
  BY <1>1, <1>2, Zenon DEF TellsOf, Tells
<1>3. ASSUME (DOMAIN Old \ (act.todo \cup {act.id}))' = S
      PROVE  TellsOf(DOMAIN Old \ (act.todo \cup {act.id}))'
  BY <1>1, <1>3, Zenon DEF TellsOf, Tells
<1> QED
  BY <1>2, <1>3

LEMMA ReadGo ==
  ASSUME Looking, SameReading, Seen'
  PROVE  ReadOn
BY DEF Looking, SameReading, ReadOn, ReadStep, Ended, StatusTold

LEMMA ReadPolicy == ASSUME Looking, ComInitializer \/ FirewallPolicyHelper PROVE ReadOn
<1>1. act.at = "policy" /\ Fun = act.op
  BY WhoReads DEF ComInitializer, FirewallPolicyHelper, At, Looking, Reading, Alone
<1> DEFINE next == [act EXCEPT !.at = FirstStep[Fun], !.todo = DOMAIN rules]
<1>2. CASE Goto(next)
  <2>1. /\ SameReading /\ act'.at = IF act.op = "ruleExists" THEN "item" ELSE "enum"
        /\ act'.todo = DOMAIN rules /\ act'.out = act.out
    BY <1>1, <1>2 DEF Goto, Looking, RulesHeld, ActFields, Reading, FirstStep, SameReading
  <2>2. act.op \in Listing => TellsOf({})'
    <3>1. act.op \in Listing => act'.out = <<>>
      BY <1>1, <2>1 DEF Looking, Seen
    <3>2. /\ <<>> \in Seq({Old[i] : i \in DOMAIN Old}) /\ Len(<<>>) = 0 /\ ToSet(<<>>) = {}
          /\ Cardinality({}) = 0
      BY FS_EmptySet, EmptySeq DEF ToSet
    <3> QED
      BY <2>1, <3>1, <3>2, SameOld DEF TellsOf, Tells
  <2>3. act.op \in Listing => TellsOf(DOMAIN Old \ act.todo)'
    <3>1. DOMAIN Old' \ act'.todo = {}
      BY <2>1, SameOld DEF Looking, Seen
    <3> QED
      BY <2>2, <3>1 DEF TellsOf, Tells
  <2>4. Seen'
    BY <2>1, <2>3, SameOld DEF Seen, Looking, Listing, SameReading
  <2> QED
    BY <2>1, <2>4, ReadGo
<1>3. CASE checkHResult
  BY <1>3, ReadThrow
<1>4. CASE Throw("ComInitError") \/ Throw("FireWallInitError")
  BY <1>4, ReadThrow
<1>5. ComInitializer \/ FirewallPolicyHelper
      => Throw("ComInitError") \/ Throw("FireWallInitError") \/ checkHResult \/ Goto(next)
  BY Zenon DEF ComInitializer, FirewallPolicyHelper
<1> QED
  BY <1>2, <1>3, <1>4, <1>5

LEMMA ReadExists == ASSUME Looking, ruleExists PROVE ReadOn
<1>1. act.at \in {"item", "look"} /\ act.op = "ruleExists" /\ Len(act.stack) = 1 /\ rules = Old
  BY WhoRuns, WhoReads, CallStacks DEF ruleExists, At, Looking, RulesHeld, Running, Runs, Seen, Reading, Listing, Alone
<1>2. ASSUME NEW a, NEW said, Goto(Back(a, said)),
             (said = "true" /\ OldNamed # {}) \/ (said = "false" /\ OldNamed = {})
      PROVE  ReadOn
  <2>1. act'.at = "idle" /\ act'.said = said
    BY <1>1, <1>2 DEF Goto, Back, Over, NoAct
  <2> QED
    BY <1>1, <1>2, <2>1 DEF ReadOn, ReadStep, Ended, StatusTold
<1>3. Named(act.name) = OldNamed
  BY <1>1 DEF Named, OldNamed
<1>4. CASE checkHResult
  BY <1>4, ReadThrow
<1>5. CASE Named(act.name) # {} /\ \E a : Goto(Back(a, "true"))
  BY <1>2, <1>3, <1>5
<1>6. CASE act.at = "look" /\ act.todo = {} /\ Goto(Back(act, "false"))
  BY <1>2, <1>3, <1>6, <1>1 DEF Looking, Seen
<1>7. ASSUME NEW S, Named(act.name) \subseteq S, Goto([act EXCEPT !.at = "look", !.todo = S]) PROVE ReadOn
  <2>1. SameReading /\ act'.at = "look" /\ act'.todo = S
    BY <1>7 DEF Goto, Looking, RulesHeld, ActFields, SameReading
  <2>2. Seen'
    BY <1>1, <1>7, <2>1, SameOld DEF Seen, Looking, SameReading, Listing
  <2> QED
    BY <2>1, <2>2, ReadGo
<1>8. ASSUME act.at = "look", NEW i \in act.todo, i \notin Named(act.name), Goto([act EXCEPT !.todo = @ \ {i}])
      PROVE  ReadOn
  <2>1. SameReading /\ act'.at = "look" /\ act'.todo = act.todo \ {i}
    BY <1>8 DEF Goto, Looking, RulesHeld, ActFields, SameReading
  <2>2. Named(act.name) \subseteq act.todo
    BY <1>1, <1>8 DEF Looking, Seen
  <2>3. Seen'
    BY <1>1, <1>8, <2>1, <2>2, SameOld DEF Seen, Looking, SameReading, Listing
  <2> QED
    BY <2>1, <2>3, ReadGo
<1>9. Named(act.name) \subseteq DOMAIN rules
  BY DEF Named
<1> QED
  BY <1>4, <1>5, <1>6, <1>7, <1>8, <1>9 DEF ruleExists, At

\* The rules that a list of them is longer by.
LEMMA OneMoreTold ==
  ASSUME Seen, NEW S \in SUBSET DOMAIN Old, NEW s, Tells(s, S), NEW i \in DOMAIN Old \ S, i \in Wanted
  PROVE  Tells(Append(s, Old[i]), S \cup {i})
<1> DEFINE R == {Old[j] : j \in DOMAIN Old}
           r == Old[i]
           T == S \cap Wanted
<1>1. r \in R /\ s \in Seq(R)
  BY DEF Tells
<1>2. /\ Append(s, r) \in Seq(R) /\ Len(Append(s, r)) = Len(s) + 1
      /\ ToSet(Append(s, r)) = ToSet(s) \cup {r}
  <2> HIDE DEF R, r
  <2>1. /\ Append(s, r) \in Seq(R) /\ Len(Append(s, r)) = Len(s) + 1 /\ Append(s, r)[Len(s) + 1] = r
        /\ \A j \in 1..Len(s) : Append(s, r)[j] = s[j]
    BY <1>1, AppendProperties
  <2>2. Len(s) \in Nat /\ DOMAIN s = 1..Len(s) /\ DOMAIN Append(s, r) = 1..(Len(s) + 1)
    BY <1>1, <2>1
  <2>3. 1..(Len(s) + 1) = (1..Len(s)) \cup {Len(s) + 1}
    BY <2>2
  <2> DEFINE t == Append(s, r)
             n == Len(s)
  <2>4. {t[j] : j \in 1..(n + 1)} = {s[j] : j \in 1..n} \cup {r}
    <3> HIDE DEF t, n
    <3> QED
      BY <2>1, <2>2, <2>3 DEF t, n
  <2> QED
    BY <2>1, <2>2, <2>4 DEF ToSet
<1>3. IsFiniteSet(T) /\ i \notin T
  <2>1. DOMAIN Old = 1..Len(Old) /\ Len(Old) \in Nat
    BY DEF Seen
  <2>2. IsFiniteSet(1..Len(Old))
    BY <2>1, FS_Interval
  <2> QED
    BY <2>1, <2>2, FS_Subset
<1>4. Cardinality(T \cup {i}) = Cardinality(T) + 1
  BY <1>3, FS_AddElement
<1>5. (S \cup {i}) \cap Wanted = T \cup {i}
  OBVIOUS
<1>6. {Old[j] : j \in T \cup {i}} = {Old[j] : j \in T} \cup {r}
  OBVIOUS
<1>7. Len(s) = Cardinality(T) /\ ToSet(s) = {Old[j] : j \in T}
  BY DEF Tells
<1> HIDE DEF T
<1>8. Len(Append(s, r)) = Cardinality(T \cup {i}) /\ ToSet(Append(s, r)) = {Old[j] : j \in T \cup {i}}
  BY <1>2, <1>4, <1>6, <1>7
<1> QED
  BY <1>2, <1>5, <1>8 DEF Tells

LEMMA ReadEnum ==
  ASSUME Looking, getRules \/ getRule
  PROVE  ReadOn
<1>1. act.at = "enum" /\ act.op \in Listing
  BY WhoReads DEF getRules, getRule, At, Looking, RulesHeld, Running, Runs, Reading, Listing, Alone
<1>2. /\ rules = Old /\ act.todo \subseteq DOMAIN Old /\ TellsOf(DOMAIN Old \ act.todo)
  BY <1>1 DEF Looking, Seen
<1>3. Wanted \subseteq DOMAIN Old /\ (act.op = "getRule" => Wanted = Named(act.name))
  BY <1>2 DEF Wanted, OldNamed, Named
<1>4. CASE act.todo = {} /\ Goto(Over("ok"))
  <2>1. act'.at = "idle" /\ act'.out = act.out /\ UNCHANGED before
    BY <1>4 DEF Goto, Over, NoAct
  <2>2. Len(act.out) = Cardinality(Wanted) /\ ToSet(act.out) = {Old[i] : i \in Wanted}
    <3>1. (DOMAIN Old \ act.todo) \cap Wanted = Wanted
      BY <1>3, <1>4
    <3> QED
      BY <1>2, <3>1 DEF TellsOf, Tells
  <2> QED
    BY <1>1, <2>1, <2>2 DEF ReadOn, ReadStep, Ended, StatusTold, Listing, Wanted
<1>5. ASSUME NEW i \in act.todo, i \in Wanted, Converted(i) PROVE ReadOn
  <2>1. /\ SameReading /\ act'.at = "convert" /\ act'.todo = act.todo \ {i} /\ act'.id = i
        /\ act'.k = 1 /\ act'.rule = Blank /\ act'.out = act.out
    BY <1>5 DEF Converted, Goto, Looking, RulesHeld, ActFields, SameReading
  <2>2. (act.todo \ {i}) \cup {i} = act.todo
    BY <1>5
  <2>3. TellsOf(DOMAIN Old \ (act.todo \cup {act.id}))'
    <3>1. DOMAIN Old' \ (act'.todo \cup {act'.id}) = DOMAIN Old \ act.todo
      BY <2>1, <2>2, SameOld
    <3>2. Tells(act.out, DOMAIN Old \ act.todo)
      BY <1>2 DEF TellsOf
    <3> QED
      BY <2>1, <3>1, <3>2, SameTold
  <2>4. (act.rule = ReadSoFar)'
    <3>1. Blank = [f \in ToSet(Fields) |-> Blank[f]]
      BY DEF Blank
    <3>2. 1..(act'.k - 1) = {}
      BY <2>1
    <3> QED
      BY <2>1, <3>1, <3>2 DEF ReadSoFar
  <2>5. Seen'
    BY <1>1, <1>2, <1>5, <2>1, <2>3, <2>4, SameOld DEF Seen, Looking, SameReading, Listing
  <2> QED
    BY <2>1, <2>5, ReadGo
<1>6. ASSUME NEW i \in act.todo, i \notin Wanted, Goto([act EXCEPT !.todo = @ \ {i}]) PROVE ReadOn
  <2>1. SameReading /\ act'.at = "enum" /\ act'.todo = act.todo \ {i} /\ act'.out = act.out
    BY <1>1, <1>6 DEF Goto, Looking, RulesHeld, ActFields, SameReading
  <2>2. (DOMAIN Old \ act'.todo) \cap Wanted = (DOMAIN Old \ act.todo) \cap Wanted
    BY <1>6, <2>1
  <2>3. TellsOf(DOMAIN Old \ act.todo)'
    BY <1>2, <2>1, <2>2, SameOld, ZenonT(60) DEF TellsOf, Tells
  <2>4. Seen'
    BY <1>1, <1>2, <2>1, <2>3, SameOld DEF Seen, Looking, SameReading, Listing
  <2> QED
    BY <2>1, <2>4, ReadGo
<1>7. act.op = "getRules" => \A i \in act.todo : i \in Wanted
  BY <1>2 DEF Wanted
<1>8. Fun = act.op
  BY <1>1, WhoReads DEF Looking, Listing, Alone
<1> QED
  BY <1>3, <1>4, <1>5, <1>6, <1>7, <1>8 DEF getRules, getRule

LEMMA ReadConvert == ASSUME Looking, convertFwRule2Rule PROVE ReadOn
<1>1. act.at = "convert" /\ act.op \in Listing
  BY WhoReads DEF convertFwRule2Rule, At, Looking, RulesHeld, Running, Runs, Reading, Listing, Alone
<1>2. /\ rules = Old /\ act.todo \subseteq DOMAIN Old /\ act.id \in Wanted \ act.todo
      /\ TellsOf(DOMAIN Old \ (act.todo \cup {act.id})) /\ act.k \in 1..7 /\ act.rule = ReadSoFar
  BY <1>1 DEF Looking, Seen
<1>3. act.id \in DOMAIN Old /\ Old[act.id] \in [ToSet(Fields) -> STRING]
  BY <1>2 DEF Wanted, OldNamed, Looking, Seen
<1>4. CASE act.k > Len(Fields) /\ Goto([act EXCEPT !.at = "enum", !.out = Append(@, act.rule)])
  <2>1. /\ SameReading /\ act'.at = "enum" /\ act'.todo = act.todo
        /\ act'.out = Append(act.out, act.rule)
    BY <1>4 DEF Goto, Looking, RulesHeld, ActFields, SameReading
  <2>2. act.rule = Old[act.id]
    <3>1. act.k = 7
      BY <1>2, <1>4, FieldsAre
    <3>2. \A f \in ToSet(Fields) : \E j \in 1..(act.k - 1) : Fields[j] = f
      BY <3>1, FieldsAre DEF ToSet
    <3>3. act.rule = [f \in ToSet(Fields) |-> Old[act.id][f]]
      BY <1>2, <3>2 DEF ReadSoFar
    <3> QED
      BY <1>3, <3>3
  <2> DEFINE S == DOMAIN Old \ (act.todo \cup {act.id})
  <2>3. Tells(act'.out, S \cup {act.id})
    <3>1. act.id \in DOMAIN Old \ S /\ act.id \in Wanted /\ S \in SUBSET DOMAIN Old /\ Tells(act.out, S)
      BY <1>2, <1>3 DEF TellsOf
    <3>2. act'.out = Append(act.out, Old[act.id])
      BY <2>1, <2>2
    <3> HIDE DEF S
    <3> QED
      BY <3>1, <3>2, OneMoreTold DEF Looking
  <2>4. S \cup {act.id} = DOMAIN Old \ act.todo
    BY <1>2, <1>3
  <2>5. TellsOf(DOMAIN Old \ act.todo)'
    <3>1. DOMAIN Old' \ act'.todo = S \cup {act.id}
      BY <2>1, <2>4, SameOld
    <3> HIDE DEF S
    <3> QED
      BY <2>1, <2>3, <3>1, SameTold
  <2>6. Seen'
    BY <1>1, <1>2, <2>1, <2>5, SameOld DEF Seen, Looking, SameReading, Listing
  <2> QED
    BY <2>1, <2>6, ReadGo
<1>5. ASSUME act.k <= Len(Fields),
             Goto([act EXCEPT !.k = @ + 1, !.rule = [@ EXCEPT ![Fields[act.k]] = rules[act.id][Fields[act.k]]]])
      PROVE  ReadOn
  <2> DEFINE f == Fields[act.k]
  <2>1. /\ SameReading /\ act'.at = "convert" /\ act'.todo = act.todo /\ act'.id = act.id
        /\ act'.k = act.k + 1 /\ act'.rule = [act.rule EXCEPT ![f] = Old[act.id][f]] /\ act'.out = act.out
    BY <1>1, <1>2, <1>5 DEF Goto, Looking, RulesHeld, ActFields, SameReading
  <2>2. act.k \in 1..6 /\ act'.k \in 1..7 /\ act'.k - 1 = act.k
    BY <1>2, <1>5, <2>1, FieldsAre
  <2>3. \A g : (\E j \in 1..act.k : Fields[j] = g) <=> (g = f \/ \E j \in 1..(act.k - 1) : Fields[j] = g)
    <3>1. 1..act.k = 1..(act.k - 1) \cup {act.k}
      BY <2>2
    <3> QED
      BY <3>1
  <2>4. f \in ToSet(Fields)
    BY <2>2, FieldsAre
  <2> HIDE DEF f
  <2>5. act'.rule = [g \in ToSet(Fields) |->
                       IF \E j \in 1..act.k : Fields[j] = g THEN Old[act.id][g] ELSE Blank[g]]
    BY <1>2, <2>1, <2>3, <2>4 DEF ReadSoFar
  <2>6. (act.rule = ReadSoFar)'
    BY <2>1, <2>2, <2>5, SameOld DEF ReadSoFar
  <2>7. TellsOf(DOMAIN Old \ (act.todo \cup {act.id}))'
    <3>1. DOMAIN Old' \ (act'.todo \cup {act'.id}) = DOMAIN Old \ (act.todo \cup {act.id})
      BY <2>1, SameOld
    <3>2. Tells(act.out, DOMAIN Old \ (act.todo \cup {act.id}))
      BY <1>2 DEF TellsOf
    <3> QED
      BY <2>1, <3>1, <3>2, SameTold
  <2>8. Seen'
    BY <1>1, <1>2, <2>1, <2>2, <2>6, <2>7, SameOld DEF Seen, Looking, SameReading, Listing
  <2> QED
    BY <2>1, <2>8, ReadGo
<1>6. Len(Fields) = 6
  BY FieldsAre
<1> QED
  BY <1>2, <1>3, <1>4, <1>5, <1>6 DEF convertFwRule2Rule

-----------------------------------------------------------------------------
(* All steps.                                                               *)

\* A call is the same call until it ends.
LEMMA SameOp == ASSUME RulesHeld, Step PROVE act'.op = act.op
<1>0. DOMAIN act = ActFields /\ {"op", "id", "refs"} \subseteq ActFields
  BY DEF RulesHeld, ActFields
<1>1. \A said : Over(said).op = act.op /\ DOMAIN Over(said) = ActFields
  BY DEF Over, NoAct, ActFields
<1>2. checkHResult \/ (\E code : Throw(code)) => act'.op = act.op
  BY <1>1 DEF checkHResult, Throw, Goto
<1>3. \A a, said : a.op = act.op /\ DOMAIN a = ActFields => Back(a, said).op = act.op
  BY <1>0, <1>1 DEF Back
<1>4. ASSUME ComInitializer \/ FirewallPolicyHelper PROVE act'.op = act.op
  <2>1. CASE Goto([act EXCEPT !.at = FirstStep[Fun], !.todo = DOMAIN rules])
    BY <1>0, <2>1 DEF Goto
  <2> QED
    BY <1>2, <1>4, <2>1, Zenon DEF ComInitializer, FirewallPolicyHelper
<1>5. ASSUME addRule PROVE act'.op = act.op
  <2>1. CASE \E r, i : Write(r, [Over("ok") EXCEPT !.id = i])
    BY <1>0, <1>1, <2>1 DEF Write
  <2> QED
    BY <1>2, <1>5, <2>1, Zenon DEF addRule
<1>6. ASSUME updateRule PROVE act'.op = act.op
  <2>1. CASE \/ \E at : Goto([act EXCEPT !.at = at])
             \/ \E at, i : Goto([act EXCEPT !.at = at, !.id = i])
             \/ \E at, s : Goto([act EXCEPT !.stack = s, !.at = at])
    BY <1>0, <2>1 DEF Goto
  <2> QED
    BY <1>2, <1>6, <2>1, Zenon DEF updateRule
<1>7. ASSUME putRule PROVE act'.op = act.op
  <2>1. CASE Goto(Over("ok"))
    BY <1>1, <2>1 DEF Goto
  <2>2. CASE Goto([act EXCEPT !.k = @ + 1]) \/ \E r : Write(r, [act EXCEPT !.k = @ + 1])
    BY <1>0, <2>2 DEF Goto, Write
  <2> QED
    BY <1>2, <1>7, <2>1, <2>2, Zenon DEF putRule
<1>8. ASSUME removeRule PROVE act'.op = act.op
  <2>1. CASE Goto(Back(act, "ok"))
    BY <1>0, <1>3, <2>1 DEF Goto
  <2>2. CASE \/ Goto([act EXCEPT !.at = "search", !.todo = DOMAIN rules])
             \/ \E r : Write(r, [act EXCEPT !.stack = Append(@, "ruleExists"), !.at = "policy"])
             \/ Goto([act EXCEPT !.stack = Append(@, "ruleExists"), !.at = "policy"])
    BY <1>0, <2>2 DEF Goto, Write
  <2> QED
    BY <1>2, <1>8, <2>1, <2>2, Zenon DEF removeRule
<1>9. ASSUME removeFound PROVE act'.op = act.op
  <2>1. ASSUME NEW n PROVE DOMAIN [act EXCEPT !.refs = @ + n] = ActFields /\ [act EXCEPT !.refs = @ + n].op = act.op
    BY <1>0
  <2>2. ASSUME NEW n, NEW r, Write(r, Back([act EXCEPT !.refs = @ + n], "ok")) PROVE act'.op = act.op
    BY <1>3, <2>1, <2>2 DEF Write
  <2>3. ASSUME NEW i, Goto([act EXCEPT !.todo = @ \ {i}]) PROVE act'.op = act.op
    BY <1>0, <2>3 DEF Goto
  <2>4. ASSUME NEW said, NEW n, Goto([Over(said) EXCEPT !.refs = n]) PROVE act'.op = act.op
    BY <1>0, <1>1, <2>4 DEF Goto
  <2> QED
    BY <1>2, <1>9, <2>2, <2>3, <2>4 DEF removeFound
<1>10. ASSUME ruleExists PROVE act'.op = act.op
  <2>1. ASSUME NEW n PROVE DOMAIN [act EXCEPT !.refs = @ + n] = ActFields /\ [act EXCEPT !.refs = @ + n].op = act.op
    BY <1>0
  <2>2. ASSUME NEW n, NEW said, Goto(Back([act EXCEPT !.refs = @ + n], said)) PROVE act'.op = act.op
    BY <1>3, <2>1, <2>2 DEF Goto
  <2>3. CASE \E said : Goto(Back(act, said))
    BY <1>0, <1>3, <2>3 DEF Goto
  <2>4. ASSUME NEW i, Goto([act EXCEPT !.todo = @ \ {i}]) PROVE act'.op = act.op
    BY <1>0, <2>4 DEF Goto
  <2>5. CASE \E S : Goto([act EXCEPT !.at = "look", !.todo = S])
    BY <1>0, <2>5 DEF Goto
  <2> QED
    BY <1>2, <1>10, <2>2, <2>3, <2>4, <2>5 DEF ruleExists
<1>11. ASSUME getRules \/ getRule \/ convertFwRule2Rule PROVE act'.op = act.op
  <2>1. CASE Goto(Over("ok"))
    BY <1>1, <2>1 DEF Goto
  <2>2. CASE \E i : Converted(i) \/ Goto([act EXCEPT !.todo = @ \ {i}])
    BY <1>0, <2>2 DEF Goto, Converted
  <2>3. CASE convertFwRule2Rule
    BY <1>0, <2>3 DEF Goto, convertFwRule2Rule
  <2> QED
    BY <1>11, <2>1, <2>2, <2>3, Zenon DEF getRules, getRule
<1>12. ASSUME getStatus \/ setStatus PROVE act'.op = act.op
  <2>1. CASE Goto(Over("ok"))
    BY <1>1, <2>1 DEF Goto
  <2>2. CASE \/ act' = [act EXCEPT !.k = @ + 1]
             \/ Goto([act EXCEPT !.k = @ + 1, !.told = @ \cup {Profiles[act.k]}])
    BY <1>0, <2>2 DEF Goto
  <2> QED
    BY <1>2, <1>12, <2>1, <2>2, Zenon DEF getStatus, setStatus, Goto
<1> QED
  BY <1>4, <1>5, <1>6, <1>7, <1>8, <1>9, <1>10, <1>11, <1>12 DEF Step

LEMMA ReadStepOn == ASSUME Looking, Step PROVE ReadOn
<1>1. Fun = act.op /\ act.op \in Reading
  BY WhoReads DEF Looking, Reading, Alone
<1>2. ~(addRule \/ putRule \/ removeRule \/ removeFound \/ getStatus \/ setStatus)
  BY <1>1 DEF addRule, putRule, removeRule, removeFound, getStatus, setStatus, At, Looking,
              RulesHeld, Running, Runs, Reading
<1>3. ~updateRule
  BY <1>1 DEF updateRule, At, Looking, RulesHeld, Running, Runs, Reading
<1> QED
  BY <1>2, <1>3, ReadPolicy, ReadExists, ReadEnum, ReadConvert DEF Step

\* getStatus() tells of a profile only what it has just read.
ToldOfOn == act.told \cup profiles \subseteq before.on

LEMMA StatusOn ==
  ASSUME RulesHeld, act.at # "idle", act.op = "getStatus", ToldOfOn, Step
  PROVE  ToldOfOn' /\ before' = before
<1>1. Fun = "getStatus"
  BY WhoReads DEF Alone
<1>2. ComInitializer \/ FirewallPolicyHelper \/ getStatus
  <2>1. ~(addRule \/ putRule \/ removeRule \/ removeFound \/ setStatus \/ getRules \/ getRule)
    BY <1>1 DEF addRule, putRule, removeRule, removeFound, setStatus, getRules, getRule, At,
                RulesHeld, Running, Runs
  <2>2. ~(updateRule \/ ruleExists \/ convertFwRule2Rule)
    BY <1>1 DEF updateRule, ruleExists, convertFwRule2Rule, At, RulesHeld, Running, Runs
  <2> QED
    BY <2>1, <2>2 DEF Step
<1>3. \A a : Goto(a) /\ a.told = act.told => ToldOfOn' /\ before' = before
  BY DEF Goto, ToldOfOn
<1>4. \A said : Over(said).told = act.told
  BY DEF Over, NoAct
<1>5. checkHResult \/ (\E code : Throw(code)) => ToldOfOn' /\ before' = before
  BY <1>3, <1>4 DEF checkHResult, Throw
<1>6. CASE ComInitializer \/ FirewallPolicyHelper
  BY <1>3, <1>5, <1>6 DEF ComInitializer, FirewallPolicyHelper, RulesHeld, ActFields
<1>7. CASE getStatus
  <2>1. CASE Goto(Over("ok")) \/ Goto([act EXCEPT !.k = @ + 1])
    BY <1>3, <1>4, <2>1 DEF RulesHeld, ActFields
  <2>2. CASE /\ Profiles[act.k] \in profiles
             /\ Goto([act EXCEPT !.k = @ + 1, !.told = @ \cup {Profiles[act.k]}])
    BY <2>2 DEF Goto, RulesHeld, ActFields, ToldOfOn
  <2> QED
    BY <1>7, <2>1, <2>2 DEF getStatus
<1> QED
  BY <1>2, <1>6, <1>7

LEMMA ReadStepHeld ==
  ASSUME RulesHeld, ReadHeld, Step
  PROVE  ReadHeld' /\ ReadStep
<1>1. act.at # "idle" /\ others' = others /\ act'.op = act.op
  BY StepAlone, SameOp
<1>2. CASE act.op \in Reading /\ others = 0
  <2>1. ReadOn
    BY <1>1, <1>2, ReadStepOn DEF ReadHeld, Looking
  <2> QED
    BY <1>1, <1>2, <2>1 DEF ReadOn, ReadHeld, Reading
<1>3. CASE act.op = "getStatus"
  <2>1. ToldOfOn' /\ before' = before
    BY <1>1, <1>3, StatusOn DEF ReadHeld, ToldOfOn
  <2> QED
    BY <1>1, <1>3, <2>1 DEF ReadHeld, ReadStep, Ended, StatusTold, Reading, ToldOfOn
<1>4. CASE act.op # "getStatus" /\ ~(act.op \in Reading /\ others = 0)
  BY <1>1, <1>4 DEF ReadHeld, ReadStep, Ended, StatusTold, Reading
<1> QED
  BY <1>2, <1>3, <1>4

LEMMA ReadInit == Init => ReadHeld
BY DEF Init, NoAct, ReadHeld

LEMMA ReadBegin ==
  ASSUME PoliciesFit, RulesHeld, TypesHeld, ReadHeld, Call \/ Forget \/ OthersWrite
  PROVE  ReadHeld' /\ ReadStep
<1>1. ASSUME NEW op \in {"addRule", "updateRule", "removeRule", "ruleExists", "getRule", "getRules",
                         "getStatus", "setStatus"},
             NEW name, NEW r, NEW want, NEW at \in {"policy", "validate"}, Begin(op, name, r, want, at)
      PROVE  ReadHeld' /\ ReadStep
  <2>1. act.at = "idle"
    BY <1>1 DEF Begin, NoAct
  <2>2. /\ act'.op = op /\ act'.at = at /\ act'.told = {} /\ act'.out = <<>>
        /\ before'.rules = rules' /\ before'.on = profiles'
    BY <1>1 DEF Begin, NoAct
  <2>3. rules' \in Seq([ToSet(Fields) -> STRING])
    <3>1. <<>> \in Seq([ToSet(Fields) -> STRING])
      BY EmptySeq
    <3> QED
      BY <1>1, <3>1 DEF Begin, PoliciesFit
  <2>4. Seen'
    BY <1>1, <2>2, <2>3 DEF Seen, Old
  <2> QED
    BY <2>1, <2>2, <2>4 DEF ReadHeld, ReadStep, Ended, StatusTold, At
<1>2. CASE Call
  BY <1>1, <1>2 DEF Call
<1>3. CASE Forget
  BY <1>3 DEF Forget, NoAct, ReadHeld, ReadStep, Ended, StatusTold, At
<1>4. CASE OthersWrite
  <2>1. /\ act' = act /\ act.at # "idle" /\ others' = others + 1 /\ others \in Nat
        /\ before' = [before EXCEPT !.on = @ \cup profiles']
    BY <1>4 DEF OthersWrite, At, TypesHeld, TypeOK
  <2>2. ToldOfOn /\ "on" \in DOMAIN before => ToldOfOn'
    BY <2>1 DEF ToldOfOn
  <2> QED
    BY <2>1, <2>2 DEF ReadHeld, ReadStep, Ended, StatusTold, ToldOfOn
<1> QED
  BY <1>2, <1>3, <1>4

LEMMA ReadNext ==
  ASSUME PoliciesFit, RulesHeld, TypesHeld, ReadHeld, Next
  PROVE  ReadHeld' /\ ReadStep
BY ReadStepHeld, ReadBegin DEF Next

LEMMA ReadStutters == ASSUME ReadHeld, UNCHANGED vars PROVE ReadHeld'
<1>1. act' = act /\ before' = before /\ others' = others /\ rules' = rules /\ profiles' = profiles
  BY DEF vars
<1>2. Old' = Old /\ OldNamed' = OldNamed /\ Wanted' = Wanted /\ Named(act.name)' = Named(act.name)
  BY <1>1 DEF Old, OldNamed, Wanted, Named
<1>3. ReadSoFar' = ReadSoFar
  BY <1>1, <1>2 DEF ReadSoFar
<1>4. TellsOf(DOMAIN Old \ act.todo)' = TellsOf(DOMAIN Old \ act.todo)
  BY <1>1, <1>2 DEF TellsOf, Tells
<1>5. TellsOf(DOMAIN Old \ (act.todo \cup {act.id}))' = TellsOf(DOMAIN Old \ (act.todo \cup {act.id}))
  BY <1>1, <1>2 DEF TellsOf, Tells
<1> QED
  BY <1>1, <1>2, <1>3, <1>4, <1>5 DEF ReadHeld, Seen

LEMMA TypesStutter == ASSUME TypesHeld, UNCHANGED vars PROVE TypesHeld'
BY DEF TypesHeld, TypeOK, vars, Complete, Invalid

\* A rule that is there has a name and a program, whatever was asked for: a
\* request that is not valid gets no further than validate(), and an update in
\* place that gave up half-way has written fields of a valid one.
\* (firewall_controller_windows.cpp:91-124, :245-409)
THEOREM TypeOKAlways ==
  ASSUME RulesFit
  PROVE  Spec => []TypeOK
<1>1. RulesHeld /\ TypesHeld /\ [Next]_vars => TypesHeld'
  BY TypesNext, TypesStutter
<1>2. TypesHeld => TypeOK
  BY DEF TypesHeld
<1> QED
  BY <1>1, <1>2, RulesInvariance, TypesInit, PTL DEF Spec

\* What a call says of the policy was so when nobody else wrote meanwhile: a rule
\* is there or is not, the rules told are those of the policy, each once, and a
\* profile told to be on was on at some time.
\* (firewall_controller_windows.cpp:429-483, :578-658, :690-745)
THEOREM ReadsWereThereAlways ==
  ASSUME PoliciesFit, RulesFit
  PROVE  Spec => ReadsWereThere
<1> DEFINE Inv == RulesHeld /\ TypesHeld /\ ReadHeld
<1>1. Init => Inv
  BY RulesInit, TypesInit, ReadInit
<1>2. Inv /\ [Next]_vars => Inv' /\ [ReadStep]_vars
  <2>1. ASSUME Inv, Next PROVE Inv' /\ ReadStep
    BY <2>1, RulesNext, TypesNext, ReadNext
  <2>2. ASSUME Inv, UNCHANGED vars PROVE Inv'
    BY <2>2, RulesStutter, TypesStutter, ReadStutters
  <2> QED
    BY <2>1, <2>2
<1> QED
  BY <1>1, <1>2, PTL DEF Spec, ReadsWereThere

=============================================================================
