------------------------------ MODULE SystemKit ------------------------------
(***************************************************************************)
(* systemkit on Windows: five components that ComponentFactoryImpl hands   *)
(* out (systemkit/src/component_factory_impl.cpp).  They share no state and*)
(* never call each other, so every behaviour is that of one of them: part  *)
(* says of which.  This module puts them side by side and states what is   *)
(* required of all.                                                        *)
(***************************************************************************)
EXTENDS Naturals, Sequences

CONSTANTS
  Threads, Openers, Pids, App, Values,                                \* ProcessLauncher
  VariableNames, NoName, Ref, MaxLen, MaxVariableWrites,              \* EnvironmentVariables
  Paths, Children, Valued, ValueEntries, MaxWrites,                   \* Registry
  Policies, StoredRules, RuleRequests, Narrow, MaxRules, MaxOthers,   \* Firewall
  PermissionRequests, Lists, Sids, Me, MaxMeddling                    \* Permissions

\* The launcher's threads, processes and handle values have none of the names it
\* uses beside them.
ASSUME LauncherNames ==
  /\ Pids \cap {"none", "thread", "snapshot", "never"} = {}
  /\ Threads \cap {"caller", "none"} = {}
  /\ "null" \notin Values
  /\ Openers \subseteq Threads /\ App \subseteq Pids

VARIABLES
  part,                                      \* the component this behaviour is of
  proc, table, given, spent, reused, call,   \* ProcessLauncher
  penv, key, req, seen, writes,              \* EnvironmentVariables
  keys, list, job, was, changes,             \* Registry
  rules, profiles, act, before, others,      \* Firewall
  acl, owner, token, ask, prior, meddling    \* Permissions

Launcher == INSTANCE ProcessLauncher
Environment == INSTANCE EnvironmentVariables WITH Names <- VariableNames, MaxWrites <- MaxVariableWrites
Manager == INSTANCE Registry WITH Entries <- ValueEntries
Controller == INSTANCE Firewall WITH Stored <- StoredRules, Requests <- RuleRequests
Handler == INSTANCE Permissions WITH Requests <- PermissionRequests

\* The unnamed value and the variable that others refer to are among the names.
ASSUME VariablesNamed == Environment!VariablesFit

\* A path names a key and the keys above it; a value has a name, a type and a length.
ASSUME KeysNamed == Manager!KeysFit

\* The rules of a policy have all the properties the controller reads, and more.
ASSUME FirewallPolicies == Controller!PoliciesFit /\ Controller!RulesFit

\* The lists of the handler have entries, and permissions are asked for in lists.
ASSUME HandlerLists == Handler!PermissionsFit

----------------------------------------------------------------------------
(* One of them *)

launcher == <<proc, table, given, spent, reused, call>>
environment == <<penv, key, req, seen, writes>>
manager == <<keys, list, job, was, changes>>
controller == <<rules, profiles, act, before, others>>
handler == <<acl, owner, token, ask, prior, meddling>>

vars == <<part, launcher, environment, manager, controller, handler>>

Init ==
  /\ part \in {"process", "environment", "registry", "firewall", "permissions"}
  /\ Launcher!Init /\ Environment!Init /\ Manager!Init /\ Controller!Init /\ Handler!Init

OfLauncher(A) ==
  part = "process" /\ A /\ UNCHANGED <<part, environment, manager, controller, handler>>
OfEnvironment(A) ==
  part = "environment" /\ A /\ UNCHANGED <<part, launcher, manager, controller, handler>>
OfManager(A) ==
  part = "registry" /\ A /\ UNCHANGED <<part, launcher, environment, controller, handler>>
OfController(A) ==
  part = "firewall" /\ A /\ UNCHANGED <<part, launcher, environment, manager, handler>>
OfHandler(A) ==
  part = "permissions" /\ A /\ UNCHANGED <<part, launcher, environment, manager, controller>>

Next ==
  \/ OfLauncher(Launcher!Next) \/ OfEnvironment(Environment!Next) \/ OfManager(Manager!Next)
  \/ OfController(Controller!Next) \/ OfHandler(Handler!Next)

\* The thread that makes a call to the registry goes on with it; nothing is assumed
\* of the others that write.
Spec == Init /\ [][Next]_vars /\ WF_vars(OfManager(Manager!Step))

----------------------------------------------------------------------------
\* The states of the component are what the code can store.
TypeOK ==
  CASE part = "process" -> Launcher!TypeOK
    [] part = "environment" -> Environment!TypeOK
    [] part = "registry" -> Manager!TypeOK
    [] part = "firewall" -> Controller!TypeOK
    [] part = "permissions" -> Handler!TypeOK

\* Nothing that a call opens or allocates is left behind, on any way out, but for
\* the leaks the modules name.
NothingLeft ==
  CASE part = "process" -> Launcher!NoHandleLeft
    [] part = "environment" -> Environment!NothingHeld
    [] part = "registry" -> Manager!NothingOpen
    [] part = "firewall" -> Controller!RulesReleased
    [] part = "permissions" -> Handler!NothingHeld

\* A call to the registry ends whatever others do meanwhile.
CallsEnd == Manager!CallsEnd

\* What is said of a process is said of the one the handle was given for.
HandleNamesProcess == Launcher!HandleNamesProcess

\* What a read returns was so at some time during the read.
ReadsWereThere == Environment!ReadsWereThere /\ Manager!ReadsWereThere /\ Controller!ReadsWereThere

\* A call changes no other rule of the firewall than its own, and what it fails to
\* change it leaves as the module says.
PolicyKept == Controller!PolicyKept

\* The rights, the owner and the privilege are as asked when a call returns.
RightsAsAsked == Handler!RightsAsAsked

=============================================================================
