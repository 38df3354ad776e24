----------------------------- MODULE Permissions -----------------------------
(***************************************************************************)
(* PermissionHandlerWindows (systemkit/src/windows/permission_handler_     *)
(* windows.cpp): the access-control list and the owner of one resource, and*)
(* the privilege to take ownership that the process's token holds.  A      *)
(* handler keeps nothing from one call to the next, so all three may be    *)
(* anything when a call begins; other threads and programs change them     *)
(* between the system calls that a call makes.                             *)
(*                                                                         *)
(* An access mask is the set of its bits.  Directories go like files.      *)
(***************************************************************************)
EXTENDS Naturals, FiniteSets, Sequences, SequencesExt

CONSTANTS
  Requests,     \* lists of permissions: [trustee, rights, action, inheritance]
  Lists,        \* access-control lists, of entries [type, sid, mask, flags]
  Sids,         \* trustees given as "S-..."; any other is the name of an account
  Me,           \* the sid of the caller
  MaxMeddling   \* how often others write while one call is under way (a bound)

VARIABLES
  acl,          \* the resource's access-control list
  owner,
  token,        \* whether the token holds the privilege, and whether it is enabled
  ask,          \* the call under way, or the result of the last one
  prior,        \* what the three were when this call began
  meddling      \* how often others have written during this call

vars == <<acl, owner, token, ask, prior, meddling>>

Types == {"File", "Registry", "Service"}
Named == {"Read", "Write", "Execute", "Delete", "ReadPermissions", "WritePermissions", "ChangeOwner"}
FullControl == Named \cup {"the other bits"}   \* 0xFFFFFFFF

Tokens == {t \in [has : BOOLEAN, on : BOOLEAN] : t.on => t.has}

NoAsk == [op |-> "none", at |-> "idle", type |-> "File", rights |-> {}, list |-> <<>>, replace |-> FALSE,
          copy |-> <<>>, new |-> <<>>, k |-> 1, held |-> {}, mask |-> {}, out |-> <<>>, said |-> "none"]

Modes == {"None", "ThisOnly", "ContainerOnly", "Descendents", "Full"}   \* of inheritance
AnyEntry ==
  [type : {"allow", "deny", "audit"}, sid : STRING, mask : SUBSET (0..31), flags : SUBSET {"CI", "OI", "IO"}]
AnyPermission ==
  [trustee : STRING, rights : SUBSET FullControl, action : {"Grant", "Deny", "Revoke"}, inheritance : Modes]

\* The lists and the requests are made of these.
PermissionsFit ==
  /\ Requests \subseteq Seq(AnyPermission) \ {<<>>} /\ Lists \subseteq Seq(AnyEntry)
  /\ Me \in Sids /\ MaxMeddling \in Nat

TypeOK ==
  /\ acl \in Seq(AnyEntry)
  /\ owner \in Sids /\ token \in Tokens
  /\ ask.type \in Types /\ ask.rights \subseteq FullControl
  /\ ask.held \subseteq {"descriptor", "dacl", "token", "group", "object", "process"}
  /\ meddling \in 0..MaxMeddling

Init ==
  /\ acl = <<>> /\ owner = Me /\ token = [has |-> FALSE, on |-> FALSE]
  /\ ask = NoAsk /\ meddling = 0
  /\ prior = [acl |-> <<>>, owner |-> Me, token |-> [has |-> FALSE, on |-> FALSE]]

----------------------------------------------------------------------------
(* Masks and flags *)

DELETE == {16}
READ_CONTROL == {17}
WRITE_DAC == {18}
WRITE_OWNER == {19}
STANDARD == 16..19
GENERIC_ALL == {28}
GENERIC_EXECUTE == {29}
GENERIC_WRITE == {30}
GENERIC_READ == {31}
FILE_GENERIC_READ == {0, 3, 7, 17, 20}
FILE_GENERIC_WRITE == {1, 2, 4, 8, 17, 20}
FILE_GENERIC_EXECUTE == {5, 7, 17, 20}
KEY_READ == {0, 3, 4, 17}
KEY_WRITE == {1, 2, 17}
KEY_ALL_ACCESS == (0..5) \cup STANDARD
SERVICE_ALL_ACCESS == (0..8) \cup STANDARD   \* queries 0 and 2, changes 1, start, stop and pause 4..6

\* the generic bits stand for others, by the type of the object
genericMapping ==
  [File     |-> [r |-> FILE_GENERIC_READ, w |-> FILE_GENERIC_WRITE, x |-> FILE_GENERIC_EXECUTE,
                 a |-> (0..8) \cup (16..20)],
   Registry |-> [r |-> KEY_READ, w |-> KEY_WRITE, x |-> KEY_READ, a |-> KEY_ALL_ACCESS],
   Service  |-> [r |-> {0, 2, 3}, w |-> {1}, x |-> 4..6, a |-> SERVICE_ALL_ACCESS]]
MapGenericMask(mask, type) ==
  LET m == genericMapping[type]
      For(bits, by) == IF bits \subseteq mask THEN by ELSE {}
  IN (mask \ 28..31) \cup For(GENERIC_READ, m.r) \cup For(GENERIC_WRITE, m.w)
       \cup For(GENERIC_EXECUTE, m.x) \cup For(GENERIC_ALL, m.a)

accessRightToAccessMask(rights, type) ==
  LET On(right, bits) == IF right \subseteq rights THEN bits ELSE {}
      Common == On({"Read"}, GENERIC_READ) \cup On({"Write"}, GENERIC_WRITE)
        \cup On({"Execute"}, GENERIC_EXECUTE) \cup On({"Delete"}, DELETE)
        \cup On({"ReadPermissions"}, READ_CONTROL) \cup On({"WritePermissions"}, WRITE_DAC)
        \cup On({"ChangeOwner"}, WRITE_OWNER) \cup On(FullControl, GENERIC_ALL)
      Key == On({"Read"}, KEY_READ) \cup On({"Write"}, KEY_WRITE) \cup On(FullControl, KEY_ALL_ACCESS)
      Service == On({"Read"}, {0, 2, 3, 7}) \cup On({"Write"}, {1}) \cup On({"Execute"}, 4..6)
        \cup On(FullControl, SERVICE_ALL_ACCESS)
  IN Common \cup (CASE type = "Registry" -> Key [] type = "Service" -> Service [] OTHER -> {})

\* one bit of a group suffices, and the groups share some
accessMaskToAccessRight(mask, type) ==
  LET Some(bits, right) == IF mask \cap bits # {} THEN {right} ELSE {}
      Common == Some(GENERIC_READ \cup FILE_GENERIC_READ, "Read")
        \cup Some(GENERIC_WRITE \cup FILE_GENERIC_WRITE, "Write")
        \cup Some(GENERIC_EXECUTE \cup FILE_GENERIC_EXECUTE, "Execute")
        \cup Some(DELETE, "Delete") \cup Some(READ_CONTROL, "ReadPermissions")
        \cup Some(WRITE_DAC, "WritePermissions") \cup Some(WRITE_OWNER, "ChangeOwner")
      Key == Some(KEY_READ, "Read") \cup Some(KEY_WRITE, "Write")
      Service == Some({0, 2}, "Read") \cup Some({1}, "Write") \cup Some({4, 5}, "Execute")
      all == GENERIC_ALL \cup (CASE type = "Registry" -> KEY_ALL_ACCESS
                                 [] type = "Service" -> SERVICE_ALL_ACCESS [] OTHER -> {})
  IN IF mask \cap all # {} THEN FullControl
     ELSE Common \cup (CASE type = "Registry" -> Key [] type = "Service" -> Service [] OTHER -> {})

\* Mutant: what is for the descendents only is for the file itself, too.
inheritanceModeToFlagsOfBoth(mode, type) ==
  IF type = "File"
  THEN CASE mode = "ThisOnly" -> {"PROTECTED"}
         [] mode = "ContainerOnly" -> {"CI"}
         [] mode \in {"Descendents", "Full"} -> {"CI", "OI"}
         [] OTHER -> {}
  ELSE IF mode \in {"ContainerOnly", "Descendents", "Full"} THEN {"CI"} ELSE {}

\* PROTECTED_DACL_SECURITY_INFORMATION is no flag of an entry
inheritanceModeToFlags(mode, type) ==
  IF type = "File"
  THEN CASE mode = "ThisOnly" -> {"PROTECTED"}
         [] mode = "ContainerOnly" -> {"CI", "IO"}
         [] mode = "Descendents" -> {"CI", "OI", "IO"}
         [] mode = "Full" -> {"CI", "OI"}
         [] OTHER -> {}
  ELSE IF mode \in {"ContainerOnly", "Descendents", "Full"} THEN {"CI"} ELSE {}

flagsToInheritanceMode(flags, type) ==
  CASE flags \cap {"CI", "OI"} = {} -> "None"
    [] type = "File" /\ {"CI", "OI"} \subseteq flags -> IF "IO" \in flags THEN "Descendents" ELSE "Full"
    [] type = "File" /\ flags \cap {"CI", "OI"} = {"CI"} -> IF "IO" \in flags THEN "ContainerOnly" ELSE "Full"
    [] type # "File" /\ "CI" \in flags -> IF "IO" \in flags THEN "Descendents" ELSE "Full"
    [] OTHER -> "ThisOnly"

----------------------------------------------------------------------------
(* How a call goes on and how it ends *)

At(at) == ask.at = at
Goto(a) == ask' = a /\ UNCHANGED <<acl, owner, token, prior, meddling>>

\* SecurityDescriptorGuard and SidGuard give back what they hold
RAII == {"descriptor"}
Over(said, held) ==
  [NoAsk EXCEPT !.op = ask.op, !.type = ask.type, !.rights = ask.rights, !.list = ask.list,
                !.replace = ask.replace, !.out = ask.out, !.held = held \ RAII, !.said = said]
Return(said, freed) == Goto(Over(said, ask.held \ freed))

\* the two setters make one code of all
Throw(code, freed) ==
  Return(IF ask.op \in {"setPermissions", "setOwner"} THEN "SecurityError" ELSE code, freed)
Fails(freed) == Throw("SecurityError", freed)

\* SID strings can be converted.  What an account's name gives is the text of
\* its SID, which is no valid SID.
trusteeNameToSid(trustee) == trustee \in Sids

\* sidToTrusteeName() gives the account's name or else the SID as text
Told(ace, type) ==
  [trustee |-> ace.sid, rights |-> accessMaskToAccessRight(ace.mask, type),
   action |-> IF ace.type = "allow" THEN "Grant" ELSE "Deny",
   inheritance |-> flagsToInheritanceMode(ace.flags, type)]

----------------------------------------------------------------------------
(* Reading and writing the list *)

\* one call for the owner, the group and the list; the copy is freed by its guard
getSecurityInfo ==
  /\ At("read")
  /\ \/ Fails({})
     \/ Goto([ask EXCEPT !.copy = acl, !.held = @ \cup {"descriptor"},
                         !.at = IF ask.op = "getPermissions" THEN "told" ELSE "size"])

\* entries of other types are skipped, and those that cannot be read
getPermissions ==
  /\ At("told")
  /\ \/ ask.k = 1 /\ Fails({})   \* no owner, group or list in the copy
     \/ ask.k > Len(ask.copy) /\ Return("ok", {})
     \/ /\ ask.k <= Len(ask.copy)
        /\ LET ace == ask.copy[ask.k]
               next == [ask EXCEPT !.k = @ + 1]
           IN \/ ace.type = "audit" /\ Goto(next)
              \/ ace.type # "audit" /\ Goto([next EXCEPT !.out = Append(@, Told(ace, ask.type))])

\* an empty descriptor instead of the resource's
newDescriptor ==
  /\ At("descriptor")
  /\ \/ Throw("OutOfMemory", {})
     \/ Goto([ask EXCEPT !.at = "size", !.held = @ \cup {"descriptor"}])

\* every trustee is converted once to learn the size, then the list is allocated
\* and the old entries are copied
sizeAndCopy ==
  \/ /\ At("size")
     /\ IF \A i \in DOMAIN ask.list : trusteeNameToSid(ask.list[i].trustee)
        THEN Fails({}) \/ Goto([ask EXCEPT !.at = "fill", !.held = @ \cup {"dacl"}, !.k = 1])
        ELSE Fails({})
  \/ /\ At("fill")
     /\ \/ Fails({"dacl"})
        \/ Goto([ask EXCEPT !.at = "add", !.new = ask.copy])

\* the entry that gives a permission
Ace(p) ==
  [type |-> IF p.action = "Grant" THEN "allow" ELSE "deny", sid |-> p.trustee,
   mask |-> accessRightToAccessMask(p.rights, ask.type),
   flags |-> inheritanceModeToFlags(p.inheritance, ask.type)]

\* each trustee is converted again: if that fails now, the list is not freed
addEntry ==
  LET p == ask.list[ask.k]
      ace == Ace(p)
      next == [ask EXCEPT !.k = @ + 1]
  IN /\ At("add") /\ ask.k <= Len(ask.list)
     /\ \/ Fails({})
        \/ p.action = "Revoke" /\ Goto(next)
        \/ p.action # "Revoke" /\ "PROTECTED" \in ace.flags /\ Fails({"dacl"})
        \/ p.action # "Revoke" /\ "PROTECTED" \notin ace.flags
           /\ (Fails({"dacl"}) \/ Goto([next EXCEPT !.new = Append(@, ace)]))

\* The list goes into the descriptor, which a self-relative one refuses, as the
\* resource's own is.  Then the resource gets it; entries only to be inherited
\* keep their generic bits.
Kept(ace) ==
  IF "IO" \in ace.flags THEN ace ELSE [ace EXCEPT !.mask = MapGenericMask(@, ask.type)]
setPermissions ==
  \/ /\ At("add") /\ ask.k > Len(ask.list)
     /\ \/ Fails({"dacl"})
        \/ ask.replace /\ Goto([ask EXCEPT !.at = "apply"])
  \/ /\ At("apply")
     /\ \/ Fails({"dacl"})
        \/ /\ acl' = [i \in DOMAIN ask.new |-> Kept(ask.new[i])]
           /\ ask' = Over("ok", ask.held \ {"dacl"})
           /\ UNCHANGED <<owner, token, prior, meddling>>

setOwner ==
  /\ At("owner")
  /\ LET sid == ask.list[1].trustee IN
     \/ Fails({})
     \/ /\ trusteeNameToSid(sid)
        /\ owner' = sid /\ ask' = Over("ok", {})
        /\ UNCHANGED <<acl, token, prior, meddling>>

----------------------------------------------------------------------------
(* Trying an access *)

\* The first entry that names a bit decides on it; the owner may always read and
\* change the list.
AllowsBit(list, own, b) ==
  \/ own = Me /\ b \in READ_CONTROL \cup WRITE_DAC
  \/ LET i == SelectInSeq(list, LAMBDA e : /\ e.sid = Me /\ "IO" \notin e.flags
                                           /\ e.type # "audit" /\ b \in e.mask)
     IN i # 0 /\ list[i].type = "allow"
Allows(list, own, mask) == \A b \in mask : AllowsBit(list, own, b)

\* what the object is opened for: one bit of a group suffices here, too
accessMask(rights, type) ==
  LET desired == MapGenericMask(accessRightToAccessMask(rights, type), type)
      If(bits, for) == IF desired \cap bits # {} THEN for ELSE {}
  IN CASE type = "File" -> MapGenericMask(If({0}, GENERIC_READ) \cup If({1}, GENERIC_WRITE)
                                            \cup If({5}, GENERIC_EXECUTE), type)
       [] type = "Registry" -> If(KEY_READ, KEY_READ) \cup If(KEY_WRITE, KEY_WRITE)
       [] OTHER -> If({0}, {0}) \cup If({1}, {1}) \cup If({4, 5}, {4, 5})

\* what is opened is closed at once; services ask for the error only after a
\* handle has been closed
checkAccess ==
  LET mask == accessMask(ask.rights, ask.type)
      may == Allows(acl, owner, mask)
      Next(at) == [ask EXCEPT !.at = at, !.mask = mask]
  IN \/ At("check") /\ Fails({})   \* no attributes, no service manager, another error
     \/ /\ At("check") /\ ask.type # "Service"
        /\ \/ may /\ Goto([Next("opened") EXCEPT !.held = {"object"}])
           \/ ~may /\ Return("false", {})
           \/ ask.type = "Registry" /\ Throw("ResourceNotFound", {})
     \/ At("check") /\ ask.type = "Service" /\ Goto([Next("manager") EXCEPT !.held = {"group"}])
     \/ /\ At("manager")
        /\ \/ may /\ Goto([Next("opened") EXCEPT !.held = {"object"}])
           \/ Return("false", {"group"})
           \/ \E code \in {"ResourceNotFound", "SecurityError"} : Throw(code, {"group"})
     \/ At("opened") /\ Return("true", {"object"})

----------------------------------------------------------------------------
(* Privileges *)

openToken(at, next) == At(at) /\ (Fails({}) \/ Goto([ask EXCEPT !.at = next, !.held = @ \cup {"token"}]))

\* the privilege is enabled, the owner written, and the privilege disabled,
\* whoever else has enabled or disabled it in between
takeOwnership ==
  \/ openToken("take", "user")
  \/ At("user") /\ (Fails({"token"}) \/ Goto([ask EXCEPT !.at = "enable", !.held = @ \ {"token"}]))
  \/ /\ At("write")
     /\ \/ Goto([ask EXCEPT !.at = "disable", !.said = "failed"])
        \/ /\ token.on \/ Allows(acl, owner, WRITE_OWNER)
           /\ owner' = Me /\ ask' = [ask EXCEPT !.at = "disable", !.said = "done"]
           /\ UNCHANGED <<acl, token, prior, meddling>>

Adjusting == {"enable", "disable"}
Turn == [enable |-> "enabling", disable |-> "disabling"]
Turning == {Turn[at] : at \in Adjusting}

\* what adjustPrivilegeInternal() answers, and what its caller makes of it
Answered(said) ==
  LET closed == ask.held \ {"token"}
  IN IF ask.op = "adjustPrivilege" THEN Over(said, closed)
     ELSE IF At("disabling") THEN Over(IF ask.said = "done" THEN "ok" ELSE "SecurityError", closed)
     ELSE IF said = "false" THEN Over("SecurityError", closed)
     ELSE [ask EXCEPT !.at = "write", !.held = closed]

\* a token that does not hold the privilege says so, and nothing happens
adjustPrivilege ==
  \/ \E at \in Adjusting : openToken(at, Turn[at])
  \/ ask.at \in Turning /\ Fails({"token"})
  \/ /\ ask.at \in Turning /\ token.has
     /\ token' = [token EXCEPT !.on = At("enabling")]
     /\ ask' = Answered("true")
     /\ UNCHANGED <<acl, owner, prior, meddling>>
  \/ ask.at \in Turning /\ ~token.has /\ Goto(Answered("false"))

\* the token's elevation, or else the membership of the group of administrators
isRunningAsAdministrator ==
  LET Is(admin, freed) ==
        IF ask.op = "elevate" /\ admin = "false" THEN Goto([ask EXCEPT !.at = "runas", !.held = @ \ freed])
        ELSE Return(admin, freed)
  IN \/ openToken("admin", "elevation")
     \/ At("elevation") /\ Is("true", {"token"})
     \/ At("elevation") /\ Is("false", {"token"})   \* no SID can be allocated
     \/ At("elevation") /\ Goto([ask EXCEPT !.at = "member", !.held = @ \cup {"group"}])
     \/ At("member") /\ Fails({"token", "group"})
     \/ At("member") /\ \E is \in {"true", "false"} : Is(is, {"token", "group"})

\* the user may decline; the process that is started is waited for if asked
elevateToAdministrator ==
  \/ At("runas") /\ (Throw("SystemError", {}) \/ Fails({}) \/ Return("false", {}) \/ Return("true", {}))
  \/ At("runas") /\ ask.replace /\ Goto([ask EXCEPT !.at = "await", !.held = {"process"}])
  \/ At("await") /\ Return("true", {"process"})

----------------------------------------------------------------------------
(* Other threads and programs, and the next call *)

Meddle ==
  /\ ~At("idle") /\ meddling < MaxMeddling /\ meddling' = meddling + 1
  /\ \/ acl' \in Lists /\ UNCHANGED <<owner, token>>
     \/ owner' \in Sids /\ UNCHANGED <<acl, token>>
     \/ token.has /\ token' = [token EXCEPT !.on = ~@] /\ UNCHANGED <<acl, owner>>
  /\ UNCHANGED <<ask, prior>>

Begin(a) ==
  /\ ask = NoAsk /\ ask' = a
  /\ prior' = [acl |-> acl', owner |-> owner', token |-> token'] /\ meddling' = 0

\* setPermissions(), getPermissions() and checkAccess() do not look at the token,
\* the others not at the list
BeginList(a) == acl' \in Lists /\ owner' \in Sids /\ UNCHANGED token /\ Begin(a)
BeginToken(a) == owner' \in Sids /\ token' \in Tokens /\ UNCHANGED acl /\ Begin(a)
New(op, type, at) == [NoAsk EXCEPT !.op = op, !.type = type, !.at = at]

Call ==
  \/ \E type \in Types :
       \/ BeginList(New("getPermissions", type, "read"))
       \/ \E list \in Requests, all \in BOOLEAN :
            BeginList([New("setPermissions", type, IF all THEN "descriptor" ELSE "read") EXCEPT
                         !.list = list, !.replace = all])
       \/ \E r \in {list[1].rights : list \in Requests} :
            BeginList([New("checkAccess", type, "check") EXCEPT !.rights = r])
  \/ \E list \in Requests : BeginToken([New("setOwner", "File", "owner") EXCEPT !.list = list])
  \/ BeginToken(New("takeOwnership", "File", "take"))
  \/ \E at \in Adjusting : BeginToken(New("adjustPrivilege", "File", at))
  \/ BeginToken(New("isRunningAsAdministrator", "File", "admin"))
  \/ \E wait \in BOOLEAN : BeginToken([New("elevate", "File", "admin") EXCEPT !.replace = wait])

Forget ==
  /\ At("idle") /\ ask # NoAsk
  /\ acl' = <<>> /\ owner' = Me /\ token' = [has |-> FALSE, on |-> FALSE]
  /\ ask' = NoAsk /\ meddling' = 0
  /\ prior' = [acl |-> acl', owner |-> owner', token |-> token']

Step ==
  \/ getSecurityInfo \/ getPermissions \/ newDescriptor \/ sizeAndCopy \/ addEntry \/ setPermissions
  \/ setOwner \/ checkAccess \/ takeOwnership \/ adjustPrivilege
  \/ isRunningAsAdministrator \/ elevateToAdministrator

Next == Call \/ Step \/ Meddle \/ Forget

Spec == Init /\ [][Next]_vars

----------------------------------------------------------------------------
\* Nothing stays open or allocated when a call is over, but for the list that
\* setPermissions() has allocated and a failing conversion makes it forget.
\* (permission_handler_windows.cpp:852-907, :1170-1348, :1406-1409)
NothingHeld ==
  At("idle") /\ ask.held # {} =>
    ask.held = {"dacl"} /\ ask.op = "setPermissions" /\ ask.said = "SecurityError"

Ended(op) == ask.op = op /\ ~At("idle") /\ ask'.at = "idle" /\ meddling = 0
Old == prior.acl
Lasting == {i \in DOMAIN ask.list : ask.list[i].action # "Revoke"}
Readable == {i \in DOMAIN Old : Old[i].type # "audit"}

\* f goes through the numbers of S, from the lowest to the highest
Picks(f, S) ==
  /\ \A i, j \in DOMAIN f : i < j => f[i] < f[j]
  /\ {f[i] : i \in DOMAIN f} = S

\* what getPermissions() will say of an entry covers what was asked for, and on
\* files it is inherited as was asked
Covers(ace, p) ==
  LET told == Told(ace, ask.type)
  IN /\ told.trustee = p.trustee /\ told.action = p.action
     /\ p.rights \cap Named \subseteq told.rights
     /\ ask.type = "File" => told.inheritance = p.inheritance

\* setPermissions() writes the whole list or nothing: those entries asked for that
\* are to last, in this order.  With the old entries to be kept it writes nothing.
ListWritten ==
  IF ask'.said # "ok" THEN acl' = Old
  ELSE /\ ask.replace
       /\ \E f \in [DOMAIN acl' -> Lasting] :
            Picks(f, Lasting) /\ \A i \in DOMAIN f : Covers(acl'[i], ask.list[f[i]])

\* getPermissions() tells the whole list but for the entries it skips.
ListTold ==
  ask'.said = "ok" =>
    \E f \in [DOMAIN ask'.out -> Readable] :
      Picks(f, Readable) /\ \A i \in DOMAIN f : ask'.out[i] = Told(Old[f[i]], ask.type)

\* The access that checkAccess() promises was there when the object was opened, to
\* files and keys; other rights than these three it does not look at.
AccessWasThere ==
  LET asked == ask.rights \cap {"Read", "Write", "Execute"}
  IN ask'.said = "true" /\ ask.type # "Service" =>
       Allows(Old, prior.owner, MapGenericMask(accessRightToAccessMask(asked, ask.type), ask.type))

\* takeOwnership() leaves the privilege disabled when it returns, and the caller
\* is the owner then; when it fails, the privilege may have stayed enabled.
PrivilegeGivenBack ==
  /\ ask'.said = "ok" => owner' = Me /\ ~token'.on
  /\ token'.on => prior.token.on \/ At("disable") \/ At("disabling")

\* What the rights and the token are when a call ends and nobody else has written.
\* (permission_handler_windows.cpp:101-337, :594-937, :985-1234)
RightsStep ==
  /\ Ended("setPermissions") => ListWritten
  /\ Ended("getPermissions") => ListTold
  /\ Ended("checkAccess") => AccessWasThere
  /\ Ended("takeOwnership") => PrivilegeGivenBack
RightsAsAsked == [][RightsStep]_vars

=============================================================================
