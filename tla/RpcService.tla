------------------------------ MODULE RpcService ------------------------------
(***************************************************************************)
(* What SauriApplication promises its clients about rpc-request messages,  *)
(* with no threads in sight: requests are served in the order they were    *)
(* received, each at most once, and each gets at most one response, whose  *)
(* code is payload_invalid exactly when the payload could not be parsed.   *)
(* WorkerPool implements it.                                               *)
(***************************************************************************)
EXTENDS Naturals, Sequences

CONSTANTS Requests, Malformed, Codes, NoCode

VARIABLES
  received,    \* the requests the service has taken on
  queue,       \* those it has not begun to serve, oldest first
  inService,   \* those being served
  response     \* per request, the response built for it

vars == <<received, queue, inService, response>>

Init ==
  /\ received = {}
  /\ queue = <<>>
  /\ inService = {}
  /\ response = [r \in Requests |-> [code |-> NoCode, sent |-> FALSE]]

Receive(r) ==
  /\ r \notin received
  /\ received' = received \cup {r}
  /\ queue' = Append(queue, r)
  /\ UNCHANGED <<inService, response>>

Begin ==
  /\ queue # <<>>
  /\ inService' = inService \cup {Head(queue)}
  /\ queue' = Tail(queue)
  /\ UNCHANGED <<received, response>>

\* The response is sent when a client is connected and dropped otherwise.
Respond(r, c, s) ==
  /\ r \in inService
  /\ response[r].code = NoCode
  /\ (c = "payload_invalid") <=> (r \in Malformed)
  /\ response' = [response EXCEPT ![r] = [code |-> c, sent |-> s]]
  /\ inService' = inService \ {r}
  /\ UNCHANGED <<received, queue>>

Next ==
  \/ \E r \in Requests : Receive(r)
  \/ Begin
  \/ \E r \in Requests, c \in Codes, s \in BOOLEAN : Respond(r, c, s)

Spec == Init /\ [][Next]_vars
===============================================================================
