----------------------------- MODULE MessageChannel -----------------------------
(***************************************************************************)
(* What becomes of the messages given to NamedPipeServer::write(), with no *)
(* pipes, handlers or completions in sight.  They are numbered in the      *)
(* order of the write() calls and put on the wire one at a time, none left *)
(* out and none twice.  The first one that is not written, or cannot be    *)
(* put on the wire when its turn comes, is the last: the channel is stuck. *)
(* PipeServer implements it.                                               *)
(***************************************************************************)
EXTENDS Naturals, Sequences

VARIABLES
  stopped,
  stuck,      \* a message is left that will never be put on the wire
  posted,     \* how many messages write() has accepted
  submitted,  \* the messages put on the wire, in order
  underway    \* the last of them, until its writer has heard what became of it

vars == <<stopped, stuck, posted, submitted, underway>>

Last(s) == [msg |-> Len(submitted), is |-> s]

Init ==
  /\ stopped = FALSE
  /\ stuck = FALSE
  /\ posted = 0
  /\ submitted = <<>>
  /\ underway = {}

Post ==
  /\ ~stopped
  /\ posted' = posted + 1
  /\ UNCHANGED <<stopped, stuck, submitted, underway>>

\* The next message follows when the one before is known to be written. It may
\* be lost at once.
Submit ==
  /\ ~stopped
  /\ ~stuck
  /\ Len(submitted) < posted
  /\ underway \in {{}, {Last("written")}}
  /\ submitted' = Append(submitted, Len(submitted) + 1)
  /\ \E s \in {"open", "lost"} : underway' = {Last(s)'}
  /\ UNCHANGED <<stopped, stuck, posted>>

Complete ==
  /\ underway = {Last("open")}
  /\ \E s \in {"written", "lost"} : underway' = {Last(s)}
  /\ UNCHANGED <<stopped, stuck, posted, submitted>>

\* What was lost is not sent again, and holds up all that comes after it.
Settle ==
  /\ \/ underway = {Last("written")} /\ (stuck' => Len(submitted) < posted)
     \/ underway = {Last("lost")} /\ stuck'
  /\ stuck' \in BOOLEAN
  /\ underway' = {}
  /\ UNCHANGED <<stopped, posted, submitted>>

\* Nothing is on the wire and the next message cannot be put there.
Stick ==
  /\ underway = {}
  /\ Len(submitted) < posted
  /\ stuck' = TRUE
  /\ UNCHANGED <<stopped, posted, submitted, underway>>

Stop ==
  /\ ~stopped
  /\ stopped' = TRUE
  /\ UNCHANGED <<stuck, posted, submitted, underway>>

Next == Post \/ Submit \/ Complete \/ Settle \/ Stick \/ Stop

Spec == Init /\ [][Next]_vars
===============================================================================
