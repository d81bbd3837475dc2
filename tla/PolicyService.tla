--------------------------- MODULE PolicyService ---------------------------
(***************************************************************************)
(* What the daemon promises the processes of the mail server that ask it:  *)
(* one that waits gets the whole reply to the request it last made, once,  *)
(* or learns that its connection is lost, and does not wait forever.       *)
(***************************************************************************)
EXTENDS Naturals

CONSTANT Client
VARIABLES
  phase,      \* "idle" or "waiting", for each client
  request,    \* the number of its last request
  reply       \* the request that what it received answers, or 0

vars == <<phase, request, reply>>

Ask(c) ==
  /\ phase[c] = "idle"
  /\ phase' = [phase EXCEPT ![c] = "waiting"]
  /\ request'[c] > request[c] /\ request' = [request EXCEPT ![c] = request'[c]]
  /\ reply' = [reply EXCEPT ![c] = 0]

Answer(c) ==
  /\ phase[c] = "waiting"
  /\ phase' = [phase EXCEPT ![c] = "idle"]
  /\ reply' = [reply EXCEPT ![c] = request[c]]
  /\ UNCHANGED request

Lose(c) ==
  /\ phase[c] = "waiting"
  /\ phase' = [phase EXCEPT ![c] = "idle"]
  /\ UNCHANGED <<request, reply>>

Init ==
  /\ phase = [c \in Client |-> "idle"]
  /\ request = [c \in Client |-> 0] /\ reply = [c \in Client |-> 0]

Next == \E c \in Client : Ask(c) \/ Answer(c) \/ Lose(c)
Fairness == \A c \in Client : WF_vars(Answer(c) \/ Lose(c))
Safety == Init /\ [][Next]_vars
Spec == Safety /\ Fairness
=============================================================================
