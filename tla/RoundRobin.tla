----------------------------- MODULE RoundRobin -----------------------------
(***************************************************************************)
(* What a round-robin dispatcher promises: each client has a queue, and in *)
(* a round the next request is the oldest one of the next client, in       *)
(* cyclic order, that has any.  A round ends when nothing is left, or when *)
(* a dispatch fails, and the request that failed is gone.                  *)
(* Scheduler (Track B) and StreamScheduler (Track C) implement it.         *)
(***************************************************************************)
EXTENDS Integers, Sequences

CONSTANTS
  N,        \* clients are 1..N
  Requests

VARIABLES
  queue,    \* the requests of each client, oldest first
  active,   \* a round is running
  last,     \* the client served last in this round (0: none yet)
  out       \* the set of requests dispatched, with their clients

vars == <<queue, active, last, out>>

Clients == 1..N

Init ==
  /\ queue = [i \in Clients |-> <<>>]
  /\ active = FALSE
  /\ last = 0
  /\ out = {}

Enqueue(i, r) ==
  /\ queue' = [queue EXCEPT ![i] = Append(@, r)]
  /\ UNCHANGED <<active, last, out>>

Begin ==
  /\ ~ active
  /\ active' = TRUE /\ last' = 0
  /\ UNCHANGED <<queue, out>>

(* i follows last, and the clients passed over on the way have nothing.    *)
IsTurn(i) ==
  /\ active /\ queue[i] # <<>>
  /\ \A j \in Clients :
       (IF i > last THEN last < j /\ j < i ELSE j > last \/ j < i) => queue[j] = <<>>

Serve(i) ==
  /\ IsTurn(i)
  /\ queue' = [queue EXCEPT ![i] = Tail(@)]
  /\ out' = out \cup {<<i, Head(queue[i])>>}
  /\ last' = i
  /\ UNCHANGED active

Fail(i) ==
  /\ IsTurn(i)
  /\ queue' = [queue EXCEPT ![i] = Tail(@)]
  /\ active' = FALSE /\ last' = 0
  /\ UNCHANGED out

End ==
  /\ active
  /\ \A i \in Clients : queue[i] = <<>>
  /\ active' = FALSE /\ last' = 0
  /\ UNCHANGED <<queue, out>>

Next ==
  \/ Begin \/ End
  \/ \E i \in Clients : Serve(i) \/ Fail(i) \/ \E r \in Requests : Enqueue(i, r)

Spec == Init /\ [][Next]_vars
=============================================================================
