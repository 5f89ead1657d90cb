------------------------------ MODULE Session -------------------------------
(***************************************************************************)
(* What the driver promises the user of an open file, whatever the rings,  *)
(* the interrupt handler and the other sessions do: a command is numbered, *)
(* then accepted or given up; an accepted one completes once, in any       *)
(* order; its completion is put in the ring of the session that submitted  *)
(* it, is read from there in order and at most once, and is lost only if   *)
(* the ring overflows or the reader's memory faults; a file is gone only   *)
(* when nothing it submitted is outstanding.  CmdPath implements it.       *)
(***************************************************************************)
EXTENDS Integers, Sequences

CONSTANTS Sessions, RingSize

VARIABLES
  life,        \* closed | open | releasing | freed
  last,        \* the number given last
  waiting,     \* commands numbered and not yet accepted, of each session
  outstanding, \* commands accepted and not yet complete
  ring,        \* completions to be read, oldest first
  reaped       \* completions read

vars == <<life, last, waiting, outstanding, ring, reaped>>

Init ==
  /\ life = [s \in Sessions |-> "closed"]
  /\ last = 1
  /\ waiting = [s \in Sessions |-> {}]
  /\ outstanding = [s \in Sessions |-> {}]
  /\ ring = [s \in Sessions |-> <<>>]
  /\ reaped = [s \in Sessions |-> {}]

Open(s) ==
  /\ life[s] = "closed" /\ life' = [life EXCEPT ![s] = "open"]
  /\ UNCHANGED <<last, waiting, outstanding, ring, reaped>>

Close(s) ==
  /\ life[s] = "open" /\ life' = [life EXCEPT ![s] = "releasing"]
  /\ waiting[s] = {}
  /\ UNCHANGED <<last, waiting, outstanding, ring, reaped>>

Free(s) ==
  /\ life[s] = "releasing" /\ life' = [life EXCEPT ![s] = "freed"]
  /\ outstanding[s] = {}
  /\ UNCHANGED <<last, waiting, outstanding, ring, reaped>>

Number(s) ==
  /\ life[s] = "open"
  /\ last' = last + 1
  /\ waiting' = [waiting EXCEPT ![s] = @ \cup {last + 1}]
  /\ UNCHANGED <<life, outstanding, ring, reaped>>

GiveUp(s, c) ==
  /\ c \in waiting[s]
  /\ waiting' = [waiting EXCEPT ![s] = @ \ {c}]
  /\ UNCHANGED <<life, last, outstanding, ring, reaped>>

Accept(s, c) ==
  /\ life[s] = "open"
  /\ c \in waiting[s]
  /\ waiting' = [waiting EXCEPT ![s] = @ \ {c}]
  /\ outstanding' = [outstanding EXCEPT ![s] = @ \cup {c}]
  /\ UNCHANGED <<life, last, ring, reaped>>

(* A full ring loses its oldest entry.                                     *)
Finish(s, c) ==
  /\ life[s] \in {"open", "releasing"}
  /\ c \in outstanding[s]
  /\ outstanding' = [outstanding EXCEPT ![s] = @ \ {c}]
  /\ ring' = [ring EXCEPT ![s] = Append(IF Len(@) >= RingSize THEN Tail(@) ELSE @, c)]
  /\ UNCHANGED <<life, last, waiting, reaped>>

Read(s) ==
  /\ life[s] = "open"
  /\ ring[s] # <<>>
  /\ ring' = [ring EXCEPT ![s] = Tail(@)]
  /\ reaped' = [reaped EXCEPT ![s] = @ \cup {Head(ring[s])}]
  /\ UNCHANGED <<life, last, waiting, outstanding>>

ReadFault(s) ==
  /\ life[s] = "open"
  /\ ring[s] # <<>>
  /\ ring' = [ring EXCEPT ![s] = Tail(@)]
  /\ UNCHANGED <<life, last, waiting, outstanding, reaped>>

Next ==
  \E s \in Sessions :
    \/ Open(s) \/ Close(s) \/ Free(s) \/ Number(s) \/ Read(s) \/ ReadFault(s)
    \/ \E c \in waiting[s] : Accept(s, c) \/ GiveUp(s, c)
    \/ \E c \in outstanding[s] : Finish(s, c)

Spec == Init /\ [][Next]_vars
=============================================================================
