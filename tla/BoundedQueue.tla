---------------------------- MODULE BoundedQueue ----------------------------
(***************************************************************************)
(* What a bounded queue shared by threads promises: an item that is put is *)
(* behind those put before it, there is room for Capacity of them, and an  *)
(* item is taken from the front, whole, by one thread.  A call may also    *)
(* give up and change nothing.  Mpmc implements it.                        *)
(***************************************************************************)
EXTENDS Integers, Sequences

CONSTANTS Threads, Items, Capacity, NoItem

VARIABLES
  queue,  \* oldest first
  hand    \* what each thread has taken and not yet made use of

vars == <<queue, hand>>

Init == queue = <<>> /\ hand = [t \in Threads |-> NoItem]

Put(x) ==
  /\ Len(queue) < Capacity
  /\ queue' = Append(queue, x)
  /\ UNCHANGED hand

Take(t) ==
  /\ queue # <<>> /\ hand[t] = NoItem
  /\ hand' = [hand EXCEPT ![t] = Head(queue)]
  /\ queue' = Tail(queue)

Use(t) ==
  /\ hand[t] # NoItem
  /\ hand' = [hand EXCEPT ![t] = NoItem]
  /\ UNCHANGED queue

Next == (\E x \in Items : Put(x)) \/ \E t \in Threads : Take(t) \/ Use(t)

Spec == Init /\ [][Next]_vars
=============================================================================
