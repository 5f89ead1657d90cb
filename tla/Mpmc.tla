-------------------------------- MODULE Mpmc --------------------------------
(***************************************************************************)
(* The lock-free queue of kctl and the thread pool built on it.            *)
(* Sources: src/track-c/third_party/kctl/kctl/mpmc_bounded_queue.hpp,      *)
(* thread_pool_mpmc.hpp.                                                   *)
(*                                                                         *)
(* Each access to a shared atomic is a step, and so is each move of an     *)
(* item into or out of a cell.  Memory is sequentially consistent.         *)
(* Clients submit from outside; a task may submit another.  The pool is    *)
(* destroyed when no client is inside it, as for any C++ object.           *)
(***************************************************************************)
EXTENDS Integers, Sequences, FiniteSets

CONSTANTS
  Workers,  \* the pool's threads
  Clients,  \* threads that call submit()
  Capacity, \* capacity_
  MaxTasks  \* bound: tasks submitted

(* The constructor asserts a power of two.  It lets 1 pass, with which a   *)
(* cell just filled looks free to the next push; see README.md.            *)
ASSUME MpmcAssumption ==
  /\ Capacity \in Nat \ {0, 1} /\ \E k \in 1..Capacity : Capacity = 2^k
  /\ MaxTasks \in Nat

Threads == Workers \cup Clients
Tasks == 1..MaxTasks
NoTask == 0
Cells == 0..Capacity - 1

VARIABLES
  enqueue_pos, dequeue_pos,
  sequence, data, \* of each cell
  pc,        \* where each thread is; a client outside submit() is idle
  pos,       \* its local pos
  item,      \* the task it pushes, or has popped
  stopping,
  completed,
  draining,  \* workers that have left their first loop
  made,      \* tasks submitted so far; a task is its number
  accepted,  \* tasks whose submit() returned true
  ran        \* how often each task was executed

queueVars == <<enqueue_pos, dequeue_pos, sequence, data>>
poolVars == <<stopping, completed, draining>>
taskVars == <<made, accepted, ran>>
vars == <<queueVars, pc, pos, item, poolVars, taskVars>>

Init ==
  /\ enqueue_pos = 0 /\ dequeue_pos = 0
  /\ sequence = [i \in Cells |-> i] /\ data = [i \in Cells |-> NoTask]
  /\ pc = [t \in Threads |-> IF t \in Workers THEN "loop" ELSE "idle"]
  /\ pos = [t \in Threads |-> 0] /\ item = [t \in Threads |-> NoTask]
  /\ stopping = FALSE /\ completed = 0 /\ draining = {}
  /\ made = 0 /\ accepted = {} /\ ran = [x \in Tasks |-> 0]

Goto(t, from, to) == pc[t] = from /\ pc' = [pc EXCEPT ![t] = to]

Cell(t) == pos[t] % Capacity

-----------------------------------------------------------------------------
(* try_push()                                                              *)

PushLoad(t) ==
  /\ Goto(t, "push_load", "push_seq")
  /\ pos' = [pos EXCEPT ![t] = enqueue_pos]
  /\ UNCHANGED <<queueVars, item, poolVars, taskVars>>

(* submit() ends: for a worker it was part of a task.                      *)
PushReturns(t, from) ==
  /\ Goto(t, from, IF t \in Workers THEN "count" ELSE "idle")
  /\ pos' = [pos EXCEPT ![t] = 0] /\ item' = [item EXCEPT ![t] = NoTask]

(* The sign of sequence - pos: free, a lap behind (full), or taken.        *)
PushSeq(t) ==
  LET diff == sequence[Cell(t)] - pos[t]
  IN /\ \/ diff = 0 /\ Goto(t, "push_seq", "push_cas") /\ UNCHANGED <<pos, item>>
        \/ diff < 0 /\ PushReturns(t, "push_seq")
        \/ diff > 0 /\ Goto(t, "push_seq", "push_load") /\ UNCHANGED <<pos, item>>
     /\ UNCHANGED <<queueVars, poolVars, taskVars>>

(* Mutant: the position is stored, whoever may have claimed it meanwhile.  *)
PushCasStore(t) ==
  /\ Goto(t, "push_cas", "push_write")
  /\ enqueue_pos' = pos[t] + 1
  /\ UNCHANGED <<dequeue_pos, sequence, data, pos, item, poolVars, taskVars>>

PushCas(t) ==
  /\ pos[t] = enqueue_pos
  /\ Goto(t, "push_cas", "push_write")
  /\ enqueue_pos' = pos[t] + 1
  /\ UNCHANGED <<dequeue_pos, sequence, data, pos, item, poolVars, taskVars>>

(* The weak exchange fails, with or without a cause, and loads pos.        *)
PushCasFails(t) ==
  /\ Goto(t, "push_cas", "push_seq")
  /\ pos' = [pos EXCEPT ![t] = enqueue_pos]
  /\ UNCHANGED <<queueVars, item, poolVars, taskVars>>

PushWrite(t) ==
  /\ Goto(t, "push_write", "push_store")
  /\ data' = [data EXCEPT ![Cell(t)] = item[t]]
  /\ UNCHANGED <<enqueue_pos, dequeue_pos, sequence, pos, item, poolVars, taskVars>>

PushStore(t) ==
  /\ PushReturns(t, "push_store")
  /\ sequence' = [sequence EXCEPT ![Cell(t)] = pos[t] + 1]
  /\ accepted' = accepted \cup {item[t]}
  /\ UNCHANGED <<enqueue_pos, dequeue_pos, data, poolVars, made, ran>>

-----------------------------------------------------------------------------
(* try_pop()                                                               *)

PopLoad(t) ==
  /\ Goto(t, "pop_load", "pop_seq")
  /\ pos' = [pos EXCEPT ![t] = dequeue_pos]
  /\ UNCHANGED <<queueVars, item, poolVars, taskVars>>

(* Nothing popped: the worker yields and looks at stopping_ again, or is   *)
(* done.                                                                   *)
PopFails(t) ==
  /\ Goto(t, "pop_seq", IF t \in draining THEN "exit" ELSE "loop")
  /\ pos' = [pos EXCEPT ![t] = 0]

(* Mutant: pos is not loaded again when another worker was faster.         *)
PopSeqStale(t) ==
  LET diff == sequence[Cell(t)] - (pos[t] + 1)
  IN /\ \/ diff = 0 /\ Goto(t, "pop_seq", "pop_cas") /\ UNCHANGED pos
        \/ diff < 0 /\ PopFails(t)
        \/ diff > 0 /\ Goto(t, "pop_seq", "pop_seq") /\ UNCHANGED pos
     /\ UNCHANGED <<queueVars, item, poolVars, taskVars>>

PopSeq(t) ==
  LET diff == sequence[Cell(t)] - (pos[t] + 1)
  IN /\ \/ diff = 0 /\ Goto(t, "pop_seq", "pop_cas") /\ UNCHANGED pos
        \/ diff < 0 /\ PopFails(t)
        \/ diff > 0 /\ Goto(t, "pop_seq", "pop_load") /\ UNCHANGED pos
     /\ UNCHANGED <<queueVars, item, poolVars, taskVars>>

PopCas(t) ==
  /\ pos[t] = dequeue_pos
  /\ Goto(t, "pop_cas", "pop_read")
  /\ dequeue_pos' = pos[t] + 1
  /\ UNCHANGED <<enqueue_pos, sequence, data, pos, item, poolVars, taskVars>>

PopCasFails(t) ==
  /\ Goto(t, "pop_cas", "pop_seq")
  /\ pos' = [pos EXCEPT ![t] = dequeue_pos]
  /\ UNCHANGED <<queueVars, item, poolVars, taskVars>>

PopRead(t) ==
  /\ Goto(t, "pop_read", "pop_store")
  /\ item' = [item EXCEPT ![t] = data[Cell(t)]]
  /\ data' = [data EXCEPT ![Cell(t)] = NoTask]
  /\ UNCHANGED <<enqueue_pos, dequeue_pos, sequence, pos, poolVars, taskVars>>

PopStore(t) ==
  /\ Goto(t, "pop_store", "run")
  /\ sequence' = [sequence EXCEPT ![Cell(t)] = pos[t] + Capacity]
  /\ pos' = [pos EXCEPT ![t] = 0]
  /\ UNCHANGED <<enqueue_pos, dequeue_pos, data, item, poolVars, taskVars>>

-----------------------------------------------------------------------------
(* ThreadPoolMpmc                                                          *)

Submit(c) ==
  /\ Goto(c, "idle", "push_load")
  /\ ~ stopping /\ made < MaxTasks
  /\ made' = made + 1
  /\ item' = [item EXCEPT ![c] = made + 1]
  /\ UNCHANGED <<queueVars, pos, poolVars, accepted, ran>>

(* Mutant: a worker told to stop leaves at once.                           *)
WorkerLoopExits(w) ==
  /\ Goto(w, "loop", IF stopping THEN "exit" ELSE "pop_load")
  /\ UNCHANGED <<queueVars, pos, item, poolVars, taskVars>>

WorkerLoop(w) ==
  /\ Goto(w, "loop", "pop_load")
  /\ draining' = IF stopping THEN draining \cup {w} ELSE draining
  /\ UNCHANGED <<queueVars, pos, item, stopping, completed, taskVars>>

(* task() may itself call submit().                                        *)
RunTask(w) ==
  /\ pc[w] = "run"
  /\ ran' = [ran EXCEPT ![item[w]] = @ + 1]
  /\ \/ /\ Goto(w, "run", "count")
        /\ item' = [item EXCEPT ![w] = NoTask]
        /\ UNCHANGED made
     \/ /\ made < MaxTasks
        /\ Goto(w, "run", "push_load")
        /\ made' = made + 1
        /\ item' = [item EXCEPT ![w] = made + 1]
  /\ UNCHANGED <<queueVars, pos, poolVars, accepted>>

CountTask(w) ==
  /\ Goto(w, "count", IF w \in draining THEN "pop_load" ELSE "loop")
  /\ completed' = completed + 1
  /\ UNCHANGED <<queueVars, pos, item, stopping, draining, taskVars>>

(* ~ThreadPoolMpmc() sets stopping_ and joins the workers.                 *)
Stop ==
  /\ ~ stopping /\ \A c \in Clients : pc[c] = "idle"
  /\ stopping' = TRUE
  /\ UNCHANGED <<queueVars, pc, pos, item, completed, draining, taskVars>>

-----------------------------------------------------------------------------
Push(t) ==
  \/ PushLoad(t) \/ PushSeq(t) \/ PushCas(t) \/ PushCasFails(t) \/ PushWrite(t) \/ PushStore(t)

Pop(t) ==
  \/ PopLoad(t) \/ PopSeq(t) \/ PopCas(t) \/ PopCasFails(t) \/ PopRead(t) \/ PopStore(t)

Work(w) == Push(w) \/ Pop(w) \/ WorkerLoop(w) \/ RunTask(w) \/ CountTask(w)

Next ==
  \/ \E w \in Workers : Work(w)
  \/ \E c \in Clients : Submit(c) \/ Push(c)
  \/ Stop

Spec == Init /\ [][Next]_vars

(* Threads inside the pool run, and a weak exchange does not fail for ever *)
(* without a cause.                                                        *)
FairSpec ==
  /\ Spec
  /\ \A w \in Workers : WF_vars(Work(w)) /\ SF_vars(PushCas(w)) /\ SF_vars(PopCas(w))
  /\ \A c \in Clients : WF_vars(Push(c)) /\ SF_vars(PushCas(c))

-----------------------------------------------------------------------------
(* Properties                                                              *)

(* The item at a position that has been claimed and not popped: in its     *)
(* cell, or about to be moved there.                                       *)
ItemAt(p) ==
  LET writers == {t \in Threads : pc[t] = "push_write" /\ pos[t] = p}
  IN IF writers = {} THEN data[p % Capacity] ELSE item[CHOOSE t \in writers : TRUE]

Hand(t) ==
  CASE pc[t] = "pop_read" -> data[Cell(t)]
    [] pc[t] \in {"pop_store", "run"} -> item[t]
    [] OTHER -> NoTask

Abstract == INSTANCE BoundedQueue WITH
  Items <- Tasks, NoItem <- NoTask,
  queue <- [i \in 1..enqueue_pos - dequeue_pos |-> ItemAt(dequeue_pos + i - 1)],
  hand <- [t \in Threads |-> Hand(t)]

(* The queue is a bounded FIFO queue: with any number of threads inside    *)
(* try_push() and try_pop(), an item is queued when enqueue_pos_ is        *)
(* claimed and dequeued when dequeue_pos_ is, no unread item is            *)
(* overwritten and a consumer reads the item of its own position.          *)
QueueContract == Abstract!Spec

Joined == \A w \in Workers : pc[w] = "exit"

(* "Drain remaining tasks so a stop() during heavy load doesn't silently   *)
(* discard work that was already accepted": no task runs twice, and when   *)
(* the destructor has joined the workers, every task that submit()         *)
(* accepted, also from inside a task, has run and been counted.            *)
AcceptedRun ==
  /\ \A x \in Tasks : ran[x] <= 1
  /\ Joined => (\A x \in accepted : ran[x] = 1) /\ completed = Cardinality(accepted)

(* The destructor returns.                                                 *)
PoolStops == stopping ~> Joined
=============================================================================
