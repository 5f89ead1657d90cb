------------------------------ MODULE Workload ------------------------------
(***************************************************************************)
(* The Track C helpers a client thread puts together: BufferPool lends     *)
(* buffers, CommandBatch and StreamScheduler submit commands that use      *)
(* them, StreamObserver and CommandGroup tell when they are done, and then *)
(* the buffers go back.                                                    *)
(* Sources: src/track-c/runtime/dma_accel_buffer_pool.cpp,                 *)
(* dma_accel_command_batch.cpp, dma_accel_stream_scheduler.cpp,            *)
(* dma_accel_stream_observer.cpp.                                          *)
(*                                                                         *)
(* The pool and the batches are bound to stream 1; commands on the other   *)
(* streams use buffers of their own.  One pooled operand stands for those  *)
(* of a command: the rule is the same for each.  Stream has the detail of  *)
(* submission, Dependency that of a CommandGroup's answers.  A command     *)
(* completes at any time.                                                  *)
(*                                                                         *)
(* The client keeps the rule the pool states: it returns a buffer when it  *)
(* has been told that every command it knows of that uses it is done, and  *)
(* nothing it may still submit names it.                                   *)
(***************************************************************************)
EXTENDS Integers, Sequences, FiniteSets, Functions

CONSTANTS
  PoolSize,  \* buffers of the pool
  Handles,   \* PooledBuffer variables of the client
  Batches,   \* CommandBatch variables of the client
  NStreams,  \* streams registered with the StreamScheduler
  MaxMade,   \* bound: commands the client appends to a batch or enqueues
  MaxCmds    \* bound: those and the ones closures enqueue

ASSUME WorkloadAssumption ==
  /\ PoolSize \in Nat /\ NStreams \in Nat \ {0}
  /\ MaxMade \in Nat /\ MaxCmds \in Nat /\ MaxMade <= MaxCmds

Buffers == 1..PoolSize
Streams == 1..NStreams
Cmds == 1..MaxCmds

VARIABLES
  free,      \* BufferPool::free_list_
  held,      \* the buffer of each PooledBuffer (0: none)
  cmds,      \* CommandBatch::commands_
  frozen, submitted,  \* CommandBatch::frozen_ and submitted_
  made,      \* commands appended or enqueued so far; a command is its number
  uses,      \* the pooled buffer a command uses (0: none)
  queues,    \* StreamScheduler::queues_
  active,    \* run() is running
  pos,       \* run(): the loop variable i
  progressed,\* run(): its flag
  last,      \* run(): the stream served last, for the properties
  results,   \* run(): the fences it has collected
  sent,      \* how often each command was dispatched
  out,       \* the set of those dispatched by run(), with their streams
  state,     \* of each command: new, busy, done
  fences     \* commands whose Fence the client has

poolVars == <<free, held>>
batchVars == <<cmds, frozen, submitted>>
makeVars == <<made, uses>>
runVars == <<active, pos, progressed, last, results>>
cmdVars == <<sent, out, state>>
vars == <<poolVars, batchVars, makeVars, queues, runVars, cmdVars, fences>>

(* free_list_ after the constructor.                                       *)
Init ==
  /\ free = [k \in Buffers |-> k]
  /\ held = [h \in Handles |-> 0]
  /\ cmds = [b \in Batches |-> <<>>]
  /\ frozen = [b \in Batches |-> FALSE] /\ submitted = [b \in Batches |-> FALSE]
  /\ made = 0 /\ uses = [c \in Cmds |-> 0]
  /\ queues = [s \in Streams |-> <<>>]
  /\ active = FALSE /\ pos = 0
  /\ progressed = FALSE /\ last = 0 /\ results = {}
  /\ sent = [c \in Cmds |-> 0] /\ out = {} /\ state = [c \in Cmds |-> "new"]
  /\ fences = {}

-----------------------------------------------------------------------------
(* StreamObserver                                                          *)

(* Mutant: any completion that pump() finds counts.                        *)
QueryAny(c) == \E d \in Cmds : state[d] = "done"

(* query() pumps the stream and answers Completed if the fence is ready;   *)
(* wait() returns Completed when query() would.                            *)
Query(c) == state[c] = "done"

-----------------------------------------------------------------------------
(* BufferPool and PooledBuffer                                             *)

(* Commands that a later call may still submit.                            *)
Waiting ==
  (UNION {Range(cmds[b]) : b \in {d \in Batches : ~ submitted[d]}})
    \cup (UNION {Range(queues[s]) : s \in Streams})

(* The client has waited for the commands it knows of.                     *)
MayReturn(k) ==
  /\ \A c \in Waiting : uses[c] # k
  /\ \A c \in fences : uses[c] = k => Query(c)

(* release_if_held() of a handle that holds k.                             *)
Released(k) == IF k = 0 THEN free ELSE Append(free, k)

Acquire(h) ==
  /\ ~ active
  /\ held[h] = 0 /\ free # <<>>
  /\ held' = [held EXCEPT ![h] = free[Len(free)]]
  /\ free' = SubSeq(free, 1, Len(free) - 1)
  /\ UNCHANGED <<batchVars, makeVars, queues, runVars, cmdVars, fences>>

Drop(h) ==
  /\ ~ active
  /\ held[h] # 0 /\ MayReturn(held[h])
  /\ free' = Released(held[h])
  /\ held' = [held EXCEPT ![h] = 0]
  /\ UNCHANGED <<batchVars, makeVars, queues, runVars, cmdVars, fences>>

(* Mutant: the handle moved from keeps its pointers.                       *)
MoveHandleKeeps(h, g) ==
  /\ ~ active
  /\ h # g /\ held[g] # 0
  /\ held[h] # 0 => MayReturn(held[h])
  /\ free' = Released(held[h])
  /\ held' = [held EXCEPT ![h] = held[g]]
  /\ UNCHANGED <<batchVars, makeVars, queues, runVars, cmdVars, fences>>

(* Construction (h holds nothing) or assignment from another handle.       *)
MoveHandle(h, g) ==
  /\ ~ active
  /\ h # g /\ held[g] # 0
  /\ held[h] # 0 => MayReturn(held[h])
  /\ free' = Released(held[h])
  /\ held' = [held EXCEPT ![h] = held[g], ![g] = 0]
  /\ UNCHANGED <<batchVars, makeVars, queues, runVars, cmdVars, fences>>

-----------------------------------------------------------------------------
(* CommandBatch                                                            *)

(* A new command, which uses a buffer the client holds, or none.           *)
NewCommand(k, max) ==
  /\ made < max
  /\ k \in Range(held) \cup {0}
  /\ made' = made + 1
  /\ uses' = [uses EXCEPT ![made + 1] = k]

AppendCommand(b, k) ==
  /\ ~ active
  /\ ~ frozen[b] /\ k # 0
  /\ NewCommand(k, MaxMade)
  /\ cmds' = [cmds EXCEPT ![b] = Append(@, made + 1)]
  /\ UNCHANGED <<poolVars, frozen, submitted, queues, runVars, cmdVars, fences>>

Freeze(b) ==
  /\ ~ active
  /\ ~ frozen[b]
  /\ frozen' = [frozen EXCEPT ![b] = TRUE]
  /\ UNCHANGED <<poolVars, cmds, submitted, makeVars, queues, runVars, cmdVars, fences>>

(* The defaulted moves take commands_ and copy the flags; a batch that is  *)
(* constructed anew is open and empty.                                     *)
MoveBatch(b, d) ==
  /\ ~ active
  /\ b # d
  /\ cmds' = [cmds EXCEPT ![b] = cmds[d], ![d] = <<>>]
  /\ frozen' = [frozen EXCEPT ![b] = frozen[d]]
  /\ submitted' = [submitted EXCEPT ![b] = submitted[d]]
  /\ UNCHANGED <<poolVars, makeVars, queues, runVars, cmdVars, fences>>

NewBatch(b) ==
  /\ ~ active
  /\ cmds' = [cmds EXCEPT ![b] = <<>>]
  /\ frozen' = [frozen EXCEPT ![b] = FALSE] /\ submitted' = [submitted EXCEPT ![b] = FALSE]
  /\ UNCHANGED <<poolVars, makeVars, queues, runVars, cmdVars, fences>>

(* Mutant: submitted_ is set after the loop.                               *)
SubmitBatchLate(b, n) ==
  /\ ~ active
  /\ frozen[b] /\ ~ submitted[b]
  /\ n <= Len(cmds[b])
  /\ submitted' = [submitted EXCEPT ![b] = (n = Len(cmds[b]))]
  /\ sent' = [c \in Cmds |-> IF c \in Range(SubSeq(cmds[b], 1, n)) THEN sent[c] + 1 ELSE sent[c]]
  /\ state' = [c \in Cmds |-> IF c \in Range(SubSeq(cmds[b], 1, n)) THEN "busy" ELSE state[c]]
  /\ fences' = IF n = Len(cmds[b]) THEN fences \cup Range(cmds[b]) ELSE fences
  /\ UNCHANGED <<poolVars, cmds, frozen, makeVars, queues, runVars, out>>

(* submitted_ is set, then the first n commands are submitted.  With all   *)
(* of them in, the sealed group goes to the client; or the next one        *)
(* throws, and the group is destroyed with the fences in it.               *)
SubmitBatch(b, n) ==
  /\ ~ active
  /\ frozen[b] /\ ~ submitted[b]
  /\ n <= Len(cmds[b])
  /\ submitted' = [submitted EXCEPT ![b] = TRUE]
  /\ sent' = [c \in Cmds |-> IF c \in Range(SubSeq(cmds[b], 1, n)) THEN sent[c] + 1 ELSE sent[c]]
  /\ state' = [c \in Cmds |-> IF c \in Range(SubSeq(cmds[b], 1, n)) THEN "busy" ELSE state[c]]
  /\ fences' = IF n = Len(cmds[b]) THEN fences \cup Range(cmds[b]) ELSE fences
  /\ UNCHANGED <<poolVars, cmds, frozen, makeVars, queues, runVars, out>>

-----------------------------------------------------------------------------
(* StreamScheduler                                                         *)

Enqueue(s, k) ==
  /\ ~ active
  /\ (k = 0) = (s # 1)
  /\ NewCommand(k, MaxMade)
  /\ queues' = [queues EXCEPT ![s] = Append(@, made + 1)]
  /\ UNCHANGED <<poolVars, batchVars, runVars, cmdVars, fences>>

Run ==
  /\ ~ active
  /\ active' = TRUE /\ pos' = 1 /\ progressed' = FALSE /\ last' = 0 /\ results' = {}
  /\ UNCHANGED <<poolVars, batchVars, makeVars, queues, cmdVars, fences>>

RunSkips ==
  /\ active /\ pos <= NStreams
  /\ queues[pos] = <<>>
  /\ pos' = pos + 1
  /\ UNCHANGED <<poolVars, batchVars, makeVars, queues, active, progressed, last, results, cmdVars, fences>>

Return == active' = FALSE /\ pos' = 0 /\ progressed' = FALSE /\ last' = 0 /\ results' = {}

Popped == [queues EXCEPT ![pos] = Tail(@)]

RunSends ==
  /\ active /\ pos <= NStreams
  /\ queues[pos] # <<>>
  /\ queues' = Popped
  /\ sent' = [sent EXCEPT ![Head(queues[pos])] = @ + 1]
  /\ state' = [state EXCEPT ![Head(queues[pos])] = "busy"]
  /\ results' = results \cup {Head(queues[pos])}
  /\ out' = out \cup {<<pos, Head(queues[pos])>>}
  /\ pos' = pos + 1 /\ progressed' = TRUE /\ last' = pos
  /\ UNCHANGED <<poolVars, batchVars, makeVars, active, fences>>

(* The closure just run may have enqueued more, on any stream.             *)
RunEnqueues(s) ==
  /\ active /\ progressed /\ pos = last + 1
  /\ NewCommand(0, MaxCmds)
  /\ queues' = [queues EXCEPT ![s] = Append(@, made + 1)]
  /\ UNCHANGED <<poolVars, batchVars, runVars, cmdVars, fences>>

(* The closure throws: it is off its queue, and the results are destroyed. *)
RunThrows ==
  /\ active /\ pos <= NStreams
  /\ queues[pos] # <<>>
  /\ queues' = Popped
  /\ Return
  /\ UNCHANGED <<poolVars, batchVars, makeVars, cmdVars, fences>>

(* Mutant: a pass that submits something ends the run.                     *)
RunPassEndsEarly ==
  /\ active /\ pos > NStreams
  /\ fences' = fences \cup results
  /\ Return
  /\ UNCHANGED <<poolVars, batchVars, makeVars, queues, cmdVars>>

RunPassEnds ==
  /\ active /\ pos > NStreams
  /\ IF progressed
     THEN /\ pos' = 1 /\ progressed' = FALSE
          /\ UNCHANGED <<active, last, results, fences>>
     ELSE Return /\ fences' = fences \cup results
  /\ UNCHANGED <<poolVars, batchVars, makeVars, queues, cmdVars>>

-----------------------------------------------------------------------------
(* The device                                                              *)

(* The device completes a command.                                         *)
Complete(c) ==
  /\ state[c] = "busy"
  /\ state' = [state EXCEPT ![c] = "done"]
  /\ UNCHANGED <<poolVars, batchVars, makeVars, queues, runVars, sent, out, fences>>

-----------------------------------------------------------------------------
PoolStep == \E h \in Handles : Acquire(h) \/ Drop(h) \/ \E g \in Handles : MoveHandle(h, g)

BatchStep ==
  \E b \in Batches :
    \/ \E k \in Buffers : AppendCommand(b, k)
    \/ Freeze(b) \/ NewBatch(b) \/ \E n \in 0..MaxMade : SubmitBatch(b, n)
    \/ \E d \in Batches : MoveBatch(b, d)

RunStep ==
  RunSkips \/ RunSends \/ RunThrows \/ RunPassEnds \/ \E s \in Streams : RunEnqueues(s)

Next ==
  \/ PoolStep \/ BatchStep \/ RunStep \/ Run
  \/ \E s \in Streams, k \in 0..PoolSize : Enqueue(s, k)
  \/ \E c \in Cmds : Complete(c)

Spec == Init /\ [][Next]_vars

-----------------------------------------------------------------------------
(* Properties                                                              *)

(* Every buffer of the pool is in free_list_ once or with one handle,      *)
(* however the handles are moved: acquire() never lends a buffer that is   *)
(* lent already, and none is lost.                                         *)
LentOnce ==
  \A k \in Buffers :
    Cardinality({i \in DOMAIN free : free[i] = k}) + Cardinality({h \in Handles : held[h] = k}) = 1

(* Commands whose fence a throw has destroyed.                             *)
Orphans == Cmds \ (fences \cup results)

(* The pool's rule suffices: no command in flight uses a buffer that is    *)
(* back in the pool.  The exception is a command whose fence submit() or   *)
(* run() destroyed when a later submission threw: the client cannot wait   *)
(* for that one.                                                           *)
FreeMeansIdle ==
  \A c \in Cmds : state[c] = "busy" /\ c \notin Orphans => uses[c] \notin Range(free)

(* No command reaches the device twice, whatever is moved, fails midway or *)
(* is submitted again.                                                     *)
SentOnce == \A c \in Cmds : sent[c] <= 1

Abstract == INSTANCE RoundRobin WITH
  N <- NStreams, Requests <- Cmds, queue <- queues

(* run() submits one command from each stream in turn until every queue is *)
(* empty, those enqueued by a closure included: it implements the abstract *)
(* dispatcher.                                                             *)
StreamsInTurn == Abstract!Spec

=============================================================================
