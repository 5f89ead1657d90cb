----------------------------- MODULE Scheduler ------------------------------
(***************************************************************************)
(* Track B's Context (a Stream and the ids of the buffers allocated        *)
(* through it) and Scheduler (round-robin dispatch over Contexts).         *)
(* Sources: src/track-b/dma_accel_context.cpp, dma_accel_scheduler.cpp.    *)
(*                                                                         *)
(* One thread makes all the calls.  A Context object is a local of the     *)
(* caller or an entry of the Scheduler.  The Stream under a Context is its *)
(* open file; Stream and CmdPath have the detail of submission.  Of the    *)
(* driver only the buffer table is kept: a slot belongs to a file until    *)
(* the file is released, which is when it is closed and nothing of it is   *)
(* mapped (BufferTable has the detail).                                    *)
(***************************************************************************)
EXTENDS Integers, Sequences

CONSTANTS
  Locals,     \* Context objects of the caller
  MaxEntries, \* bound: Contexts added to the Scheduler
  MaxFiles,   \* bound: open() calls
  Slots,      \* buffer ids of the device
  Bufs,       \* Buffer objects of the caller
  MaxReqs     \* bound: requests enqueued

ASSUME SchedulerAssumption ==
  /\ MaxEntries \in Nat /\ MaxFiles \in Nat /\ MaxReqs \in Nat
  /\ Slots \subseteq Nat
  /\ Locals \cap (1..MaxEntries) = {}

Entries == 1..MaxEntries
Objects == Locals \cup Entries
Files == 1..MaxFiles

VARIABLES
  ctx,       \* each Context: its file (0: moved from) and owned_buffer_ids_
  size,      \* entries_.size()
  pending,   \* Entry::pending, oldest first
  opened,    \* files opened so far
  closed,    \* files whose fd was closed
  slot,      \* driver: the file that owns each slot (0: free)
  buf,       \* the Buffers: buffer id, and the file it was allocated on (0: none)
  reqs,      \* requests enqueued so far
  active,    \* run_round() is running
  remaining, \* its snapshot of the queue lengths, counted down
  idx,       \* its loop variable i
  progress,  \* made_progress
  last,      \* the entry served last in this round, for the properties
  out        \* the set of requests dispatched, for the properties

objVars == <<ctx, size, opened, closed, slot, buf>>
roundVars == <<active, remaining, idx, progress, last, out>>
vars == <<objVars, pending, reqs, roundVars>>

Moved == [file |-> 0, ids |-> {}]
NoBuffer == [id |-> 0, file |-> 0]

Init ==
  /\ ctx = [o \in Objects |-> Moved]
  /\ size = 0
  /\ pending = [i \in Entries |-> <<>>]
  /\ opened = 0 /\ closed = {}
  /\ slot = [k \in Slots |-> 0]
  /\ buf = [b \in Bufs |-> NoBuffer]
  /\ reqs = 0
  /\ active = FALSE /\ remaining = [i \in Entries |-> 0]
  /\ idx = 0 /\ progress = FALSE /\ last = 0 /\ out = {}

-----------------------------------------------------------------------------
(* Context                                                                 *)

(* The slots once the files in shut are closed and the Buffers are bs.     *)
SlotsAfter(shut, bs) ==
  [k \in Slots |-> IF slot[k] \in shut /\ \A b \in Bufs : bs[b].file # slot[k]
                   THEN 0 ELSE slot[k]]

Close(f) ==
  /\ closed' = closed \cup ({f} \ {0})
  /\ slot' = SlotsAfter(closed', buf)

Construct(o) ==
  /\ ~ active
  /\ ctx[o] = Moved /\ opened < MaxFiles
  /\ opened' = opened + 1
  /\ ctx' = [ctx EXCEPT ![o] = [file |-> opened', ids |-> {}]]
  /\ UNCHANGED <<size, closed, slot, buf, pending, reqs, roundVars>>

(* Mutant: the ids of the Context assigned to stay.                        *)
MoveAssignKeepsIds(o, p) ==
  /\ ~ active
  /\ o # p /\ ctx[p].file # 0
  /\ Close(ctx[o].file)
  /\ ctx' = [ctx EXCEPT ![o] = [file |-> ctx[p].file, ids |-> @.ids \cup ctx[p].ids], ![p] = Moved]
  /\ UNCHANGED <<size, opened, buf, pending, reqs, roundVars>>

MoveAssign(o, p) ==
  /\ ~ active
  /\ o # p /\ ctx[p].file # 0
  /\ Close(ctx[o].file)
  /\ ctx' = [ctx EXCEPT ![o] = ctx[p], ![p] = Moved]
  /\ UNCHANGED <<size, opened, buf, pending, reqs, roundVars>>

Destroy(o) ==
  /\ ~ active
  /\ ctx[o].file # 0
  /\ Close(ctx[o].file)
  /\ ctx' = [ctx EXCEPT ![o] = Moved]
  /\ UNCHANGED <<size, opened, buf, pending, reqs, roundVars>>

FirstFree(k) == slot[k] = 0 /\ \A j \in Slots : slot[j] = 0 => k <= j

(* Stream::alloc_buffer() gets the first free slot and maps it.            *)
Alloc(o, b) ==
  /\ ~ active
  /\ ctx[o].file # 0 /\ buf[b] = NoBuffer
  /\ \E k \in Slots :
       /\ FirstFree(k)
       /\ slot' = [slot EXCEPT ![k] = ctx[o].file]
       /\ buf' = [buf EXCEPT ![b] = [id |-> k, file |-> ctx[o].file]]
       /\ ctx' = [ctx EXCEPT ![o].ids = @ \cup {k}]
  /\ UNCHANGED <<size, opened, closed, pending, reqs, roundVars>>

(* The ioctl succeeds and mmap() fails: the slot is taken, and the Context *)
(* has no record of it.                                                    *)
AllocThrows(o) ==
  /\ ~ active
  /\ ctx[o].file # 0
  /\ \E k \in Slots : FirstFree(k) /\ slot' = [slot EXCEPT ![k] = ctx[o].file]
  /\ UNCHANGED <<ctx, size, opened, closed, buf, pending, reqs, roundVars>>

(* ~Buffer() unmaps.  Buffers outlive the requests that name them.         *)
Named(b) ==
  \E i \in Entries : \E k \in DOMAIN pending[i] : b \in pending[i][k].operands

DropBuffer(b) ==
  /\ ~ active
  /\ buf[b].file # 0 /\ ~ Named(b)
  /\ buf' = [buf EXCEPT ![b] = NoBuffer]
  /\ slot' = SlotsAfter(closed, buf')
  /\ UNCHANGED <<ctx, size, opened, closed, pending, reqs, roundVars>>

CheckOwned(o, b) == buf[b].id \in ctx[o].ids

(* submit(), submit_scale_add(), submit_tile_matmul() check every operand. *)
Accepts(o, operands) == \A b \in operands : CheckOwned(o, b)

-----------------------------------------------------------------------------
(* Scheduler                                                               *)

(* emplace_back() moves the Context in; should entries_ grow elsewhere,    *)
(* the moves of the entries keep their files, ids and queues.              *)
AddContext(o) ==
  /\ ~ active
  /\ size < MaxEntries /\ ctx[o].file # 0
  /\ ctx' = [ctx EXCEPT ![size + 1] = ctx[o], ![o] = Moved]
  /\ size' = size + 1
  /\ UNCHANGED <<opened, closed, slot, buf, pending, reqs, roundVars>>

(* Only pointers to the Buffers are stored: nothing is checked.            *)
EnqueueCopy(i, operands) ==
  /\ ~ active
  /\ i <= size /\ reqs < MaxReqs
  /\ \A b \in operands : buf[b].file # 0
  /\ reqs' = reqs + 1
  /\ pending' = [pending EXCEPT ![i] = Append(@, [nr |-> reqs', operands |-> operands])]
  /\ UNCHANGED <<objVars, roundVars>>

RunRound ==
  /\ ~ active
  /\ active' = TRUE
  /\ remaining' = [i \in Entries |-> Len(pending[i])]
  /\ idx' = 1 /\ progress' = FALSE /\ last' = 0
  /\ UNCHANGED <<objVars, pending, reqs, out>>

Skip ==
  /\ active /\ idx <= size
  /\ remaining[idx] = 0
  /\ idx' = idx + 1
  /\ UNCHANGED <<objVars, pending, reqs, active, remaining, progress, last, out>>

Pop ==
  /\ active /\ idx <= size
  /\ remaining[idx] > 0
  /\ pending' = [pending EXCEPT ![idx] = Tail(@)]

Return == active' = FALSE /\ remaining' = [i \in Entries |-> 0] /\ idx' = 0 /\ progress' = FALSE /\ last' = 0

(* Mutant: a Context is drained before the next one has its turn.          *)
DispatchDrains ==
  LET r == Head(pending[idx])
  IN /\ Pop
     /\ Accepts(idx, r.operands)
     /\ remaining' = [remaining EXCEPT ![idx] = @ - 1]
     /\ progress' = TRUE
     /\ out' = out \cup {<<idx, r.nr>>}
     /\ last' = idx /\ idx' = IF remaining[idx] > 1 THEN idx ELSE idx + 1
     /\ UNCHANGED <<objVars, reqs, active>>

Dispatch ==
  LET r == Head(pending[idx])
  IN /\ Pop
     /\ Accepts(idx, r.operands)
     /\ remaining' = [remaining EXCEPT ![idx] = @ - 1]
     /\ progress' = TRUE
     /\ out' = out \cup {<<idx, r.nr>>}
     /\ last' = idx /\ idx' = idx + 1
     /\ UNCHANGED <<objVars, reqs, active>>

(* submit() throws, for a foreign Buffer or because the driver refuses;    *)
(* the request is off the queue, and run_round() ends without its results. *)
DispatchThrows ==
  /\ Pop
  /\ Return
  /\ UNCHANGED <<objVars, reqs, out>>

PassEnds ==
  /\ active /\ idx > size
  /\ IF progress
     THEN /\ idx' = 1 /\ progress' = FALSE
          /\ UNCHANGED <<active, remaining, last>>
     ELSE Return
  /\ UNCHANGED <<objVars, pending, reqs, out>>

-----------------------------------------------------------------------------
(* The Contexts there are: context(i) gives access to the entries.         *)
Present == Locals \cup 1..size

ContextStep ==
  \/ \E o \in Locals : Construct(o) \/ Destroy(o) \/ AddContext(o)
  \/ \E o, p \in Present : MoveAssign(o, p)
  \/ \E o \in Present : AllocThrows(o) \/ \E b \in Bufs : Alloc(o, b)
  \/ \E b \in Bufs : DropBuffer(b)

RoundStep == Skip \/ Dispatch \/ DispatchThrows \/ PassEnds

Next ==
  \/ ContextStep
  \/ \E i \in Entries, src, dst \in Bufs : EnqueueCopy(i, {src, dst})
  \/ RunRound
  \/ RoundStep

Spec == Init /\ [][Next]_vars

-----------------------------------------------------------------------------
(* Properties                                                              *)

(* The buffer-provenance check is exact: a Context accepts a Buffer if and *)
(* only if the Buffer was allocated through that Context's Stream.  Ids    *)
(* are recycled when a file is released, so this rests on the mapping of   *)
(* a Buffer keeping its file, and hence its id, from being released.       *)
ProvenanceExact ==
  \A o \in Objects, b \in Bufs : buf[b].file # 0 =>
    (CheckOwned(o, b) <=> ctx[o].file = buf[b].file)

Abstract == INSTANCE RoundRobin WITH
  N <- MaxEntries, Requests <- 1..MaxReqs,
  queue <- [i \in Entries |-> [k \in DOMAIN pending[i] |-> pending[i][k].nr]]

(* run_round() dispatches in strict round-robin order, Context 0's oldest, *)
(* Context 1's oldest and so on, each Context's requests in the order they *)
(* were enqueued and none twice, and returns only with nothing pending: it *)
(* implements the abstract dispatcher.                                     *)
StrictRoundRobin == Abstract!Spec

(* A throw leaves the request that failed pending for a future call, as    *)
(* the comment in run_round() says: no request is ever lost.               *)
NothingLost ==
  \A n \in 1..reqs :
    \/ \E i \in Entries : \E k \in DOMAIN pending[i] : pending[i][k].nr = n
    \/ \E i \in Entries : <<i, n>> \in out
=============================================================================
