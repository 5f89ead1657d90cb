------------------------------- MODULE Stream -------------------------------
(***************************************************************************)
(* The C++ runtime's Stream and Fence: backpressure, submission, pump(),   *)
(* wait(), and the moves of a Stream.  Source:                             *)
(* src/track-a/dma_accel_runtime.cpp (track-c/runtime has the same file).  *)
(*                                                                         *)
(* One thread drives the Streams, as the runtime requires.  The driver     *)
(* behind an fd is reduced to what a session sees of it: SUBMIT blocks     *)
(* until the command is admitted, commands complete in any order, and the  *)
(* completions queue in a ring that loses its oldest entry when full       *)
(* (CmdPath has the detail).                                               *)
(* A Fence is known by the cmd_id of its shared FenceState.                *)
(***************************************************************************)
EXTENDS Integers, Sequences, FiniteSets

CONSTANTS
  Streams,      \* Stream objects
  Fds,          \* open files of the device, one per open()
  QueueDepth,   \* DMA_ACCEL_QUEUE_DEPTH (16)
  Batch,        \* entries pump() reads at a time (32)
  CompRingSize, \* COMP_RING_SIZE of the driver (64)
  MaxCmds,      \* bound: commands submitted
  NoFd, NoStream

ASSUME StreamAssumption ==
  /\ QueueDepth \in Nat \ {0}
  /\ Batch \in Nat \ {0}
  /\ CompRingSize \in Nat \ {0}
  /\ MaxCmds \in Nat
  /\ NoFd \notin Fds /\ NoStream \notin Streams

Cmds == 1..MaxCmds

VARIABLES
  alive,       \* the Stream objects constructed and not destroyed
  fd,          \* fd_ (NoFd: -1)
  outstanding, \* the keys of outstanding_
  order,       \* submission_order_, oldest first
  ready,       \* the commands whose FenceState is ready
  issued,      \* cmd_ids the driver has handed out
  moved,       \* the fds that were moved to another Stream, for the properties
  opened,      \* the fds open() has returned so far
  inflight,    \* driver: commands of the session not completed
  ring,        \* driver: unread completions of the session
  op,          \* the call in progress: none, throttle, ioctl, wait, pump
  on,          \* the Stream it is made on
  awaited,     \* the command it waits for (0: none)
  pumping      \* pump() is running

objVars == <<alive, fd, outstanding, order>>
drvVars == <<moved, opened, inflight, ring>>
callVars == <<op, on, awaited, pumping>>

vars == <<objVars, ready, issued, drvVars, callVars>>

Init ==
  /\ alive = {}
  /\ fd = [s \in Streams |-> NoFd]
  /\ outstanding = [s \in Streams |-> {}]
  /\ order = [s \in Streams |-> <<>>]
  /\ ready = {}
  /\ issued = 0
  /\ moved = {}
  /\ opened = {}
  /\ inflight = [f \in Fds |-> {}]
  /\ ring = [f \in Fds |-> <<>>]
  /\ op = "none" /\ on = NoStream /\ awaited = 0 /\ pumping = FALSE

-----------------------------------------------------------------------------
(* Construction, moves and destruction                                     *)

Construct(s, f) ==
  /\ op = "none"
  /\ s \notin alive /\ f \notin opened
  /\ alive' = alive \cup {s}
  /\ fd' = [fd EXCEPT ![s] = f]
  /\ opened' = opened \cup {f}
  /\ UNCHANGED <<outstanding, order, ready, issued, moved, inflight, ring, callVars>>

(* Mutant: outstanding_ stays behind.                                      *)
MoveConstructFdOnly(s, r) ==
  /\ op = "none"
  /\ s \notin alive /\ r \in alive
  /\ alive' = alive \cup {s}
  /\ fd' = [fd EXCEPT ![s] = fd[r], ![r] = NoFd]
  /\ moved' = moved \cup {fd[r]}
  /\ UNCHANGED <<outstanding, order, ready, issued, opened, inflight, ring, callVars>>

(* Stream(Stream &&): submission_order_ is not in the initializer list.    *)
MoveConstruct(s, r) ==
  /\ op = "none"
  /\ s \notin alive /\ r \in alive
  /\ alive' = alive \cup {s}
  /\ fd' = [fd EXCEPT ![s] = fd[r], ![r] = NoFd]
  /\ outstanding' = [outstanding EXCEPT ![s] = outstanding[r], ![r] = {}]
  /\ moved' = moved \cup {fd[r]}
  /\ UNCHANGED <<order, ready, issued, opened, inflight, ring, callVars>>

(* close(fd_): the session and what it has queued are gone.                *)
Closed(f) ==
  /\ inflight' = [g \in Fds |-> IF g = f THEN {} ELSE inflight[g]]
  /\ ring' = [g \in Fds |-> IF g = f THEN <<>> ELSE ring[g]]
  /\ UNCHANGED opened

(* operator=(Stream &&): submission_order_ keeps the entries it had.       *)
MoveAssign(s, r) ==
  /\ op = "none"
  /\ s \in alive /\ r \in alive /\ s # r
  /\ Closed(fd[s])
  /\ fd' = [fd EXCEPT ![s] = fd[r], ![r] = NoFd]
  /\ outstanding' = [outstanding EXCEPT ![s] = outstanding[r], ![r] = {}]
  /\ moved' = moved \cup {fd[r]}
  /\ UNCHANGED <<alive, order, ready, issued, callVars>>

Destroy(s) ==
  /\ op = "none"
  /\ s \in alive
  /\ Closed(fd[s])
  /\ alive' = alive \ {s}
  /\ fd' = [fd EXCEPT ![s] = NoFd]
  /\ outstanding' = [outstanding EXCEPT ![s] = {}]
  /\ order' = [order EXCEPT ![s] = <<>>]
  /\ UNCHANGED <<ready, issued, moved, callVars>>

-----------------------------------------------------------------------------
(* submit(), wait() and pump(), called on a Stream that has an fd          *)

Enter(s, as, c) ==
  /\ op = "none"
  /\ fd[s] # NoFd
  /\ op' = as /\ on' = s /\ awaited' = c

Leave == op' = "none" /\ on' = NoStream /\ awaited' = 0

(* Mutant: one command more than the queue holds.                          *)
SubmitOffByOne(s) ==
  /\ issued < MaxCmds
  /\ IF Len(order[s]) > QueueDepth
     THEN Enter(s, "throttle", Head(order[s]))
     ELSE Enter(s, "ioctl", 0)
  /\ UNCHANGED <<objVars, ready, issued, drvVars, pumping>>

(* throttle_before_submit(): with a full submission_order_, wait for the   *)
(* oldest entry, whatever has completed behind it.                         *)
Submit(s) ==
  /\ issued < MaxCmds
  /\ IF Len(order[s]) >= QueueDepth
     THEN Enter(s, "throttle", Head(order[s]))
     ELSE Enter(s, "ioctl", 0)
  /\ UNCHANGED <<objVars, ready, issued, drvVars, pumping>>

Throttled ==
  /\ op = "throttle" /\ ~ pumping
  /\ awaited \in ready
  /\ outstanding' = [outstanding EXCEPT ![on] = @ \ {awaited}]
  /\ order' = [order EXCEPT ![on] = Tail(@)]
  /\ op' = "ioctl" /\ awaited' = 0
  /\ UNCHANGED <<alive, fd, ready, issued, drvVars, on, pumping>>

(* The driver's admission: its total cap and the session's share of it.    *)
MayAdmit(f) ==
  LET active == Cardinality({g \in Fds : \E s \in Streams : fd[s] = g})
  IN /\ Cardinality(UNION {inflight[g] : g \in Fds}) < QueueDepth
     /\ Cardinality(inflight[f]) < (QueueDepth + active - 1) \div active

Accept(f, c) ==
  /\ MayAdmit(f)
  /\ issued' = c
  /\ inflight' = [inflight EXCEPT ![f] = @ \cup {c}]

(* do_submit(): the driver accepts the command and names it.               *)
DoSubmit ==
  /\ op = "ioctl"
  /\ Accept(fd[on], issued + 1)
  /\ outstanding' = [outstanding EXCEPT ![on] = @ \cup {issued + 1}]
  /\ order' = [order EXCEPT ![on] = Append(@, issued + 1)]
  /\ Leave
  /\ UNCHANGED <<alive, fd, ready, moved, opened, ring, pumping>>

(* The ioctl fails and do_submit() throws; what throttling did stays.      *)
SubmitThrows ==
  /\ op = "ioctl"
  /\ Leave
  /\ UNCHANGED <<objVars, ready, issued, drvVars, pumping>>

(* wait() on a fence of this Stream that is not ready.                     *)
WaitCall(s, c) ==
  /\ c \in outstanding[s] \ ready
  /\ Enter(s, "wait", c)
  /\ UNCHANGED <<objVars, ready, issued, drvVars, pumping>>

WaitDone ==
  /\ op = "wait" /\ ~ pumping
  /\ awaited \in ready
  /\ Leave
  /\ UNCHANGED <<objVars, ready, issued, drvVars, pumping>>

(* wait()'s timeout elapses, or poll() fails in wait() or in               *)
(* wait_state_blocking().                                                  *)
GiveUp ==
  /\ op \in {"throttle", "wait"} /\ ~ pumping
  /\ awaited \notin ready
  /\ Leave
  /\ UNCHANGED <<objVars, ready, issued, drvVars, pumping>>

PumpCall(s) ==
  /\ Enter(s, "pump", 0)
  /\ pumping' = TRUE
  /\ UNCHANGED <<objVars, ready, issued, drvVars>>

(* poll() returns when the ring has an entry; pump() follows.              *)
PollReturns ==
  /\ op \in {"throttle", "wait"} /\ ~ pumping
  /\ awaited \notin ready
  /\ ring[fd[on]] # <<>>
  /\ pumping' = TRUE
  /\ UNCHANGED <<objVars, ready, issued, drvVars, op, on, awaited>>

(* The completions got[1..count] are applied after reading count entries;  *)
(* a cmd_id that is not in outstanding_ is skipped, and a short read (or   *)
(* EAGAIN) ends pump().                                                    *)
Apply(count, got) ==
  /\ ring' = [ring EXCEPT ![fd[on]] = SubSeq(@, count + 1, Len(@))]
  /\ ready' = ready \cup (got \cap outstanding[on])
  /\ outstanding' = [outstanding EXCEPT ![on] = @ \ got]
  /\ pumping' = (count = Batch)
  /\ IF count < Batch /\ op = "pump" THEN Leave ELSE UNCHANGED <<op, on, awaited>>
  /\ UNCHANGED <<alive, fd, order, issued, moved, opened, inflight>>

ReadCount == IF Len(ring[fd[on]]) < Batch THEN Len(ring[fd[on]]) ELSE Batch

(* Mutant: the last entry read is not applied.                             *)
PumpBatchShort ==
  /\ pumping
  /\ Apply(ReadCount, {ring[fd[on]][i] : i \in 1..(ReadCount - 1)})

(* One read() of at most Batch entries.                                    *)
PumpBatch ==
  /\ pumping
  /\ Apply(ReadCount, {ring[fd[on]][i] : i \in 1..ReadCount})

-----------------------------------------------------------------------------
(* The driver                                                              *)

Complete(f, c) ==
  /\ c \in inflight[f]
  /\ inflight' = [inflight EXCEPT ![f] = @ \ {c}]
  /\ ring' = [ring EXCEPT ![f] = Append(IF Len(@) >= CompRingSize THEN Tail(@) ELSE @, c)]
  /\ UNCHANGED <<objVars, ready, issued, moved, opened, callVars>>

-----------------------------------------------------------------------------
ObjectStep ==
  \E s \in Streams :
    \/ \E f \in Fds : Construct(s, f)
    \/ \E r \in Streams : MoveConstruct(s, r) \/ MoveAssign(s, r)
    \/ Destroy(s)

Calls ==
  \E s \in Streams : Submit(s) \/ PumpCall(s) \/ \E c \in Cmds : WaitCall(s, c)

(* The steps of a call in progress.                                        *)
CallStep == Throttled \/ DoSubmit \/ WaitDone \/ PollReturns \/ PumpBatch

DriverStep == \E f \in Fds : \E c \in inflight[f] : Complete(f, c)

Next == ObjectStep \/ Calls \/ CallStep \/ SubmitThrows \/ GiveUp \/ DriverStep

Spec == Init /\ [][Next]_vars

(* A call in progress runs on, and the driver completes every command.     *)
FairSpec == Spec /\ WF_vars(CallStep) /\ WF_vars(DriverStep)

-----------------------------------------------------------------------------
(* Properties                                                              *)

Unread(f) == {ring[f][i] : i \in DOMAIN ring[f]}

(* outstanding_ is exact on a Stream that was not moved: it holds the      *)
(* commands of the session whose completion pump() has not read, and each  *)
(* of them will still be read, for backpressure keeps the driver's         *)
(* completion ring from ever dropping an entry.  And a fence is ready only *)
(* once pump() has read the completion of its own command, in whatever     *)
(* order they came.                                                        *)
OutstandingExact ==
  /\ \A s \in Streams : fd[s] \notin moved \cup {NoFd} =>
       outstanding[s] = inflight[fd[s]] \cup Unread(fd[s])
  /\ \A c \in ready : c <= issued /\ \A f \in Fds : c \notin inflight[f] \cup Unread(f)

(* pump() never meets a cmd_id it does not know, however the Stream was    *)
(* moved and whatever the driver's ring dropped.                           *)
NoStrayCompletion ==
  \A s \in Streams : fd[s] # NoFd => inflight[fd[s]] \cup Unread(fd[s]) \subseteq outstanding[s]

(* submit(), wait() (without a timeout) and pump() return, on a Stream     *)
(* that was not moved.                                                     *)
CallsReturn == (op # "none" /\ fd[on] \notin moved) ~> (op = "none")

(* The runtime's blocking calls return on every Stream with an fd: a       *)
(* Stream is movable, and the commands it waits for do complete.           *)
MovedCallsReturn == (op # "none") ~> (op = "none")
=============================================================================
