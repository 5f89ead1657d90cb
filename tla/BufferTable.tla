---------------------------- MODULE BufferTable ----------------------------
(***************************************************************************)
(* The registered DMA buffers of the kernel driver: ioctl(BUFFER_ALLOC),   *)
(* mmap(), the operand checks of ioctl(SUBMIT), and the freeing done by    *)
(* release().  Source: src/track-a/dma_accel_drv.c.                        *)
(*                                                                         *)
(* Each critical section under buf_mutex is one step.  A session has one   *)
(* call in progress at a time (a Stream is used by one thread); different  *)
(* sessions interleave freely, and with the device.  Calls that fail       *)
(* without changing state are steps the model does not take.               *)
(***************************************************************************)
EXTENDS Integers, FiniteSets

CONSTANTS
  Sessions,      \* one per open()
  NoSession,     \* a NULL owner
  MaxBuffers,    \* MAX_BUFFERS (64): slots of dev->buffers
  BufferQuota,   \* DEFAULT_BUFFER_QUOTA (16)
  PageSize,      \* PAGE_SIZE
  AllocMax,      \* DMA_ACCEL_BUFFER_ALLOC_MAX
  AllocSizes,    \* req.size values users ask for
  Requests,      \* ioctl(SUBMIT) requests users make
  MapSizes,      \* lengths users mmap
  Width,         \* bits of the u32 offset and len fields
  NoRequest,     \* no ioctl(SUBMIT) in progress
  MaxPending,    \* bound: commands in flight per session
  MaxMaps        \* bound: user mappings per session

ASSUME BufferTableAssumption ==
  /\ NoSession \notin Sessions
  /\ MaxBuffers \in Nat \ {0}
  /\ BufferQuota \in Nat \ {0}
  /\ PageSize \in Nat \ {0}
  /\ AllocMax \in Nat
  /\ AllocSizes \subseteq Nat
  /\ MapSizes \subseteq Nat
  /\ Width \in Nat
  /\ MaxPending \in Nat
  /\ MaxMaps \in Nat
  /\ NoRequest \notin Requests

Slots == 0..MaxBuffers - 1
U32 == 0..2^Width - 1

(* A request names up to three operands by buffer_id, any u32.             *)
ASSUME RequestsAssumption ==
  Requests \subseteq [opcode : {"COPY", "SCALE_ADD", "TILE_MATMUL"}, len : U32,
                      src : Nat, src_offset : U32, dst : Nat, dst_offset : U32,
                      src2 : Nat, src2_offset : U32]

VARIABLES
  sess_state,  \* [Sessions -> closed | open | unlinked | draining | freed]
  in_use,      \* dev->buffers[i].in_use
  owner,       \* dev->buffers[i].owner
  size,        \* dev->buffers[i].size
  owned,       \* sess->owned_buffers
  copyout,     \* the slot a BUFFER_ALLOC has filled in and not yet returned, or -1
  resolved,    \* the request a SUBMIT has checked and not yet enqueued, or NoRequest
  maps,        \* user mappings of buffers: each keeps its struct file alive
  pending      \* commands the device has been given

bufferVars == <<sess_state, in_use, owner, size, owned, copyout, resolved, maps, pending>>
tableVars == <<in_use, owner, size, owned>>
callVars == <<copyout, resolved>>

TableInit ==
  /\ sess_state = [s \in Sessions |-> "closed"]
  /\ in_use = [i \in Slots |-> FALSE]
  /\ owner = [i \in Slots |-> NoSession]
  /\ size = [i \in Slots |-> 0]
  /\ owned = [s \in Sessions |-> {}]
  /\ copyout = [s \in Sessions |-> -1]
  /\ resolved = [s \in Sessions |-> NoRequest]
  /\ maps = {}
  /\ pending = {}

(* The session's fd is open and no call of its thread is in progress.      *)
MayCall(s) == sess_state[s] = "open" /\ copyout[s] = -1 /\ resolved[s] = NoRequest

Open(s) ==
  /\ sess_state[s] = "closed"
  /\ sess_state' = [sess_state EXCEPT ![s] = "open"]
  /\ UNCHANGED <<tableVars, callVars, maps, pending>>

-----------------------------------------------------------------------------
(* ioctl(BUFFER_ALLOC)                                                     *)

PageAlign(n) == ((n + PageSize - 1) \div PageSize) * PageSize

(* The scan takes the first free slot.                                     *)
FirstFree(i) == ~ in_use[i] /\ \A j \in Slots : j < i => in_use[j]

(* Mutant: the quota is off by one.                                        *)
UnderQuotaOffByOne(s) == Cardinality(owned[s]) <= BufferQuota

UnderQuota(s) == Cardinality(owned[s]) < BufferQuota

BufferAlloc(s, n) ==
  /\ MayCall(s)
  /\ n > 0 /\ n <= AllocMax
  /\ UnderQuota(s)
  /\ \E slot \in Slots :
       /\ FirstFree(slot)
       /\ in_use' = [in_use EXCEPT ![slot] = TRUE]
       /\ owner' = [owner EXCEPT ![slot] = s]
       /\ size' = [size EXCEPT ![slot] = PageAlign(n)]
       /\ owned' = [owned EXCEPT ![s] = @ \cup {slot}]
       /\ copyout' = [copyout EXCEPT ![s] = slot]
  /\ UNCHANGED <<sess_state, resolved, maps, pending>>

BufferAllocReturn(s) ==
  /\ copyout[s] # -1
  /\ copyout' = [copyout EXCEPT ![s] = -1]
  /\ UNCHANGED <<sess_state, tableVars, resolved, maps, pending>>

(* Mutant: clear_bit is forgotten.                                         *)
BufferAllocFaultKeepsBit(s) ==
  /\ copyout[s] # -1
  /\ in_use' = [in_use EXCEPT ![copyout[s]] = FALSE]
  /\ owner' = [owner EXCEPT ![copyout[s]] = NoSession]
  /\ copyout' = [copyout EXCEPT ![s] = -1]
  /\ UNCHANGED <<sess_state, size, owned, resolved, maps, pending>>

(* copy_to_user fails: the slot is given back under buf_mutex.             *)
BufferAllocFault(s) ==
  /\ copyout[s] # -1
  /\ in_use' = [in_use EXCEPT ![copyout[s]] = FALSE]
  /\ owner' = [owner EXCEPT ![copyout[s]] = NoSession]
  /\ owned' = [owned EXCEPT ![s] = @ \ {copyout[s]}]
  /\ copyout' = [copyout EXCEPT ![s] = -1]
  /\ UNCHANGED <<sess_state, size, resolved, maps, pending>>

-----------------------------------------------------------------------------
(* ioctl(SUBMIT): the checks under buf_mutex                               *)

(* Mutant: an opcode added later is not in the switch.                     *)
NeedsSrc2Old(opcode) == opcode = "SCALE_ADD"

NeedsSrc2(opcode) == opcode \in {"SCALE_ADD", "TILE_MATMUL"}

(* Mutant: the sum is computed in 32 bits.                                 *)
EndOffsetWraps(offset, len) == (offset + len) % 2^Width

(* (u64)offset + len: the sum does not wrap.                               *)
EndOffset(offset, len) == offset + len

Operands(req) ==
  {[buf |-> req.src, offset |-> req.src_offset, len |-> req.len],
   [buf |-> req.dst, offset |-> req.dst_offset, len |-> req.len]}
  \cup (IF NeedsSrc2(req.opcode)
        THEN {[buf |-> req.src2, offset |-> req.src2_offset, len |-> req.len]}
        ELSE {})

(* -EINVAL, -EPERM, -EINVAL in turn.                                       *)
OperandOk(s, op) ==
  /\ op.buf < MaxBuffers
  /\ in_use[op.buf]
  /\ owner[op.buf] = s
  /\ EndOffset(op.offset, op.len) <= size[op.buf]

Submit(s, req) ==
  /\ MayCall(s)
  /\ \A op \in Operands(req) : OperandOk(s, op)
  /\ resolved' = [resolved EXCEPT ![s] = req]
  /\ UNCHANGED <<sess_state, tableVars, copyout, maps, pending>>

(* buf_mutex is long dropped when the command is admitted and enqueued     *)
(* with the addresses computed under it.                                   *)
SubmitEnqueue(s) ==
  /\ resolved[s] # NoRequest
  /\ \E id \in 1..MaxPending :
       /\ \A c \in pending : c.sess = s => c.id # id
       /\ pending' = pending \cup {[sess |-> s, id |-> id, req |-> resolved[s]]}
  /\ resolved' = [resolved EXCEPT ![s] = NoRequest]
  /\ UNCHANGED <<sess_state, tableVars, copyout, maps>>

(* A signal ends the wait for admission.                                   *)
SubmitInterrupted(s) ==
  /\ resolved[s] # NoRequest
  /\ resolved' = [resolved EXCEPT ![s] = NoRequest]
  /\ UNCHANGED <<sess_state, tableVars, copyout, maps, pending>>

(* The device finishes a command and the handler routes it (see CmdPath).  *)
CompleteDma(c) ==
  /\ c \in pending
  /\ pending' = pending \ {c}
  /\ UNCHANGED <<sess_state, tableVars, callVars, maps>>

-----------------------------------------------------------------------------
(* mmap(), munmap() and close()                                            *)

(* Mutant: the ownership check of SUBMIT has no counterpart here.          *)
MmapAnyOwner(s, buf, len) ==
  /\ MayCall(s)
  /\ in_use[buf]
  /\ len <= size[buf]
  /\ Cardinality({m \in maps : m.sess = s}) < MaxMaps
  /\ maps' = maps \cup {[sess |-> s, buf |-> buf, len |-> len]}
  /\ UNCHANGED <<sess_state, tableVars, callVars, pending>>

Mmap(s, buf, len) ==
  /\ MayCall(s)
  /\ in_use[buf]
  /\ len <= size[buf]
  /\ owner[buf] = s
  /\ Cardinality({m \in maps : m.sess = s}) < MaxMaps
  /\ maps' = maps \cup {[sess |-> s, buf |-> buf, len |-> len]}
  /\ UNCHANGED <<sess_state, tableVars, callVars, pending>>

Munmap(m) ==
  /\ m \in maps
  /\ maps' = maps \ {m}
  /\ UNCHANGED <<sess_state, tableVars, callVars, pending>>

(* close(fd): no more calls, but mappings still hold the struct file.      *)
CloseFd(s) ==
  /\ MayCall(s)
  /\ sess_state' = [sess_state EXCEPT ![s] = "unlinked"]
  /\ UNCHANGED <<tableVars, callVars, maps, pending>>

(* The last reference is gone: the file's release() is called.             *)
Release(s) ==
  /\ sess_state[s] = "unlinked"
  /\ \A m \in maps : m.sess # s
  /\ sess_state' = [sess_state EXCEPT ![s] = "draining"]
  /\ UNCHANGED <<tableVars, callVars, maps, pending>>

(* Mutant: every slot in use is freed, not only the session's own.         *)
ReleaseFreeAll(s) ==
  /\ sess_state[s] = "draining"
  /\ \A c \in pending : c.sess # s
  /\ in_use' = [i \in Slots |-> FALSE]
  /\ owner' = [i \in Slots |-> NoSession]
  /\ sess_state' = [sess_state EXCEPT ![s] = "freed"]
  /\ owned' = [owned EXCEPT ![s] = {}]
  /\ UNCHANGED <<size, callVars, maps, pending>>

(* inflight is 0: free exactly the owned slots, then kfree the session.    *)
ReleaseFree(s) ==
  /\ sess_state[s] = "draining"
  /\ \A c \in pending : c.sess # s
  /\ in_use' = [i \in Slots |-> in_use[i] /\ i \notin owned[s]]
  /\ owner' = [i \in Slots |-> IF i \in owned[s] THEN NoSession ELSE owner[i]]
  /\ sess_state' = [sess_state EXCEPT ![s] = "freed"]
  /\ owned' = [owned EXCEPT ![s] = {}]
  /\ UNCHANGED <<size, callVars, maps, pending>>

-----------------------------------------------------------------------------
TableNext ==
  \/ \E s \in Sessions :
       \/ Open(s)
       \/ \E n \in AllocSizes : BufferAlloc(s, n)
       \/ BufferAllocReturn(s)
       \/ BufferAllocFault(s)
       \/ \E req \in Requests : Submit(s, req)
       \/ SubmitEnqueue(s)
       \/ SubmitInterrupted(s)
       \/ \E buf \in Slots, len \in MapSizes : Mmap(s, buf, len)
       \/ CloseFd(s)
       \/ Release(s)
       \/ ReleaseFree(s)
  \/ \E c \in pending : CompleteDma(c)
  \/ \E m \in maps : Munmap(m)

TableSpec == TableInit /\ [][TableNext]_bufferVars

-----------------------------------------------------------------------------
(* Properties                                                              *)

Alive(s) == sess_state[s] \in {"open", "unlinked", "draining"}

(* Every field keeps its type, and a buffer is a whole number of pages.    *)
TableTypeOK ==
  /\ sess_state \in [Sessions -> {"closed", "open", "unlinked", "draining", "freed"}]
  /\ in_use \in [Slots -> BOOLEAN]
  /\ owner \in [Slots -> Sessions \cup {NoSession}]
  /\ size \in [Slots -> Nat]
  /\ \A i \in Slots : \E pages \in 0..size[i] : size[i] = pages * PageSize
  /\ owned \in [Sessions -> SUBSET Slots]
  /\ copyout \in [Sessions -> Slots \cup {-1}]
  /\ maps \subseteq [sess : Sessions, buf : Slots, len : MapSizes]
  /\ resolved \in [Sessions -> Requests \cup {NoRequest}]
  /\ pending \subseteq [sess : Sessions, id : 1..MaxPending, req : Requests]

(* The two ownership records agree: owned_buffers is the inverse of the    *)
(* owner field, a free slot has no owner, and only a live session owns.    *)
OwnershipInverse ==
  /\ \A s \in Sessions, i \in Slots : i \in owned[s] <=> in_use[i] /\ owner[i] = s
  /\ \A i \in Slots : in_use[i] <=> owner[i] # NoSession
  /\ \A i \in Slots : in_use[i] => Alive(owner[i])

(* What the device reads or writes when it runs a request (external).      *)
Touched(req) ==
  {<<req.src, req.src_offset>>, <<req.dst, req.dst_offset>>}
  \cup (IF req.opcode = "COPY" THEN {} ELSE {<<req.src2, req.src2_offset>>})

(* Every buffer the device works on, or a SUBMIT waiting for admission has *)
(* resolved to an address, still belongs to the session that submitted the *)
(* command: no command outlives its buffers or reaches another session's.  *)
DmaOwned ==
  /\ \A c \in pending : \A x \in Touched(c.req) : x[1] \in owned[c.sess]
  /\ \A s \in Sessions :
       resolved[s] # NoRequest => \A x \in Touched(resolved[s]) : x[1] \in owned[s]

(* No command runs off the end of a buffer, however large the offset and   *)
(* length that SUBMIT was given.                                           *)
DmaInBounds ==
  /\ \A c \in pending : \A x \in Touched(c.req) : x[2] + c.req.len <= size[x[1]]
  /\ \A s \in Sessions :
       resolved[s] # NoRequest =>
         \A x \in Touched(resolved[s]) : x[2] + resolved[s].len <= size[x[1]]

(* A user mapping always shows memory its own session still owns, and no   *)
(* more of it than was allocated, even after close().                      *)
MapsConfined ==
  \A m \in maps : m.buf \in owned[m.sess] /\ m.len <= size[m.buf]

(* While the quota lets them all fit, a session below its quota is never   *)
(* refused a slot for want of one, whatever the others hold.               *)
FullService ==
  Cardinality({s \in Sessions : Alive(s)}) * BufferQuota <= MaxBuffers =>
    \A s \in Sessions :
      Alive(s) /\ Cardinality(owned[s]) < BufferQuota => \E i \in Slots : ~ in_use[i]

(* A slot in use changes hands only by being freed, and is freed only by   *)
(* its own session: by release() once nothing of it is in flight or        *)
(* mapped, or by the BUFFER_ALLOC that failed to return it.                *)
FreedByOwnerOnly ==
  [][\A i \in Slots : in_use[i] /\ owner'[i] # owner[i] =>
       /\ ~ in_use'[i]
       /\ \/ sess_state[owner[i]] = "draining" /\ sess_state'[owner[i]] = "freed"
          \/ copyout[owner[i]] = i /\ copyout'[owner[i]] = -1]_bufferVars

=============================================================================
