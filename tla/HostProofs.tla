----------------------------- MODULE HostProofs -----------------------------
(***************************************************************************)
(* Proofs about two parts of the host software whose state has one lock or *)
(* one thread, for any number of everything they handle.                   *)
(* BufferTable: the ownership records stay inverse to each other, and no   *)
(* command or mapping ever leaves the buffers of its own session.          *)
(* Dependency: deferred commands never form a cycle; no submission before  *)
(* its dependencies, no stall, no unjustified blocking, and final answers  *)
(* about groups.                                                           *)
(***************************************************************************)
EXTENDS BufferTable, Dependency, WellFoundedInduction, TLAPS

(* What a call in progress guarantees: the fd is open, a slot whose id is  *)
(* not yet known to the user is owned and nothing refers to it, and a      *)
(* session with a user mapping has not begun to drain.                     *)
CallInv ==
  /\ \A s \in Sessions : copyout[s] # -1 =>
       /\ sess_state[s] = "open"
       /\ resolved[s] = NoRequest
       /\ copyout[s] \in owned[s]
       /\ \A m \in maps : m.sess = s => m.buf # copyout[s]
       /\ \A c \in pending : c.sess = s => \A x \in Touched(c.req) : x[1] # copyout[s]
  /\ \A s \in Sessions : resolved[s] # NoRequest => sess_state[s] = "open"
  /\ \A m \in maps : sess_state[m.sess] \in {"open", "unlinked"}

(* The inductive invariant.                                                *)
TableInv == TableTypeOK /\ OwnershipInverse /\ DmaOwned /\ DmaInBounds /\ MapsConfined /\ CallInv

(* PAGE_ALIGN gives a whole number of pages, at least one byte each.       *)
LEMMA PageAlignType ==
  ASSUME NEW n \in Nat
  PROVE  PageAlign(n) \in Nat /\ \E pages \in 0..PageAlign(n) : PageAlign(n) = pages * PageSize
<1> DEFINE pages == (n + PageSize - 1) \div PageSize
<1>1. PageSize \in Nat \ {0}
  BY BufferTableAssumption, Zenon
<1>2. pages \in Nat
  BY <1>1
<1>3. pages * PageSize \in Nat /\ pages <= pages * PageSize
  BY <1>1, <1>2
<1> QED
  BY <1>2, <1>3 DEF PageAlign

(* Before the first open() nothing is owned, mapped or submitted.          *)
THEOREM InitTableInv == TableInit => TableInv
BY BufferTableAssumption DEF TableInit, TableInv, TableTypeOK, OwnershipInverse, DmaOwned, DmaInBounds,
   MapsConfined, CallInv, Slots

(* One lemma per operation: it preserves the inductive invariant.          *)
LEMMA OpenStep == ASSUME TableInv, NEW s \in Sessions, Open(s) PROVE TableInv'
BY BufferTableAssumption
DEF TableInv, TableTypeOK, OwnershipInverse, DmaOwned, DmaInBounds, MapsConfined, CallInv, Open,
    tableVars, callVars, Alive

(* The slot taken was free, so no command or mapping refers to it.         *)
LEMMA AllocStep ==
  ASSUME TableInv, NEW s \in Sessions, NEW n \in Nat, BufferAlloc(s, n) PROVE TableInv'
<1> USE DEF TableInv
<1>1. PICK slot \in Slots :
        /\ FirstFree(slot)
        /\ in_use' = [in_use EXCEPT ![slot] = TRUE]
        /\ owner' = [owner EXCEPT ![slot] = s]
        /\ size' = [size EXCEPT ![slot] = PageAlign(n)]
        /\ owned' = [owned EXCEPT ![s] = @ \cup {slot}]
        /\ copyout' = [copyout EXCEPT ![s] = slot]
  BY Zenon DEF BufferAlloc
<1>2. /\ sess_state[s] = "open" /\ copyout[s] = -1 /\ resolved[s] = NoRequest
      /\ UNCHANGED <<sess_state, resolved, maps, pending>>
  BY Zenon DEF BufferAlloc, MayCall
<1>3. ~ in_use[slot] /\ \A u \in Sessions : slot \notin owned[u]
  BY <1>1, Zenon DEF FirstFree, OwnershipInverse
<1>4. TableTypeOK'
  BY <1>1, <1>2, PageAlignType, Zenon DEF TableTypeOK
<1>5. OwnershipInverse'
  BY <1>1, <1>2, <1>3, BufferTableAssumption DEF TableTypeOK, OwnershipInverse, Alive
<1>6. DmaOwned'
  BY <1>1, <1>2, Zenon DEF TableTypeOK, DmaOwned
<1>7. DmaInBounds'
  BY <1>1, <1>2, <1>3 DEF TableTypeOK, DmaOwned, DmaInBounds
<1>8. MapsConfined'
  BY <1>1, <1>2, <1>3, Zenon DEF TableTypeOK, MapsConfined
<1>9. CallInv'
  BY <1>1, <1>2, <1>3 DEF TableTypeOK, CallInv, DmaOwned, MapsConfined
<1> QED
  BY <1>4, <1>5, <1>6, <1>7, <1>8, <1>9, Zenon
(* Copying the id to the user, or undoing the allocation when that fails.  *)
LEMMA AllocReturnStep == ASSUME TableInv, NEW s \in Sessions, BufferAllocReturn(s) PROVE TableInv'
BY DEF TableInv, TableTypeOK, OwnershipInverse, DmaOwned, DmaInBounds, MapsConfined, CallInv,
   BufferAllocReturn, tableVars, Alive

(* The slot given back is one that nothing refers to yet.                  *)
LEMMA AllocFaultStep == ASSUME TableInv, NEW s \in Sessions, BufferAllocFault(s) PROVE TableInv'
<1> USE DEF TableInv, BufferAllocFault
<1>1. copyout[s] \in Slots /\ copyout[s] \in owned[s]
  BY Zenon DEF TableTypeOK, CallInv
<1>2. TableTypeOK'
  BY <1>1, Zenon DEF TableTypeOK
<1>3. OwnershipInverse'
  BY <1>1, BufferTableAssumption DEF TableTypeOK, OwnershipInverse, Alive
<1>4. DmaOwned'
  BY DEF TableTypeOK, DmaOwned, CallInv
<1>5. DmaInBounds'
  BY Zenon DEF DmaInBounds
<1>6. MapsConfined'
  BY DEF TableTypeOK, MapsConfined, CallInv
<1>7. CallInv'
  BY DEF TableTypeOK, CallInv
<1> QED
  BY <1>2, <1>3, <1>4, <1>5, <1>6, <1>7, Zenon

(* What the checks of ioctl(SUBMIT) establish about everything the device  *)
(* will touch, the second input included.                                  *)
LEMMA SubmitStep ==
  ASSUME TableInv, NEW s \in Sessions, NEW req \in Requests, Submit(s, req) PROVE TableInv'
<1> USE DEF TableInv
<1>1. \A x \in Touched(req) : x[1] \in owned[s] /\ x[2] + req.len <= size[x[1]]
  <2>1. /\ req.opcode \in {"COPY", "SCALE_ADD", "TILE_MATMUL"}
        /\ req.src \in Nat /\ req.dst \in Nat /\ req.src2 \in Nat
    BY RequestsAssumption, Zenon
  <2>2. ASSUME NEW op \in Operands(req)
        PROVE  op.buf \in Nat => op.buf \in owned[s] /\ op.offset + op.len <= size[op.buf]
    <3>1. OperandOk(s, op)
      BY Zenon DEF Submit
    <3> QED
      BY <3>1, BufferTableAssumption DEF OperandOk, EndOffset, OwnershipInverse, Slots
  <2>3. [buf |-> req.src, offset |-> req.src_offset, len |-> req.len] \in Operands(req)
    BY Zenon DEF Operands
  <2>4. [buf |-> req.dst, offset |-> req.dst_offset, len |-> req.len] \in Operands(req)
    BY Zenon DEF Operands
  <2>5. req.opcode # "COPY" =>
          [buf |-> req.src2, offset |-> req.src2_offset, len |-> req.len] \in Operands(req)
    BY <2>1, Zenon DEF Operands, NeedsSrc2
  <2> QED
    BY <2>1, <2>2, <2>3, <2>4, <2>5 DEF Touched
<1>2. /\ sess_state[s] = "open" /\ copyout[s] = -1
      /\ resolved' = [resolved EXCEPT ![s] = req]
      /\ UNCHANGED <<sess_state, in_use, owner, size, owned, copyout, maps, pending>>
  BY Zenon DEF Submit, MayCall, tableVars
<1>3. TableTypeOK' /\ OwnershipInverse' /\ MapsConfined' /\ CallInv'
  BY <1>2 DEF TableTypeOK, OwnershipInverse, Alive, MapsConfined, CallInv
<1>4. DmaOwned' /\ DmaInBounds'
  BY <1>1, <1>2, Zenon DEF TableTypeOK, DmaOwned, DmaInBounds
<1> QED
  BY <1>3, <1>4, Zenon

(* The later half of SUBMIT hands over addresses that are still owned.     *)
LEMMA SubmitEnqueueStep == ASSUME TableInv, NEW s \in Sessions, SubmitEnqueue(s) PROVE TableInv'
<1> USE DEF TableInv
<1>1. PICK id \in 1..MaxPending :
        pending' = pending \cup {[sess |-> s, id |-> id, req |-> resolved[s]]}
  BY Zenon DEF SubmitEnqueue
<1>2. /\ resolved[s] # NoRequest
      /\ resolved' = [resolved EXCEPT ![s] = NoRequest]
      /\ UNCHANGED <<sess_state, in_use, owner, size, owned, copyout, maps>>
  BY Zenon DEF SubmitEnqueue, tableVars
<1>3. TableTypeOK' /\ OwnershipInverse' /\ MapsConfined'
  BY <1>1, <1>2 DEF TableTypeOK, OwnershipInverse, Alive, MapsConfined
<1>4. DmaOwned' /\ DmaInBounds'
  BY <1>1, <1>2 DEF TableTypeOK, DmaOwned, DmaInBounds
<1>5. CallInv'
  BY <1>1, <1>2 DEF TableTypeOK, CallInv
<1> QED
  BY <1>3, <1>4, <1>5, Zenon

(* A submitter that is interrupted forgets what it resolved.               *)
LEMMA SubmitInterruptedStep == ASSUME TableInv, NEW s \in Sessions, SubmitInterrupted(s) PROVE TableInv'
BY DEF TableInv, TableTypeOK, OwnershipInverse, DmaOwned, DmaInBounds, MapsConfined, CallInv,
   SubmitInterrupted, tableVars, Alive

(* A completed command no longer touches a buffer.                         *)
LEMMA CompleteDmaStep == ASSUME TableInv, NEW c \in pending, CompleteDma(c) PROVE TableInv'
BY DEF TableInv, TableTypeOK, OwnershipInverse, DmaOwned, DmaInBounds, MapsConfined, CallInv,
   CompleteDma, tableVars, callVars, Alive

(* mmap() maps a slot of the session, and no more of it than it has.       *)
LEMMA MmapStep ==
  ASSUME TableInv, NEW s \in Sessions, NEW buf \in Slots, NEW len \in MapSizes, Mmap(s, buf, len)
  PROVE  TableInv'
BY DEF TableInv, TableTypeOK, OwnershipInverse, DmaOwned, DmaInBounds, MapsConfined, CallInv,
   Mmap, MayCall, tableVars, callVars, Alive

(* munmap() takes a mapping away.                                          *)
LEMMA MunmapStep == ASSUME TableInv, NEW m \in maps, Munmap(m) PROVE TableInv'
BY DEF TableInv, TableTypeOK, OwnershipInverse, DmaOwned, DmaInBounds, MapsConfined, CallInv,
   Munmap, tableVars, callVars, Alive

(* close() only ends the use of the fd.                                    *)
LEMMA CloseFdStep == ASSUME TableInv, NEW s \in Sessions, CloseFd(s) PROVE TableInv'
BY DEF TableInv, TableTypeOK, OwnershipInverse, DmaOwned, DmaInBounds, MapsConfined, CallInv,
   CloseFd, MayCall, tableVars, callVars, Alive

(* release() begins when no mapping keeps the file open.                   *)
LEMMA ReleaseStep == ASSUME TableInv, NEW s \in Sessions, Release(s) PROVE TableInv'
BY DEF TableInv, TableTypeOK, OwnershipInverse, DmaOwned, DmaInBounds, MapsConfined, CallInv,
   Release, tableVars, callVars, Alive

(* Nothing of the session is in flight, mapped or in progress any more.    *)
LEMMA ReleaseFreeStep == ASSUME TableInv, NEW s \in Sessions, ReleaseFree(s) PROVE TableInv'
<1> USE DEF TableInv, ReleaseFree
<1>1. TableTypeOK'
  BY Zenon DEF TableTypeOK, callVars
<1>2. OwnershipInverse'
  <2>1. \A i \in owned[s] : i \in Slots /\ ~ in_use'[i] /\ owner'[i] = NoSession
    BY Zenon DEF TableTypeOK
  <2>2. \A i \in Slots \ owned[s] : in_use'[i] = in_use[i] /\ owner'[i] = owner[i]
    BY Zenon DEF TableTypeOK
  <2>3. \A i \in Slots \ owned[s] : in_use[i] => owner[i] # s
    BY Zenon DEF OwnershipInverse
  <2>4. /\ \A u \in Sessions \ {s} : owned'[u] = owned[u] /\ Alive(u)' = Alive(u)
        /\ owned'[s] = {}
    BY Zenon DEF TableTypeOK, Alive
  <2>5. \A u \in Sessions, i \in Slots : i \in owned'[u] <=> in_use'[i] /\ owner'[i] = u
    BY <2>1, <2>2, <2>3, <2>4 DEF OwnershipInverse
  <2>6. \A i \in Slots : in_use'[i] <=> owner'[i] # NoSession
    BY <2>1, <2>2, Zenon DEF OwnershipInverse
  <2>7. \A i \in Slots : in_use'[i] => Alive(owner[i])' /\ owner'[i] = owner[i]
    BY <2>1, <2>2, <2>3, <2>4, BufferTableAssumption, Zenon DEF TableTypeOK, OwnershipInverse
  <2> QED
    BY <2>5, <2>6, <2>7, Zenon DEF OwnershipInverse
<1>3. DmaOwned' /\ DmaInBounds'
  BY Zenon DEF TableTypeOK, DmaOwned, DmaInBounds, CallInv, callVars
<1>4. MapsConfined' /\ CallInv'
  BY DEF TableTypeOK, MapsConfined, CallInv, callVars
<1> QED
  BY <1>1, <1>2, <1>3, <1>4, Zenon
-----------------------------------------------------------------------------
(* Every step keeps the invariant.                                         *)
LEMMA TableStep == ASSUME TableInv, [TableNext]_bufferVars PROVE TableInv'
<1>1. CASE \E s \in Sessions : Open(s)
  BY <1>1, OpenStep, Zenon
<1>2. CASE \E s \in Sessions, n \in AllocSizes : BufferAlloc(s, n)
  BY <1>2, AllocStep, BufferTableAssumption, Zenon
<1>3. CASE \E s \in Sessions : BufferAllocReturn(s) \/ BufferAllocFault(s)
  BY <1>3, AllocReturnStep, AllocFaultStep, Zenon
<1>4. CASE \E s \in Sessions, req \in Requests : Submit(s, req)
  BY <1>4, SubmitStep, Zenon
<1>5. CASE \E s \in Sessions : SubmitEnqueue(s) \/ SubmitInterrupted(s)
  BY <1>5, SubmitEnqueueStep, SubmitInterruptedStep, Zenon
<1>6. CASE \E s \in Sessions, buf \in Slots, len \in MapSizes : Mmap(s, buf, len)
  BY <1>6, MmapStep, Zenon
<1>7. CASE \E s \in Sessions : CloseFd(s) \/ Release(s) \/ ReleaseFree(s)
  BY <1>7, CloseFdStep, ReleaseStep, ReleaseFreeStep, Zenon
<1>8. CASE (\E c \in pending : CompleteDma(c)) \/ (\E m \in maps : Munmap(m))
  BY <1>8, CompleteDmaStep, MunmapStep, Zenon
<1>9. CASE UNCHANGED bufferVars
  BY <1>9 DEF bufferVars, TableInv, TableTypeOK, OwnershipInverse, DmaOwned, DmaInBounds, MapsConfined,
              CallInv, Alive
<1> QED
  BY <1>1, <1>2, <1>3, <1>4, <1>5, <1>6, <1>7, <1>8, <1>9, Zenon DEF TableNext

(* The inductive invariant holds in every reachable state.                 *)
THEOREM TableInvariance == TableSpec => []TableInv
<1>1. TableInit => TableInv
  BY InitTableInv, Zenon
<1>2. TableInv /\ [TableNext]_bufferVars => TableInv'
  BY TableStep, Zenon
<1> QED
  BY <1>1, <1>2, PTL DEF TableSpec

(* Every field of the buffer table keeps its type.                         *)
THEOREM TableTypeCorrect == TableSpec => []TableTypeOK
BY TableInvariance, PTL DEF TableInv

(* owned_buffers and the owner fields never disagree.                      *)
THEOREM OwnershipAlwaysInverse == TableSpec => []OwnershipInverse
BY TableInvariance, PTL DEF TableInv

(* No command outlives its buffers or reaches those of another session.    *)
THEOREM DmaAlwaysOwned == TableSpec => []DmaOwned
BY TableInvariance, PTL DEF TableInv

(* No command accepted by ioctl(SUBMIT) runs off the end of a buffer.      *)
THEOREM DmaAlwaysInBounds == TableSpec => []DmaInBounds
BY TableInvariance, PTL DEF TableInv

(* A user mapping never shows memory its session does not own.             *)
THEOREM MapsAlwaysConfined == TableSpec => []MapsConfined
BY TableInvariance, PTL DEF TableInv

(* A slot in use is freed only by its own session, and never passed on.    *)
THEOREM OnlyOwnersFree == TableSpec => FreedByOwnerOnly
<1> DEFINE A == \A i \in Slots : in_use[i] /\ owner'[i] # owner[i] =>
                  /\ ~ in_use'[i]
                  /\ \/ sess_state[owner[i]] = "draining" /\ sess_state'[owner[i]] = "freed"
                     \/ copyout[owner[i]] = i /\ copyout'[owner[i]] = -1
<1>1. ASSUME TableInv, [TableNext]_bufferVars PROVE [A]_bufferVars
  <2>1. CASE \E s \in Sessions, n \in AllocSizes : BufferAlloc(s, n)
    BY <1>1, <2>1, Zenon DEF TableInv, TableTypeOK, BufferAlloc, FirstFree
  <2>2. CASE \E s \in Sessions : BufferAllocFault(s)
    BY <1>1, <2>2 DEF TableInv, TableTypeOK, CallInv, OwnershipInverse, BufferAllocFault
  <2>3. CASE \E s \in Sessions : ReleaseFree(s)
    <3>1. PICK s \in Sessions : ReleaseFree(s)
      BY <2>3, Zenon
    <3>2. \A i \in Slots : owner'[i] # owner[i] => i \in owned[s]
      BY <3>1, Zenon DEF ReleaseFree
    <3>3. \A i \in Slots : i \in owned[s] => ~ in_use'[i]
      BY <3>1, Zenon DEF ReleaseFree
    <3>4. \A i \in Slots : i \in owned[s] => owner[i] = s
      BY <1>1, Zenon DEF TableInv, OwnershipInverse
    <3>5. sess_state[s] = "draining" /\ sess_state'[s] = "freed"
      BY <1>1, <3>1, Zenon DEF TableInv, TableTypeOK, ReleaseFree
    <3> QED
      BY <3>2, <3>3, <3>4, <3>5, Zenon
  <2>4. CASE \E s \in Sessions : Open(s) \/ BufferAllocReturn(s) \/ SubmitEnqueue(s)
                                \/ SubmitInterrupted(s) \/ CloseFd(s) \/ Release(s)
    BY <2>4, Zenon DEF tableVars, Open, BufferAllocReturn, SubmitEnqueue, SubmitInterrupted,
                CloseFd, Release
  <2>5. CASE \E s \in Sessions : \/ \E req \in Requests : Submit(s, req)
                                \/ \E buf \in Slots, len \in MapSizes : Mmap(s, buf, len)
    BY <2>5, Zenon DEF tableVars, Submit, Mmap
  <2>6. CASE (\E c \in pending : CompleteDma(c)) \/ (\E m \in maps : Munmap(m))
    BY <2>6, Zenon DEF tableVars, CompleteDma, Munmap
  <2>7. CASE UNCHANGED bufferVars
    BY <2>7, Zenon
  <2> QED
    BY <1>1, <2>1, <2>2, <2>3, <2>4, <2>5, <2>6, <2>7, Zenon DEF TableNext
<1>2. [][A]_bufferVars <=> FreedByOwnerOnly
  BY Zenon DEF FreedByOwnerOnly
<1> QED
  BY <1>1, <1>2, TableInvariance, PTL DEF TableSpec

-----------------------------------------------------------------------------
(* Dependency                                                              *)

(* The facts that make the invariants inductive: a ready fence's command   *)
(* has completed, only a command given to the device completes, a deferred *)
(* command depends on registered ones, and one that is not hasty was       *)
(* submitted with its groups sealed.                                       *)
Base ==
  /\ TypeOK
  /\ ready \subseteq Posted
  /\ Posted \subseteq Fences \cup submitted
  /\ \A c \in Cmds : Range(pending_deps[c]) \subseteq 1..registered
  /\ submitted \cap blocked = {}
  /\ \A c \in submitted : c \notin hasty => Range(group_deps[c]) \subseteq sealed

-----------------------------------------------------------------------------
(* Lemmas about the operators                                              *)

(* What push_back does to the set of elements.                             *)
LEMMA RangeAppend ==
  ASSUME NEW T, NEW s \in Seq(T), NEW x \in T
  PROVE  Append(s, x) \in Seq(T) /\ Range(Append(s, x)) = Range(s) \cup {x}
<1> DEFINE a == Append(s, x)
<1>1. a \in Seq(T) /\ Len(a) = Len(s) + 1 /\ a[Len(s) + 1] = x
  OBVIOUS
<1>2. \A i \in 1..Len(s) : a[i] = s[i]
  OBVIOUS
<1>3. DOMAIN s = 1..Len(s) /\ DOMAIN a = 1..(Len(s) + 1) /\ Len(s) \in Nat
  BY <1>1
<1>4. \A y : y \in Range(a) <=> y \in Range(s) \cup {x}
  <2> HIDE DEF a
  <2> QED BY <1>1, <1>2, <1>3 DEF Range
<1> QED
  BY <1>1, <1>4, Zenon

(* Nothing is in the empty sequence.                                       *)
LEMMA RangeEmpty == Range(<<>>) = {}
BY DEF Range

(* A nonempty set of indices has a least one.                              *)
LEMMA Least ==
  ASSUME NEW T, T \subseteq Nat, T # {}
  PROVE  \E m \in T : \A k \in T : m <= k
<1>1. \E m \in T : \A k \in T : ~ (<<k, m>> \in OpToRel(<, Nat))
  BY NatLessThanWellFounded, WFMin, Zenon
<1>2. PICK m \in T : \A k \in T : ~ (<<k, m>> \in OpToRel(<, Nat))
  BY <1>1, Zenon
<1>3. OpToRel(<, Nat) = {ss \in Nat \X Nat : ss[1] < ss[2]}
  BY Zenon DEF OpToRel
<1>4. \A k \in T : m <= k
  <2> TAKE k \in T
  <2>1. <<k, m>> \in Nat \X Nat /\ ~ (<<k, m>> \in {ss \in Nat \X Nat : ss[1] < ss[2]})
    BY <1>2, <1>3, Zenon
  <2>2. ~ (k < m)
    BY <2>1, Zenon
  <2> QED
    BY <2>2
<1> QED
  BY <1>4, Zenon

Outcomes == {"ok", "failed", "pending"}

(* The loops of progress() submit only when every entry is satisfied.      *)
LEMMA VerdictOk ==
  ASSUME NEW n \in Nat, NEW o \in [1..n -> Outcomes], Verdict(o) = "ok"
  PROVE  \A i \in 1..n : o[i] = "ok"
<1> DEFINE Bad == {i \in 1..n : o[i] # "ok"}
<1> SUFFICES ASSUME Bad # {} PROVE FALSE
  BY Zenon
<1>1. PICK m \in Bad : \A k \in Bad : m <= k
  <2>1. Bad \subseteq Nat
    OBVIOUS
  <2> HIDE DEF Bad
  <2> QED BY <2>1, Least, Zenon
<1>2. m \in DOMAIN o /\ \A j \in 1..(m - 1) : o[j] = "ok"
  BY <1>1
<1>3. o[m] = "pending" \/ o[m] = "failed"
  BY <1>1, Zenon DEF Outcomes
<1> QED
  BY <1>2, <1>3, Zenon DEF Verdict

(* They block only when some entry has failed.                             *)
LEMMA VerdictFailed ==
  ASSUME NEW o, Verdict(o) = "failed"
  PROVE  \E i \in DOMAIN o : o[i] = "failed"
BY Zenon DEF Verdict

(* They wait only when some entry is pending.                              *)
LEMMA VerdictPending ==
  ASSUME NEW o, Verdict(o) = "pending"
  PROVE  \E i \in DOMAIN o : o[i] = "pending"
BY Zenon DEF Verdict

(* The loop over the dependencies ends with an outcome.                    *)
LEMMA VerdictType == \A o : Verdict(o) \in Outcomes
BY Zenon DEF Verdict, Outcomes

-----------------------------------------------------------------------------
(* The basic invariant                                                     *)

(* Before the first call there is nothing to relate.                       *)
LEMMA BaseInit == Init => Base
<1> SUFFICES ASSUME Init PROVE Base
  BY Zenon
<1> USE DEF Init
<1>1. TypeOK
  BY DependencyAssumption DEF TypeOK
<1>2. Posted = {}
  BY Zenon DEF Posted
<1>3. \A c \in Cmds : Range(pending_deps[c]) \subseteq 1..registered
  BY RangeEmpty, Zenon
<1> QED
  BY <1>1, <1>2, <1>3, Zenon DEF Base

(* depends_on(), add() and the other calls of the caller.                  *)
LEMMA BaseCalls ==
  ASSUME Base, Calls
  PROVE  Base'
<1> USE DEF Base, TypeOK, Posted, depVars, groupVars
<1>1. CASE DeferSubmit
  BY <1>1, DependencyAssumption DEF DeferSubmit
<1>2. CASE \E g \in Groups : Seal(g)
  BY <1>2, Zenon DEF Seal
<1>3. CASE \E g \in Groups : Query(g)
  BY <1>3, Zenon DEF Query
<1>4. CASE \E g \in Groups, f \in Fences : Add(g, f)
  <2> PICK g \in Groups, f \in Fences : Add(g, f)
    BY <1>4, Zenon
  <2>1. Append(members[g], f) \in Seq(Fences)
    BY RangeAppend, Zenon
  <2> QED
    BY <2>1, Zenon DEF Add
<1>5. CASE \E c \in Cmds, f \in Fences : DependsOnFence(c, f)
  <2> PICK c \in Cmds, f \in Fences : DependsOnFence(c, f)
    BY <1>5, Zenon
  <2>1. Append(fence_deps[c], f) \in Seq(Fences)
    BY RangeAppend, Zenon
  <2> QED
    BY <2>1, Zenon DEF DependsOnFence
<1>6. CASE \E c \in Cmds, g \in Groups : DependsOnGroup(c, g)
  <2> PICK c \in Cmds, g \in Groups : DependsOnGroup(c, g)
    BY <1>6, Zenon
  <2>1. Append(group_deps[c], g) \in Seq(Groups)
    BY RangeAppend, Zenon
  <2>2. \A b \in submitted : group_deps'[b] = group_deps[b]
    BY Zenon DEF DependsOnGroup, MayDepend
  <2> QED
    BY <2>1, <2>2, Zenon DEF DependsOnGroup
<1>7. CASE \E c \in Cmds, d \in Cmds : DependsOnPending(c, d)
  <2> PICK c \in Cmds, d \in Cmds : DependsOnPending(c, d)
    BY <1>7, Zenon
  <2>1. /\ Append(pending_deps[c], d) \in Seq(Cmds)
        /\ Range(Append(pending_deps[c], d)) = Range(pending_deps[c]) \cup {d}
    BY RangeAppend
  <2>2. d \in 1..registered
    BY DependencyAssumption DEF DependsOnPending, Cmds
  <2>3. pending_deps' = [pending_deps EXCEPT ![c] = Append(pending_deps[c], d)]
    BY Zenon DEF DependsOnPending
  <2>4. \A b \in Cmds : Range(pending_deps'[b]) \subseteq 1..registered
    BY <2>1, <2>2, <2>3, SMTT(30)
  <2> QED
    BY <2>1, <2>3, <2>4, SMTT(30) DEF DependsOnPending
<1> QED
  BY <1>1, <1>2, <1>3, <1>4, <1>5, <1>6, <1>7, Zenon DEF Calls

(* progress() and the device.                                              *)
LEMMA BaseRun ==
  ASSUME Base,
         \/ ProgressCall \/ Pass \/ Device
         \/ \E c \in Cmds : SubmitNow(c) \/ SubmitThrows(c)
  PROVE  Base'
<1> USE DependencyAssumption DEF Base, TypeOK, Posted, depVars, groupVars
<1>1. CASE ProgressCall
  BY <1>1 DEF ProgressCall
<1>2. CASE PassEnds
  BY <1>2, SMTT(30) DEF PassEnds
<1>3. CASE \E c \in Cmds : Block(c)
  <2> PICK c \in Cmds : Block(c)
    BY <1>3, Zenon
  <2>1. c \in 1..registered /\ c \notin submitted
    BY DEF Block, Decides, Cmds
  <2>2. at' \in 0..registered' + 1
    BY <2>1 DEF Block
  <2>3. TypeOK'
    BY <2>2, SMTT(30) DEF Block
  <2> QED
    BY <2>1, <2>3, Zenon DEF Block
<1>4. CASE \E c \in Cmds : SubmitNow(c)
  <2> PICK c \in Cmds : SubmitNow(c)
    BY <1>4, Zenon
  <2>1. c \in 1..registered /\ c \notin blocked
    BY DEF SubmitNow, Decides, Cmds
  <2>2. at' \in 0..registered' + 1
    BY <2>1 DEF SubmitNow
  <2>3. ready' \subseteq Posted /\ Posted' = Posted
    BY Zenon DEF SubmitNow
  <2>4. TypeOK'
    BY <2>2, <2>3, Zenon DEF SubmitNow
  <2>5. \A b \in submitted' : b \notin hasty' => Range(group_deps'[b]) \subseteq sealed'
    BY Zenon DEF SubmitNow
  <2>6. \A b \in Cmds : Range(pending_deps'[b]) \subseteq 1..registered'
    BY Zenon DEF SubmitNow
  <2>7. Posted' \subseteq Fences \cup submitted' /\ submitted' \cap blocked' = {}
    BY <2>1, <2>3, Zenon DEF SubmitNow
  <2> HIDE DEF TypeOK, Posted
  <2> QED
    BY <2>3, <2>4, <2>5, <2>6, <2>7, Zenon
<1>5. CASE \E c \in Cmds : SubmitThrows(c)
  <2> PICK c \in Cmds : SubmitThrows(c)
    BY <1>5, Zenon
  <2>1. ready' \subseteq Posted /\ Posted' = Posted
    BY Zenon DEF SubmitThrows
  <2>2. at' \in 0..registered' + 1
    BY DEF SubmitThrows
  <2>3. TypeOK'
    BY <2>1, <2>2, Zenon DEF SubmitThrows
  <2> HIDE DEF TypeOK, Posted
  <2> QED
    BY <2>1, <2>3, Zenon DEF SubmitThrows, Posted
<1>6. CASE Device
  <2> PICK x \in Items, outcome \in {"ok", "failed"} : Complete(x, outcome)
    BY <1>6, Zenon DEF Device
  <2> QED
    BY Zenon DEF Complete
<1> QED
  BY <1>1, <1>2, <1>3, <1>4, <1>5, <1>6, Zenon DEF Pass

(* Every step keeps the basic invariant.                                   *)
LEMMA BaseStep == Base /\ [Next]_vars => Base'
<1>1. ASSUME Base, UNCHANGED vars PROVE Base'
  BY <1>1, Zenon DEF vars, depVars, groupVars, Base, TypeOK, Posted
<1> QED
  BY <1>1, BaseCalls, BaseRun, Zenon DEF Next

(* The vectors, flags and the cursor of progress() keep their types.       *)
THEOREM TypeCorrect == Spec => []TypeOK
<1>1. Base => TypeOK
  BY SMTT(30) DEF Base
<1> QED
  BY <1>1, BaseInit, BaseStep, PTL DEF Spec

-----------------------------------------------------------------------------
(* What a step never takes back                                            *)

Monotone ==
  /\ \A c \in Cmds :
       /\ Range(fence_deps[c]) \subseteq Range(fence_deps'[c])
       /\ Range(group_deps[c]) \subseteq Range(group_deps'[c])
       /\ Range(pending_deps[c]) \subseteq Range(pending_deps'[c])
  /\ \A c \in submitted :
       /\ fence_deps'[c] = fence_deps[c]
       /\ group_deps'[c] = group_deps[c]
       /\ pending_deps'[c] = pending_deps[c]
  /\ \A g \in Groups : Range(members[g]) \subseteq Range(members'[g])
  /\ sealed \subseteq sealed' /\ \A g \in sealed : members'[g] = members[g]
  /\ submitted \subseteq submitted' /\ blocked \subseteq blocked' /\ hasty \subseteq hasty'
  /\ ready \subseteq ready'
  /\ \A x \in Posted : result'[x] = result[x]

(* Dependencies are only added, and only to commands not submitted; groups *)
(* only grow, and only until sealed; a completion is never revised.        *)
LEMMA StepsMonotone == Base /\ [Next]_vars => Monotone
<1> SUFFICES ASSUME Base, [Next]_vars PROVE Monotone
  BY SMTT(30)
<1> USE DEF Monotone, depVars, groupVars
<1>0. ready \subseteq Posted
  BY Zenon DEF Base
<1>1. CASE UNCHANGED vars
  BY <1>1, Zenon DEF vars
<1>2. CASE DeferSubmit
  BY <1>2, Zenon DEF DeferSubmit
<1>3. CASE \E g \in Groups : Seal(g)
  BY <1>3, Zenon DEF Seal
<1>4. CASE \E g \in Groups : Query(g)
  BY <1>0, <1>4, Zenon DEF Query
<1>5. CASE \E g \in Groups, f \in Fences : Add(g, f)
  <2> PICK g \in Groups, f \in Fences : Add(g, f)
    BY <1>5, Zenon
  <2>1. members \in [Groups -> Seq(Fences)]
    BY Zenon DEF Base, TypeOK
  <2>2. Range(Append(members[g], f)) = Range(members[g]) \cup {f}
    BY <2>1, RangeAppend
  <2>3. \A h \in Groups : members'[h] = IF h = g THEN Append(members[g], f) ELSE members[h]
    BY <2>1, Zenon DEF Add
  <2>4. g \notin sealed /\ sealed \subseteq Groups
    BY Zenon DEF Add, Base, TypeOK
  <2> QED
    BY <2>2, <2>3, <2>4, Zenon DEF Add
<1>6. CASE \E c \in Cmds, f \in Fences : DependsOnFence(c, f)
  <2> PICK c \in Cmds, f \in Fences : DependsOnFence(c, f)
    BY <1>6, Zenon
  <2>1. fence_deps \in [Cmds -> Seq(Fences)] /\ submitted \subseteq Cmds
    BY Zenon DEF Base, TypeOK
  <2>2. Range(Append(fence_deps[c], f)) = Range(fence_deps[c]) \cup {f}
    BY <2>1, RangeAppend
  <2>3. \A b \in Cmds :
          fence_deps'[b] = IF b = c THEN Append(fence_deps[c], f) ELSE fence_deps[b]
    BY <2>1, Zenon DEF DependsOnFence
  <2> QED
    BY <2>1, <2>2, <2>3, Zenon DEF DependsOnFence, MayDepend
<1>7. CASE \E c \in Cmds, g \in Groups : DependsOnGroup(c, g)
  <2> PICK c \in Cmds, g \in Groups : DependsOnGroup(c, g)
    BY <1>7, Zenon
  <2>1. group_deps \in [Cmds -> Seq(Groups)] /\ submitted \subseteq Cmds
    BY Zenon DEF Base, TypeOK
  <2>2. Range(Append(group_deps[c], g)) = Range(group_deps[c]) \cup {g}
    BY <2>1, RangeAppend
  <2>3. \A b \in Cmds :
          group_deps'[b] = IF b = c THEN Append(group_deps[c], g) ELSE group_deps[b]
    BY <2>1, Zenon DEF DependsOnGroup
  <2> QED
    BY <2>1, <2>2, <2>3, Zenon DEF DependsOnGroup, MayDepend
<1>8. CASE \E c \in Cmds, d \in Cmds : DependsOnPending(c, d)
  <2> PICK c \in Cmds, d \in Cmds : DependsOnPending(c, d)
    BY <1>8, Zenon
  <2>1. pending_deps \in [Cmds -> Seq(Cmds)] /\ submitted \subseteq Cmds
    BY Zenon DEF Base, TypeOK
  <2>2. Range(Append(pending_deps[c], d)) = Range(pending_deps[c]) \cup {d}
    BY <2>1, RangeAppend
  <2>3. \A b \in Cmds :
          pending_deps'[b] = IF b = c THEN Append(pending_deps[c], d) ELSE pending_deps[b]
    BY <2>1, Zenon DEF DependsOnPending
  <2> QED
    BY <2>1, <2>2, <2>3, Zenon DEF DependsOnPending, MayDepend
<1>9. CASE ProgressCall \/ Pass
  BY <1>0, <1>9, Zenon DEF ProgressCall, Pass, PassEnds, Block
<1>10. CASE \E c \in Cmds : SubmitNow(c) \/ SubmitThrows(c)
  BY <1>0, <1>10, Zenon DEF SubmitNow, SubmitThrows
<1>11. CASE Device
  <2> PICK x \in Items, outcome \in {"ok", "failed"} : Complete(x, outcome)
    BY <1>11, Zenon DEF Device
  <2>1. \A y \in Posted : result'[y] = result[y]
    BY Zenon DEF Complete, Posted, Base, TypeOK
  <2> QED
    BY <2>1, Zenon DEF Complete
<1> QED
  BY <1>1, <1>2, <1>3, <1>4, <1>5, <1>6, <1>7, <1>8, <1>9, <1>10, <1>11, Zenon DEF Next, Calls

-----------------------------------------------------------------------------
(* No cycles                                                               *)

(* An edge c -> d that closes no cycle keeps the graph acyclic: a closed   *)
(* set holds d and not c, and a cycle would have to leave it through c.    *)
LEMMA EdgeKeepsAcyclic ==
  ASSUME Base, Acyclic, NEW c \in Cmds, NEW d \in Cmds, DependsOnPending(c, d)
  PROVE  Acyclic'
<1>1. pending_deps \in [Cmds -> Seq(Cmds)]
  BY Zenon DEF Base, TypeOK
<1>2. PICK Z \in SUBSET Cmds : d \in Z /\ Closed(Z) /\ c \notin Z
  BY Zenon DEF DependsOnPending, Reachable
<1>3. Range(Append(pending_deps[c], d)) = Range(pending_deps[c]) \cup {d}
  BY <1>1, RangeAppend
<1>4. \A b \in Cmds :
        Range(pending_deps'[b]) = IF b = c THEN Range(pending_deps[c]) \cup {d}
                                  ELSE Range(pending_deps[b])
  BY <1>1, <1>3, Zenon DEF DependsOnPending
<1> SUFFICES ASSUME NEW S \in SUBSET Cmds, S # {}
             PROVE  \E b \in S : Range(pending_deps'[b]) \cap S = {}
  BY Zenon DEF Acyclic
<1>5. CASE S \cap Z # {}
  <2>1. PICK b \in S \cap Z : Range(pending_deps[b]) \cap (S \cap Z) = {}
    BY <1>5, Zenon DEF Acyclic
  <2>2. Range(pending_deps[b]) \cap S = {}
    BY <1>2, <2>1, Zenon DEF Closed
  <2> QED
    BY <1>2, <1>4, <2>1, <2>2, Zenon
<1>6. CASE S \cap Z = {}
  <2>1. PICK b \in S : Range(pending_deps[b]) \cap S = {}
    BY Zenon DEF Acyclic
  <2> QED
    BY <1>2, <1>4, <1>6, <2>1
<1> QED
  BY <1>5, <1>6, Zenon

(* Every step keeps the commands free of cycles.                           *)
LEMMA AcyclicStep == Base /\ Acyclic /\ [Next]_vars => Acyclic'
<1> SUFFICES ASSUME Base, Acyclic, [Next]_vars PROVE Acyclic'
  BY Zenon
<1>1. CASE \E c \in Cmds, d \in Cmds : DependsOnPending(c, d)
  BY <1>1, EdgeKeepsAcyclic, Zenon
<1>2. CASE pending_deps' = pending_deps
  BY <1>2, SMTT(30) DEF Acyclic
<1>3. \/ \E c \in Cmds, d \in Cmds : DependsOnPending(c, d)
      \/ pending_deps' = pending_deps
  BY Zenon DEF Next, Calls, DeferSubmit, Seal, Query, Add, DependsOnFence, DependsOnGroup,
         ProgressCall, Pass, PassEnds, Block, Device, Complete, SubmitNow, SubmitThrows,
         vars, depVars
<1> QED
  BY <1>1, <1>2, <1>3, Zenon

(* There is no cycle while nothing is registered.                          *)
LEMMA AcyclicInit == Init => Acyclic
BY RangeEmpty DEF Init, Acyclic

(* The check of reachable() in depends_on() is enough: the dependencies of *)
(* the deferred commands never form a cycle.                               *)
THEOREM NoCycles == Spec => []Acyclic
BY BaseInit, BaseStep, AcyclicInit, AcyclicStep, PTL DEF Spec

-----------------------------------------------------------------------------
(* What progress() concludes about a command                               *)

FenceVerdict(c) == Verdict([i \in DOMAIN fence_deps[c] |-> FenceOutcome(fence_deps[c][i])])
GroupVerdict(c) == Verdict([i \in DOMAIN group_deps[c] |-> GroupOutcome(group_deps[c][i])])
PendingVerdict(c) ==
  Verdict([i \in DOMAIN pending_deps[c] |-> PendingOutcome(pending_deps[c][i])])

(* The three loops, one after another.                                     *)
LEMMA VerdictOfThree ==
  ASSUME NEW a \in Outcomes, NEW b \in Outcomes, NEW e \in Outcomes
  PROVE  /\ Verdict(<<a, b, e>>) = "ok" => a = "ok" /\ b = "ok" /\ e = "ok"
         /\ Verdict(<<a, b, e>>) = "failed" => a = "failed" \/ b = "failed" \/ e = "failed"
         /\ Verdict(<<a, b, e>>) = "pending" => a = "pending" \/ b = "pending" \/ e = "pending"
<1> DEFINE o == <<a, b, e>>
<1>1. DOMAIN o = 1..3 /\ o[1] = a /\ o[2] = b /\ o[3] = e
  OBVIOUS
<1>2. o \in [1..3 -> Outcomes]
  OBVIOUS
<1> HIDE DEF o
<1>3. Verdict(o) = "ok" => \A i \in 1..3 : o[i] = "ok"
  BY <1>2, VerdictOk, Zenon
<1>4. Verdict(o) = "failed" => \E i \in 1..3 : o[i] = "failed"
  BY <1>1, VerdictFailed, Zenon
<1>5. Verdict(o) = "pending" => \E i \in 1..3 : o[i] = "pending"
  BY <1>1, VerdictPending, Zenon
<1>6. /\ Verdict(o) = "ok" => a = "ok" /\ b = "ok" /\ e = "ok"
      /\ Verdict(o) = "failed" => a = "failed" \/ b = "failed" \/ e = "failed"
      /\ Verdict(o) = "pending" => a = "pending" \/ b = "pending" \/ e = "pending"
  BY <1>1, <1>3, <1>4, <1>5
<1> QED
  BY <1>6, Zenon DEF o

(* What an answer about a command says of its three kinds of dependencies. *)
LEMMA EligibilityOf ==
  ASSUME NEW c
  PROVE  /\ Eligibility(c) = "ok" =>
              FenceVerdict(c) = "ok" /\ GroupVerdict(c) = "ok" /\ PendingVerdict(c) = "ok"
         /\ Eligibility(c) = "failed" =>
              \/ FenceVerdict(c) = "failed" \/ GroupVerdict(c) = "failed"
              \/ PendingVerdict(c) = "failed"
         /\ Eligibility(c) = "pending" =>
              \/ FenceVerdict(c) = "pending" \/ GroupVerdict(c) = "pending"
              \/ PendingVerdict(c) = "pending"
<1>1. Eligibility(c) = Verdict(<<FenceVerdict(c), GroupVerdict(c), PendingVerdict(c)>>)
  BY Zenon DEF Eligibility, FenceVerdict, GroupVerdict, PendingVerdict
<1>2. FenceVerdict(c) \in Outcomes /\ GroupVerdict(c) \in Outcomes /\ PendingVerdict(c) \in Outcomes
  BY VerdictType, Zenon DEF FenceVerdict, GroupVerdict, PendingVerdict
<1> QED
  BY <1>1, <1>2, VerdictOfThree

(* is_ready() and status() of a fence.                                     *)
LEMMA FenceOutcomeType ==
  ASSUME Base, NEW x \in Items
  PROVE  /\ FenceOutcome(x) \in Outcomes
         /\ FenceOutcome(x) = "ok" <=> Ok(x)
         /\ FenceOutcome(x) = "failed" => result[x] = "failed"
         /\ FenceOutcome(x) = "pending" <=> x \notin ready
BY Zenon DEF Base, TypeOK, Posted, FenceOutcome, Outcomes, Ok

(* The loop over a list of fences: a command's own, or a group's.          *)
LEMMA FenceList ==
  ASSUME Base, NEW s \in Seq(Fences)
  PROVE  LET v == Verdict([i \in DOMAIN s |-> FenceOutcome(s[i])]) IN
         /\ v = "ok" => \A f \in Range(s) : Ok(f)
         /\ v = "failed" => \E f \in Range(s) : result[f] = "failed"
         /\ v = "pending" => \E f \in Range(s) : f \notin ready
<1> DEFINE o == [i \in DOMAIN s |-> FenceOutcome(s[i])]
<1>1. \A i \in DOMAIN s : s[i] \in Items /\ s[i] \in Range(s)
  BY DEF Items, Range
<1>2. DOMAIN s = 1..Len(s) /\ Len(s) \in Nat
  OBVIOUS
<1>3. o \in [1..Len(s) -> Outcomes]
  BY <1>1, <1>2, FenceOutcomeType, Zenon
<1>4. DOMAIN o = DOMAIN s /\ \A i \in DOMAIN s : o[i] = FenceOutcome(s[i])
  BY Zenon
<1>5. \A f \in Range(s) : \E i \in DOMAIN s : f = s[i]
  BY Zenon DEF Range
<1> HIDE DEF o
<1>6. Verdict(o) = "ok" => \A i \in DOMAIN s : o[i] = "ok"
  BY <1>2, <1>3, VerdictOk, Zenon
<1>7. Verdict(o) = "failed" => \E i \in DOMAIN s : o[i] = "failed"
  BY <1>4, VerdictFailed, Zenon
<1>8. Verdict(o) = "pending" => \E i \in DOMAIN s : o[i] = "pending"
  BY <1>4, VerdictPending, Zenon
<1>9. /\ Verdict(o) = "ok" => \A f \in Range(s) : Ok(f)
      /\ Verdict(o) = "failed" => \E f \in Range(s) : result[f] = "failed"
      /\ Verdict(o) = "pending" => \E f \in Range(s) : f \notin ready
  BY <1>1, <1>4, <1>5, <1>6, <1>7, <1>8, FenceOutcomeType
<1> QED
  BY <1>9, Zenon DEF o

(* What an answer about a group says of its members.                       *)
LEMMA GroupOutcomeOf ==
  ASSUME Base, NEW g \in Groups
  PROVE  /\ GroupOutcome(g) = "ok" => \A f \in Range(members[g]) : Ok(f)
         /\ GroupOutcome(g) = "failed" => \E f \in Range(members[g]) : result[f] = "failed"
         /\ GroupOutcome(g) = "pending" => \E f \in Range(members[g]) : f \notin ready
<1>1. members[g] \in Seq(Fences)
  BY Zenon DEF Base, TypeOK
<1> QED
  BY <1>1, FenceList, Zenon DEF GroupOutcome

(* What an answer about the fences of a command says of them;              *)
LEMMA FenceVerdictOf ==
  ASSUME Base, NEW c \in Cmds
  PROVE  /\ FenceVerdict(c) = "ok" => \A f \in Range(fence_deps[c]) : Ok(f)
         /\ FenceVerdict(c) = "failed" => \E f \in Range(fence_deps[c]) : result[f] = "failed"
         /\ FenceVerdict(c) = "pending" => \E f \in Range(fence_deps[c]) : f \notin ready
<1>1. fence_deps[c] \in Seq(Fences)
  BY Zenon DEF Base, TypeOK
<1> QED
  BY <1>1, FenceList, Zenon DEF FenceVerdict

(* about its groups;                                                       *)
LEMMA GroupVerdictOf ==
  ASSUME Base, NEW c \in Cmds
  PROVE  /\ GroupVerdict(c) = "ok" =>
              \A g \in Range(group_deps[c]) : \A f \in Range(members[g]) : Ok(f)
         /\ GroupVerdict(c) = "failed" =>
              \E g \in Range(group_deps[c]) : \E f \in Range(members[g]) : result[f] = "failed"
         /\ GroupVerdict(c) = "pending" =>
              \E g \in Range(group_deps[c]) : \E f \in Range(members[g]) : f \notin ready
<1> DEFINE s == group_deps[c]
           o == [i \in DOMAIN s |-> GroupOutcome(s[i])]
<1>1. s \in Seq(Groups)
  BY Zenon DEF Base, TypeOK
<1>2. \A i \in DOMAIN s : s[i] \in Groups /\ s[i] \in Range(s)
  BY <1>1 DEF Range
<1>3. DOMAIN s = 1..Len(s) /\ Len(s) \in Nat
  BY <1>1
<1>4. o \in [1..Len(s) -> Outcomes]
  BY <1>3, VerdictType, Zenon DEF GroupOutcome
<1>5. GroupVerdict(c) = Verdict(o)
  BY Zenon DEF GroupVerdict
<1>6. \A i \in DOMAIN s : o[i] = GroupOutcome(s[i])
  BY Zenon
<1>7. \A g \in Range(s) : \E i \in DOMAIN s : g = s[i]
  BY Zenon DEF Range
<1>8. DOMAIN o = DOMAIN s
  BY Zenon
<1> HIDE DEF o
<1>9. Verdict(o) = "ok" => \A i \in DOMAIN s : o[i] = "ok"
  BY <1>3, <1>4, VerdictOk, Zenon
<1>10. Verdict(o) = "failed" => \E i \in DOMAIN s : o[i] = "failed"
  BY <1>8, VerdictFailed, Zenon
<1>11. Verdict(o) = "pending" => \E i \in DOMAIN s : o[i] = "pending"
  BY <1>8, VerdictPending, Zenon
<1> HIDE DEF s
<1>12. /\ Verdict(o) = "ok" => \A g \in Range(s) : \A f \in Range(members[g]) : Ok(f)
       /\ Verdict(o) = "failed" =>
            \E g \in Range(s) : \E f \in Range(members[g]) : result[f] = "failed"
       /\ Verdict(o) = "pending" =>
            \E g \in Range(s) : \E f \in Range(members[g]) : f \notin ready
  BY <1>2, <1>6, <1>7, <1>9, <1>10, <1>11, GroupOutcomeOf
<1> QED
  BY <1>5, <1>12, Zenon DEF s

(* and about the deferred commands it waits for.                           *)
LEMMA PendingVerdictOf ==
  ASSUME Base, NEW c \in Cmds
  PROVE  /\ PendingVerdict(c) = "ok" =>
              \A d \in Range(pending_deps[c]) : d \in submitted /\ Ok(d)
         /\ PendingVerdict(c) = "failed" =>
              \E d \in Range(pending_deps[c]) : d \in blocked \/ result[d] = "failed"
         /\ PendingVerdict(c) = "pending" =>
              \E d \in Range(pending_deps[c]) :
                d \notin blocked /\ (d \notin submitted \/ d \notin ready)
<1> DEFINE s == pending_deps[c]
           o == [i \in DOMAIN s |-> PendingOutcome(s[i])]
<1>1. s \in Seq(Cmds)
  BY Zenon DEF Base, TypeOK
<1>2. \A i \in DOMAIN s : s[i] \in Items /\ s[i] \in Range(s)
  BY <1>1 DEF Items, Range
<1>3. DOMAIN s = 1..Len(s) /\ Len(s) \in Nat
  BY <1>1
<1>4. o \in [1..Len(s) -> Outcomes]
  BY <1>2, <1>3, FenceOutcomeType, Zenon DEF PendingOutcome, Outcomes
<1>5. PendingVerdict(c) = Verdict(o)
  BY Zenon DEF PendingVerdict
<1>6. \A i \in DOMAIN s : o[i] = PendingOutcome(s[i])
  BY Zenon
<1>7. \A d \in Range(s) : \E i \in DOMAIN s : d = s[i]
  BY Zenon DEF Range
<1>8. DOMAIN o = DOMAIN s
  BY Zenon
<1> HIDE DEF o
<1>9. Verdict(o) = "ok" => \A i \in DOMAIN s : o[i] = "ok"
  BY <1>3, <1>4, VerdictOk, Zenon
<1>10. Verdict(o) = "failed" => \E i \in DOMAIN s : o[i] = "failed"
  BY <1>8, VerdictFailed, Zenon
<1>11. Verdict(o) = "pending" => \E i \in DOMAIN s : o[i] = "pending"
  BY <1>8, VerdictPending, Zenon
<1> HIDE DEF s
<1>12. /\ Verdict(o) = "ok" => \A d \in Range(s) : d \in submitted /\ Ok(d)
       /\ Verdict(o) = "failed" => \E d \in Range(s) : d \in blocked \/ result[d] = "failed"
       /\ Verdict(o) = "pending" =>
            \E d \in Range(s) : d \notin blocked /\ (d \notin submitted \/ d \notin ready)
  BY <1>2, <1>6, <1>7, <1>9, <1>10, <1>11, FenceOutcomeType DEF PendingOutcome
<1> QED
  BY <1>5, <1>12, Zenon DEF s

-----------------------------------------------------------------------------
(* The theorems about progress()                                           *)

(* A pass over a quiet system decides something: some command waits for    *)
(* none that is undecided.                                                 *)
LEMMA AcyclicNoStall == Base /\ Acyclic => NoStall
<1> SUFFICES ASSUME Base, Acyclic, Fences \cup submitted \subseteq ready, Waiting # {},
                    \A c \in Waiting : Eligibility(c) = "pending"
             PROVE  FALSE
  BY Zenon DEF NoStall
<1>1. Waiting \subseteq Cmds
  BY DependencyAssumption DEF Waiting, Cmds, Base, TypeOK
<1>2. PICK c \in Waiting : Range(pending_deps[c]) \cap Waiting = {}
  BY <1>1, Zenon DEF Acyclic
<1>3. c \in Cmds /\ Eligibility(c) = "pending"
  BY <1>1, Zenon
<1>4. FenceVerdict(c) # "pending"
  <2>1. Range(fence_deps[c]) \subseteq Fences
    BY <1>3 DEF Base, TypeOK, Range
  <2> QED
    BY <1>3, <2>1, FenceVerdictOf, Zenon
<1>5. GroupVerdict(c) # "pending"
  <2>1. Range(group_deps[c]) \subseteq Groups
    BY <1>3 DEF Base, TypeOK, Range
  <2>2. \A g \in Groups : Range(members[g]) \subseteq Fences
    BY DEF Base, TypeOK, Range
  <2> QED
    BY <1>3, <2>1, <2>2, GroupVerdictOf, Zenon
<1>6. PendingVerdict(c) # "pending"
  <2>1. Range(pending_deps[c]) \subseteq submitted \cup blocked
    BY <1>2, <1>3, Zenon DEF Base, Waiting
  <2> QED
    BY <1>3, <2>1, PendingVerdictOf, Zenon
<1> QED
  BY <1>3, <1>4, <1>5, <1>6, EligibilityOf, Zenon

(* Deferred commands never wait on one another only: once everything given *)
(* to the device is complete, a pass of progress() decides one of them.    *)
THEOREM NeverStalls == Spec => []NoStall
BY BaseInit, BaseStep, AcyclicInit, AcyclicStep, AcyclicNoStall, PTL DEF Spec

(* A command that has succeeded stays so.                                  *)
LEMMA OkStays ==
  ASSUME Base, Monotone, NEW x, Ok(x)
  PROVE  Ok(x)'
BY SMTT(30) DEF Base, Monotone, Ok

(* Only a pass of progress() submits a command,                            *)
LEMMA NewlySubmitted ==
  ASSUME Next, NEW c, c \in submitted', c \notin submitted
  PROVE  c \in Cmds /\ SubmitNow(c)
BY ZenonT(30) DEF Next, Calls, DeferSubmit, Seal, Query, Add, DependsOnFence, DependsOnGroup,
       DependsOnPending, ProgressCall, Pass, PassEnds, Block, Device, Complete,
       SubmitNow, SubmitThrows

(* and only a pass blocks one.                                             *)
LEMMA NewlyBlocked ==
  ASSUME Next, NEW c, c \in blocked', c \notin blocked
  PROVE  c \in Cmds /\ Block(c)
BY ZenonT(30) DEF Next, Calls, DeferSubmit, Seal, Query, Add, DependsOnFence, DependsOnGroup,
       DependsOnPending, ProgressCall, Pass, PassEnds, Block, Device, Complete,
       SubmitNow, SubmitThrows

(* Every step keeps submissions behind their dependencies.                 *)
LEMMA DependenciesFirstStep ==
  Base /\ DependenciesFirst /\ [Next]_vars => DependenciesFirst'
<1> SUFFICES ASSUME Base, DependenciesFirst, [Next]_vars, NEW c \in submitted'
             PROVE  /\ \A f \in Range(fence_deps'[c]) : Ok(f)'
                    /\ c \notin hasty' =>
                         \A g \in Range(group_deps'[c]) : \A f \in Range(members'[g]) : Ok(f)'
                    /\ \A d \in Range(pending_deps'[c]) : d \in submitted' /\ Ok(d)'
  BY Zenon DEF DependenciesFirst
<1>1. Monotone
  BY StepsMonotone, Zenon
<1>2. \A x : Ok(x) => Ok(x)'
  BY <1>1, OkStays, Zenon
<1>3. CASE c \in submitted
  <2>1. /\ fence_deps'[c] = fence_deps[c] /\ group_deps'[c] = group_deps[c]
        /\ pending_deps'[c] = pending_deps[c]
        /\ c \notin hasty' => c \notin hasty
        /\ submitted \subseteq submitted'
    BY <1>1, <1>3, Zenon DEF Monotone
  <2>2. ASSUME c \notin hasty, NEW g \in Range(group_deps[c]) PROVE members'[g] = members[g]
    BY <1>1, <1>3, <2>2, Zenon DEF Base, Monotone
  <2> QED
    BY <1>2, <1>3, <2>1, <2>2, Zenon DEF DependenciesFirst
<1>4. CASE c \notin submitted
  <2>1. c \in Cmds /\ SubmitNow(c)
    BY <1>4, NewlySubmitted, Zenon DEF vars
  <2>2. Eligibility(c) = "ok"
    BY <2>1, Zenon DEF SubmitNow
  <2>3. /\ \A f \in Range(fence_deps[c]) : Ok(f)
        /\ \A g \in Range(group_deps[c]) : \A f \in Range(members[g]) : Ok(f)
        /\ \A d \in Range(pending_deps[c]) : d \in submitted /\ Ok(d)
    BY <2>1, <2>2, EligibilityOf, FenceVerdictOf, GroupVerdictOf, PendingVerdictOf, Zenon
  <2>4. /\ fence_deps' = fence_deps /\ group_deps' = group_deps
        /\ pending_deps' = pending_deps /\ members' = members
        /\ submitted \subseteq submitted'
    BY <2>1, Zenon DEF SubmitNow, depVars, groupVars
  <2> QED
    BY <1>2, <2>3, <2>4, Zenon
<1> QED
  BY <1>3, <1>4, Zenon

(* progress() submits a command only after everything it depends on has    *)
(* succeeded, and depends_on() and add() cannot change that afterwards.    *)
THEOREM SubmittedAfterDependencies == Spec => []DependenciesFirst
<1>1. Init => DependenciesFirst
  BY Zenon DEF Init, DependenciesFirst
<1> QED
  BY <1>1, BaseInit, BaseStep, DependenciesFirstStep, PTL DEF Spec

-----------------------------------------------------------------------------
(* Blocking                                                                *)

(* Dependencies are added and never taken away.                            *)
LEMMA ReachableStays ==
  ASSUME Monotone, NEW a, NEW b, Reachable(a, b)
  PROVE  Reachable(a, b)'
<1>1. \A S \in SUBSET Cmds : Closed(S)' => Closed(S)
  BY Zenon DEF Monotone, Closed
<1> QED
  BY <1>1, Zenon DEF Reachable

(* What a dependency of c reaches, c reaches.                              *)
LEMMA ReachableThrough ==
  ASSUME NEW c, NEW d \in Range(pending_deps[c]), NEW b, Reachable(d, b)
  PROVE  Reachable(c, b)
BY Zenon DEF Reachable, Closed

(* Something c waits for has failed.                                       *)
Justified(c) ==
  \E d \in Upstream(c) :
    \/ \E f \in Range(fence_deps[d]) : result[f] = "failed"
    \/ \E g \in Range(group_deps[d]) : \E f \in Range(members[g]) : result[f] = "failed"
    \/ d # c /\ result[d] = "failed"

(* The reason for blocking a command stays a reason.                       *)
LEMMA JustifiedStays ==
  ASSUME Base, Monotone, NEW c, Justified(c)
  PROVE  Justified(c)'
<1>1. PICK d \in Upstream(c) :
        \/ \E f \in Range(fence_deps[d]) : result[f] = "failed"
        \/ \E g \in Range(group_deps[d]) : \E f \in Range(members[g]) : result[f] = "failed"
        \/ d # c /\ result[d] = "failed"
  BY Zenon DEF Justified
<1>2. d \in Cmds /\ d \in Upstream(c)'
  BY ReachableStays, SMTT(30) DEF Upstream
<1>3. \A x \in Items : result[x] = "failed" => result'[x] = "failed"
  BY SMTT(30) DEF Monotone, Posted
<1>4. /\ Range(fence_deps[d]) \subseteq Items /\ Range(group_deps[d]) \subseteq Groups
      /\ \A g \in Groups : Range(members[g]) \subseteq Items
  BY <1>2 DEF Base, TypeOK, Range, Items
<1>5. /\ Range(fence_deps[d]) \subseteq Range(fence_deps'[d])
      /\ Range(group_deps[d]) \subseteq Range(group_deps'[d])
      /\ \A g \in Groups : Range(members[g]) \subseteq Range(members'[g])
  BY <1>2, Zenon DEF Monotone
<1>6. d \in Items
  BY <1>2, Zenon DEF Items
<1>7. \/ \E f \in Range(fence_deps'[d]) : result'[f] = "failed"
      \/ \E g \in Range(group_deps'[d]) : \E f \in Range(members'[g]) : result'[f] = "failed"
      \/ d # c /\ result'[d] = "failed"
  BY <1>1, <1>3, <1>4, <1>5, <1>6, Zenon
<1> QED
  BY <1>2, <1>7, Zenon DEF Justified

(* A command progress() blocks: one of its own dependencies failed, or one *)
(* is blocked and what justifies that justifies this.                      *)
LEMMA BlockJustified ==
  ASSUME Base, \A b \in blocked : Justified(b), NEW c \in Cmds, Block(c)
  PROVE  Justified(c)
<1>1. Eligibility(c) = "failed" /\ c \notin submitted
  BY Zenon DEF Block, Decides
<1>2. c \in Upstream(c)
  BY Zenon DEF Upstream, Reachable
<1>3. CASE FenceVerdict(c) = "failed"
  BY <1>2, <1>3, FenceVerdictOf, Zenon DEF Justified
<1>4. CASE GroupVerdict(c) = "failed"
  BY <1>2, <1>4, GroupVerdictOf, Zenon DEF Justified
<1>5. CASE PendingVerdict(c) = "failed"
  <2>1. PICK d \in Range(pending_deps[c]) : d \in blocked \/ result[d] = "failed"
    BY <1>5, PendingVerdictOf, Zenon
  <2>2. result[c] = "none"
    BY <1>1, DependencyAssumption, Zenon DEF Base, TypeOK, Posted, Items, Cmds
  <2>3. d \in Cmds
    BY DEF Base, TypeOK, Range
  <2>4. CASE result[d] = "failed"
    <3>1. d \in Upstream(c)
      BY <2>3, Zenon DEF Upstream, Reachable, Closed
    <3> QED
      BY <2>2, <2>4, <3>1, Zenon DEF Justified
  <2>5. CASE d \in blocked
    <3>1. PICK e \in Upstream(d) :
            \/ \E f \in Range(fence_deps[e]) : result[f] = "failed"
            \/ \E g \in Range(group_deps[e]) : \E f \in Range(members[g]) : result[f] = "failed"
            \/ e # d /\ result[e] = "failed"
      BY <2>5, Zenon DEF Justified
    <3>2. e \in Upstream(c)
      BY ReachableThrough, Zenon DEF Upstream
    <3> QED
      BY <2>2, <3>1, <3>2, Zenon DEF Justified
  <2> QED
    BY <2>1, <2>4, <2>5, Zenon
<1> QED
  BY <1>1, <1>3, <1>4, <1>5, EligibilityOf, Zenon

(* Every step has a reason for each command it blocks.                     *)
LEMMA JustifiedStep ==
  Base /\ (\A c \in blocked : Justified(c)) /\ [Next]_vars
    => (\A c \in blocked : Justified(c))'
<1> SUFFICES ASSUME Base, \A b \in blocked : Justified(b), [Next]_vars, NEW c \in blocked'
             PROVE  Justified(c)'
  BY Zenon
<1>1. Monotone
  BY StepsMonotone, Zenon
<1>2. CASE c \in blocked
  BY <1>1, <1>2, JustifiedStays, Zenon
<1>3. CASE c \notin blocked
  <2>1. c \in Cmds /\ Block(c)
    BY <1>3, NewlyBlocked, Zenon DEF vars
  <2>2. Justified(c)
    BY <2>1, BlockJustified, Zenon
  <2> QED
    BY <1>1, <2>2, JustifiedStays, Zenon
<1> QED
  BY <1>2, <1>3, Zenon

(* progress() blocks a command only when something it waits for, through   *)
(* however many other commands, has failed, and never submits it.          *)
THEOREM BlockingJustified == Spec => []BlockedJustified
<1>1. Init => \A c \in blocked : Justified(c)
  BY Zenon DEF Init
<1>2. Base /\ (\A c \in blocked : Justified(c)) => BlockedJustified
  BY Zenon DEF Base, BlockedJustified, Justified
<1> QED
  BY <1>1, <1>2, BaseInit, BaseStep, JustifiedStep, PTL DEF Spec

-----------------------------------------------------------------------------
(* Groups                                                                  *)

(* A group that is sealed and decided keeps its answer.                    *)
LEMMA AnswerStep ==
  ASSUME Base, Monotone, NEW g \in sealed, Aggregate(g) # "Pending"
  PROVE  g \in sealed' /\ Aggregate(g)' = Aggregate(g)
<1>1. g \in sealed' /\ members'[g] = members[g]
  BY Zenon DEF Monotone
<1>2. \A f \in Range(members[g]) : f \in ready
  BY SMTT(30) DEF Aggregate
<1>3. \A f \in Range(members[g]) : f \in ready' /\ result'[f] = result[f]
  BY <1>2, Zenon DEF Base, Monotone
<1> QED
  BY <1>1, <1>2, <1>3, Zenon DEF Aggregate

(* The answer of query() and wait() for a sealed group is final.           *)
THEOREM AnswersFinal == Spec => AnswerStable
<1>1. Base /\ [Next]_vars =>
        [\A g \in sealed : Aggregate(g) # "Pending" =>
           g \in sealed' /\ Aggregate(g)' = Aggregate(g)]_vars
  BY StepsMonotone, AnswerStep, Zenon
<1> QED
  BY <1>1, BaseInit, BaseStep, PTL DEF Spec, AnswerStable

-----------------------------------------------------------------------------
(* The buffer quota                                                        *)

INSTANCE FiniteSetTheorems

Living == {s \in Sessions : Alive(s)}

(* Finitely many sessions live at a time, and each keeps its quota.        *)
QuotaInv ==
  /\ IsFiniteSet(Living)
  /\ \A s \in Sessions : Cardinality(owned[s]) <= BufferQuota

(* The table has MaxBuffers slots, and what a session owns is among them.  *)
LEMMA SlotsFinite ==
  /\ IsFiniteSet(Slots) /\ Cardinality(Slots) = MaxBuffers
  /\ TableInv => \A s \in Sessions : IsFiniteSet(owned[s]) /\ Cardinality(owned[s]) \in Nat
<1>1. IsFiniteSet(Slots) /\ Cardinality(Slots) = MaxBuffers
  <2>1. MaxBuffers \in Nat \ {0} BY BufferTableAssumption
  <2>2. 0 \in Int /\ MaxBuffers - 1 \in Int /\ ~ (0 > MaxBuffers - 1) BY <2>1
  <2>3. IsFiniteSet(0..MaxBuffers - 1) /\ Cardinality(0..MaxBuffers - 1) = MaxBuffers - 1 - 0 + 1
    BY <2>2, FS_Interval, Zenon
  <2> QED BY <2>1, <2>3 DEF Slots
<1>2. ASSUME TableInv, NEW s \in Sessions PROVE IsFiniteSet(owned[s]) /\ Cardinality(owned[s]) \in Nat
  <2>1. owned[s] \in SUBSET Slots BY <1>2, Zenon DEF TableInv, TableTypeOK
  <2> QED BY <1>1, <2>1, FS_Subset, FS_CardinalityType, Zenon
<1> QED BY <1>1, <1>2, Zenon

(* A step opens one session at most, and only BUFFER_ALLOC, below the      *)
(* quota, adds to what a session owns.                                     *)
LEMMA QuotaMoves ==
  ASSUME TableInv, [TableNext]_bufferVars
  PROVE  /\ \E x : Living' \subseteq Living \cup {x}
         /\ \A u \in Sessions :
              \/ owned'[u] \subseteq owned[u]
              \/ UnderQuota(u) /\ \E slot : owned'[u] = owned[u] \cup {slot}
<1>1. ASSUME NEW s \in Sessions, Open(s)
      PROVE  Living' \subseteq Living \cup {s} /\ owned' = owned
  <2>1. owned' = owned /\ \A u \in Sessions : u # s => sess_state'[u] = sess_state[u]
    BY <1>1, Zenon DEF Open, tableVars, TableInv, TableTypeOK
  <2> QED BY <2>1, Zenon DEF Living, Alive
<1>2. ASSUME NEW s \in Sessions, NEW n, BufferAlloc(s, n)
      PROVE  /\ Living' = Living
             /\ \A u \in Sessions : \/ owned'[u] \subseteq owned[u]
                                    \/ UnderQuota(u) /\ \E slot : owned'[u] = owned[u] \cup {slot}
  <2>1. PICK slot : owned' = [owned EXCEPT ![s] = @ \cup {slot}]
    BY <1>2, Zenon DEF BufferAlloc
  <2>2. UnderQuota(s) /\ sess_state' = sess_state
    BY <1>2, Zenon DEF BufferAlloc
  <2>3. owned'[s] = owned[s] \cup {slot} /\ \A u \in Sessions : u # s => owned'[u] = owned[u]
    BY <2>1, Zenon DEF TableInv, TableTypeOK
  <2>4. Living' = Living
    BY <2>2, Zenon DEF Living, Alive
  <2> QED BY <2>2, <2>3, <2>4, Zenon
<1>3. ASSUME NEW s \in Sessions, BufferAllocFault(s) \/ ReleaseFree(s)
      PROVE  Living' \subseteq Living /\ \A u \in Sessions : owned'[u] \subseteq owned[u]
  <2>1. \A u \in Sessions : owned'[u] \subseteq owned[u]
    BY <1>3 DEF BufferAllocFault, ReleaseFree, TableInv, TableTypeOK
  <2>2. \A u \in Sessions : sess_state'[u] = sess_state[u] \/ sess_state'[u] = "freed"
    BY <1>3, Zenon DEF BufferAllocFault, ReleaseFree, TableInv, TableTypeOK
  <2> QED BY <2>1, <2>2, Zenon DEF Living, Alive
<1>4. ASSUME NEW s \in Sessions, CloseFd(s) \/ Release(s)
      PROVE  Living' \subseteq Living /\ owned' = owned
  <2>1. owned' = owned
    BY <1>4, Zenon DEF CloseFd, Release, tableVars
  <2>2. /\ sess_state[s] \in {"open", "unlinked"}
        /\ \A u \in Sessions : u # s => sess_state'[u] = sess_state[u]
    BY <1>4, Zenon DEF CloseFd, Release, MayCall, TableInv, TableTypeOK
  <2>3. \A u \in Sessions : Alive(u)' => Alive(u)
    BY <2>2, Zenon DEF Alive
  <2> QED BY <2>1, <2>3, Zenon DEF Living
<1>5. ASSUME UNCHANGED <<sess_state, owned>>
      PROVE  Living' = Living /\ \A u \in Sessions : owned'[u] \subseteq owned[u]
  BY <1>5, Zenon DEF Living, Alive
<1>6. CASE UNCHANGED bufferVars \/ (\E c \in pending : CompleteDma(c)) \/ (\E m \in maps : Munmap(m))
  <2>1. UNCHANGED <<sess_state, owned>>
    BY <1>6, Zenon DEF bufferVars, CompleteDma, Munmap, tableVars
  <2> QED BY <1>5, <2>1, Zenon
<1>7. ASSUME NEW s \in Sessions,
             \/ BufferAllocReturn(s) \/ SubmitEnqueue(s) \/ SubmitInterrupted(s)
             \/ \E req \in Requests : Submit(s, req)
             \/ \E buf \in Slots, len \in MapSizes : Mmap(s, buf, len)
      PROVE  UNCHANGED <<sess_state, owned>>
  BY <1>7, Zenon DEF BufferAllocReturn, SubmitEnqueue, SubmitInterrupted, Submit, Mmap, tableVars
<1> DEFINE Goal == /\ \E x : Living' \subseteq Living \cup {x}
                   /\ \A u \in Sessions :
                        \/ owned'[u] \subseteq owned[u]
                        \/ UnderQuota(u) /\ \E slot : owned'[u] = owned[u] \cup {slot}
<1>8. CASE \E s \in Sessions : Open(s) BY <1>1, <1>8, Zenon
<1>9. CASE \E s \in Sessions, n \in AllocSizes : BufferAlloc(s, n) BY <1>2, <1>9, Zenon
<1>10. CASE \E s \in Sessions : BufferAllocFault(s) \/ ReleaseFree(s) BY <1>3, <1>10, Zenon
<1>11. CASE \E s \in Sessions : CloseFd(s) \/ Release(s) BY <1>4, <1>11, Zenon
<1>12. CASE \E s \in Sessions :
              \/ BufferAllocReturn(s) \/ SubmitEnqueue(s) \/ SubmitInterrupted(s)
              \/ \E req \in Requests : Submit(s, req)
              \/ \E buf \in Slots, len \in MapSizes : Mmap(s, buf, len)
  BY <1>5, <1>7, <1>12, Zenon
<1> HIDE DEF Goal
<1> QED BY <1>6, <1>8, <1>9, <1>10, <1>11, <1>12, Zenon DEF TableNext

(* So the quota is kept.                                                   *)
LEMMA QuotaStep == ASSUME TableInv, QuotaInv, [TableNext]_bufferVars PROVE QuotaInv'
<1>1. IsFiniteSet(Living')
  <2>1. PICK x : Living' \subseteq Living \cup {x} BY QuotaMoves
  <2>2. IsFiniteSet(Living \cup {x}) BY FS_AddElement DEF QuotaInv
  <2>3. Living' \in SUBSET (Living \cup {x}) BY <2>1
  <2> QED BY <2>2, <2>3, FS_Subset, Zenon
<1>2. ASSUME NEW u \in Sessions PROVE Cardinality(owned'[u]) <= BufferQuota
  <2>1. IsFiniteSet(owned[u]) /\ Cardinality(owned[u]) \in Nat /\ Cardinality(owned[u]) <= BufferQuota
    BY SlotsFinite, Zenon DEF QuotaInv
  <2>2. BufferQuota \in Nat BY BufferTableAssumption
  <2>3. CASE owned'[u] \subseteq owned[u]
    <3>1. owned'[u] \in SUBSET owned[u] BY <2>3
    <3>2. IsFiniteSet(owned'[u]) /\ Cardinality(owned'[u]) <= Cardinality(owned[u])
      BY <2>1, <3>1, FS_Subset, Zenon
    <3>3. Cardinality(owned'[u]) \in Nat BY <3>2, FS_CardinalityType
    <3> QED BY <2>1, <2>2, <3>2, <3>3
  <2>4. ASSUME NEW slot, UnderQuota(u), owned'[u] = owned[u] \cup {slot}
        PROVE  Cardinality(owned'[u]) <= BufferQuota
    <3>1. Cardinality(owned[u] \cup {slot}) =
            IF slot \in owned[u] THEN Cardinality(owned[u]) ELSE Cardinality(owned[u]) + 1
      BY <2>1, FS_AddElement, Zenon
    <3>2. Cardinality(owned[u]) < BufferQuota BY <2>4 DEF UnderQuota
    <3> QED BY <2>1, <2>2, <2>4, <3>1, <3>2
  <2> QED BY <2>3, <2>4, QuotaMoves, Zenon
<1> QED BY <1>1, <1>2, Zenon DEF QuotaInv

(* The elements of a finite set can be numbered.                           *)
LEMMA Numbered ==
  ASSUME NEW S, IsFiniteSet(S)
  PROVE  \E g \in [S -> 1..Cardinality(S)] : \A x, y \in S : g[x] = g[y] => x = y
<1>1. PICK b \in Bijection(1..Cardinality(S), S) : TRUE
  BY FS_CardinalityType, Zenon DEF ExistsBijection
<1>2. \A x \in S : \E k \in 1..Cardinality(S) : b[k] = x
  BY <1>1, Zenon DEF Bijection, Surjection
<1> DEFINE g == [x \in S |-> CHOOSE k \in 1..Cardinality(S) : b[k] = x]
<1>3. \A x \in S : g[x] \in 1..Cardinality(S) /\ b[g[x]] = x
  BY <1>2, Zenon
<1>4. g \in [S -> 1..Cardinality(S)]
  BY <1>3, Zenon
<1>5. \A x, y \in S : g[x] = g[y] => x = y
  BY <1>3, Zenon
<1> HIDE DEF g
<1> QED BY <1>4, <1>5, Zenon

(* The x-th place of the a-th quota.                                       *)
Place(a, x) == (a - 1) * BufferQuota + x

(* No place belongs to two.                                                *)
LEMMA SamePlace ==
  ASSUME NEW a \in Nat \ {0}, NEW b \in Nat \ {0}, NEW x \in 1..BufferQuota, NEW y \in 1..BufferQuota,
         Place(a, x) = Place(b, y)
  PROVE  a = b /\ x = y
<1> DEFINE q == BufferQuota
<1>0. q \in Nat \ {0} /\ x \in 1..q /\ y \in 1..q /\ (a - 1) * q + x = (b - 1) * q + y
  BY BufferTableAssumption, Zenon DEF Place
<1> HIDE DEF q
<1>1. ASSUME NEW c \in Nat, NEW d \in Nat, c < d PROVE c * q + q <= d * q
  <2>1. PICK e \in Nat : d = c + 1 + e
    <3>1. d - c - 1 \in Nat /\ d = c + 1 + (d - c - 1) BY <1>1
    <3> QED BY <3>1, Zenon
  <2>2. d * q = c * q + q + e * q BY <1>0, <2>1
  <2>3. e * q \in Nat /\ c * q \in Nat /\ d * q \in Nat BY <1>0
  <2> QED BY <1>0, <2>2, <2>3
<1>2. (a - 1) * q \in Nat /\ (b - 1) * q \in Nat
  BY <1>0
<1>3. ~ (a < b)
  <2> SUFFICES ASSUME a < b PROVE FALSE
    BY Zenon
  <2>1. a - 1 \in Nat /\ b - 1 \in Nat /\ a - 1 < b - 1 OBVIOUS
  <2>2. (a - 1) * q + q <= (b - 1) * q BY <1>1, <2>1
  <2> QED BY <1>0, <1>2, <2>2
<1>4. ~ (b < a)
  <2> SUFFICES ASSUME b < a PROVE FALSE
    BY Zenon
  <2>1. a - 1 \in Nat /\ b - 1 \in Nat /\ b - 1 < a - 1 OBVIOUS
  <2>2. (b - 1) * q + q <= (a - 1) * q BY <1>1, <2>1
  <2> QED BY <1>0, <1>2, <2>2
<1>5. a = b
  BY <1>3, <1>4
<1> QED BY <1>0, <1>2, <1>5

(* Were every slot taken, each would have a number of its own among the    *)
(* places that the living sessions' quotas give, and a session below its   *)
(* quota leaves one of those without a slot.                               *)
LEMMA QuotaFits == ASSUME TableInv, QuotaInv PROVE FullService
<1> SUFFICES ASSUME Cardinality(Living) * BufferQuota <= MaxBuffers,
                    NEW s \in Sessions, Alive(s), Cardinality(owned[s]) < BufferQuota,
                    \A i \in Slots : in_use[i]
             PROVE  FALSE
  BY Zenon DEF FullService, Living
<1> DEFINE n == Cardinality(Living)
           q == BufferQuota
<1>1. q \in Nat \ {0} /\ MaxBuffers \in Nat \ {0}
  BY BufferTableAssumption, Zenon
<1>2. n \in Nat /\ IsFiniteSet(Living)
  BY FS_CardinalityType, Zenon DEF QuotaInv
<1>3. PICK e \in [Living -> 1..n] : \A u, v \in Living : e[u] = e[v] => u = v
  BY <1>2, Numbered, Zenon
<1> DEFINE c(u) == Cardinality(owned[u])
           Rank(u) == {r \in [owned[u] -> 1..c(u)] : \A x, y \in owned[u] : r[x] = r[y] => x = y}
           g == [u \in Sessions |-> CHOOSE r \in Rank(u) : TRUE]
<1>4. ASSUME NEW u \in Sessions
      PROVE  /\ c(u) \in Nat /\ c(u) <= q
             /\ g[u] \in [owned[u] -> 1..c(u)]
             /\ \A x, y \in owned[u] : g[u][x] = g[u][y] => x = y
  <2>1. IsFiniteSet(owned[u]) /\ c(u) \in Nat BY SlotsFinite
  <2>2. \E r : r \in Rank(u)
    <3>1. PICK r \in [owned[u] -> 1..c(u)] : \A x, y \in owned[u] : r[x] = r[y] => x = y
      BY <2>1, Numbered, Zenon
    <3>2. r \in Rank(u) BY <3>1
    <3> QED BY <3>2, Zenon
  <2>3. g[u] \in Rank(u) BY <2>2, Zenon
  <2>4. c(u) <= q BY DEF QuotaInv
  <2> QED BY <2>1, <2>3, <2>4, Zenon
<1>5. ASSUME NEW i \in Slots PROVE owner[i] \in Living /\ owner[i] \in Sessions /\ i \in owned[owner[i]]
  <2>1. in_use[i] /\ owner[i] # NoSession /\ Alive(owner[i])
    BY Zenon DEF TableInv, OwnershipInverse
  <2>2. owner[i] \in Sessions BY <2>1, Zenon DEF TableInv, TableTypeOK
  <2> QED BY <2>1, <2>2, Zenon DEF Living, TableInv, OwnershipInverse
<1> DEFINE F == [i \in Slots |-> Place(e[owner[i]], g[owner[i]][i])]
           hole == Place(e[s], q)
           T == (1..MaxBuffers) \ {hole}
<1>6. s \in Living
  BY Zenon DEF Living
<1> HIDE DEF g, n, q, c
<1>7. ASSUME NEW a \in 1..n, NEW x \in 1..q PROVE Place(a, x) \in 1..MaxBuffers
  <2>1. (a - 1) * q \in Nat BY <1>1, <1>2
  <2>2. (a - 1) * q + q = a * q BY <1>1, <1>2
  <2>3. a * q + (n - a) * q = n * q BY <1>1, <1>2
  <2>4. (n - a) * q \in Nat BY <1>1, <1>2
  <2>5. n * q <= MaxBuffers /\ Place(a, x) = (a - 1) * q + x BY DEF n, q, Place
  <2> QED BY SMTT(15), <1>1, <1>2, <2>1, <2>2, <2>3, <2>4, <2>5
<1>8. ASSUME NEW i \in Slots PROVE e[owner[i]] \in 1..n /\ g[owner[i]][i] \in 1..q
  <2>1. g[owner[i]][i] \in 1..c(owner[i])
    <3>1. g[owner[i]] \in [owned[owner[i]] -> 1..c(owner[i])] /\ i \in owned[owner[i]]
      BY <1>4, <1>5, Zenon
    <3> QED BY <3>1, Zenon
  <2>2. c(owner[i]) \in Nat /\ c(owner[i]) <= q BY <1>4, <1>5, Zenon
  <2>3. e[owner[i]] \in 1..n BY <1>3, <1>5, Zenon
  <2> QED BY <1>1, <2>1, <2>2, <2>3
<1>9. ASSUME NEW i \in Slots PROVE F[i] \in T
  <2>1. F[i] \in 1..MaxBuffers BY <1>7, <1>8, Zenon
  <2>2. ASSUME F[i] = hole PROVE FALSE
    <3>1. e[s] \in 1..n /\ q \in 1..q BY <1>1, <1>3, <1>6
    <3>2. e[owner[i]] = e[s] /\ g[owner[i]][i] = q
      <4>1. Place(e[owner[i]], g[owner[i]][i]) = Place(e[s], q) BY <2>2
      <4>2. e[owner[i]] \in Nat \ {0} /\ e[s] \in Nat \ {0} BY <1>2, <1>8, <3>1
      <4>3. g[owner[i]][i] \in 1..q BY <1>8
      <4> QED BY <3>1, <4>1, <4>2, <4>3, SamePlace DEF q
    <3>3. owner[i] = s BY <1>3, <1>5, <1>6, <3>2, Zenon
    <3>4. g[s][i] \in 1..c(s)
      <4>1. g[s] \in [owned[s] -> 1..c(s)] /\ i \in owned[s] BY <1>4, <1>5, <3>3, Zenon
      <4> QED BY <4>1, Zenon
    <3>5. c(s) \in Nat /\ c(s) < q BY <1>4 DEF c, q
    <3> QED BY SMTT(15), <1>1, <3>2, <3>3, <3>4, <3>5
  <2> QED BY <2>1, <2>2, Zenon
<1>10. hole \in 1..MaxBuffers
  <2>1. e[s] \in 1..n /\ q \in 1..q BY <1>1, <1>3, <1>6
  <2> QED BY <1>7, <2>1, Zenon
<1>11. IsFiniteSet(T) /\ Cardinality(T) = MaxBuffers - 1
  <2>1. IsFiniteSet(1..MaxBuffers) /\ Cardinality(1..MaxBuffers) = MaxBuffers
    <3>1. 1 \in Int /\ MaxBuffers \in Int /\ ~ (1 > MaxBuffers) BY <1>1
    <3>2. IsFiniteSet(1..MaxBuffers) /\ Cardinality(1..MaxBuffers) = MaxBuffers - 1 + 1 BY <3>1,
                                                                                           FS_Interval
    <3> QED BY <1>1, <3>2
  <2>2. Cardinality((1..MaxBuffers) \ {hole}) = Cardinality(1..MaxBuffers) - 1
    BY <1>10, <2>1, FS_RemoveElement, Zenon
  <2>3. IsFiniteSet((1..MaxBuffers) \ {hole})
    BY <2>1, FS_RemoveElement, Zenon
  <2> QED BY <2>1, <2>2, <2>3, Zenon
<1> HIDE DEF T
<1>12. F \in [Slots -> T]
  BY <1>9, Zenon
<1>13. PICK i, j \in Slots : i # j /\ F[i] = F[j]
  <2> HIDE DEF F
  <2>1. IsFiniteSet(Slots) /\ Cardinality(T) < Cardinality(Slots)
    BY SMTT(15), <1>1, <1>11, SlotsFinite
  <2> QED BY <1>11, <1>12, <2>1, FS_PigeonHole, Zenon
<1>14. e[owner[i]] = e[owner[j]] /\ g[owner[i]][i] = g[owner[j]][j]
  <2>1. Place(e[owner[i]], g[owner[i]][i]) = Place(e[owner[j]], g[owner[j]][j]) BY <1>13
  <2>2. e[owner[i]] \in Nat \ {0} /\ e[owner[j]] \in Nat \ {0} BY <1>2, <1>8
  <2>3. g[owner[i]][i] \in 1..q /\ g[owner[j]][j] \in 1..q BY <1>8
  <2> QED BY SMTT(15), <2>1, <2>2, <2>3, SamePlace DEF q
<1>15. owner[i] = owner[j]
  BY <1>3, <1>5, <1>14, Zenon
<1>16. i \in owned[owner[i]] /\ j \in owned[owner[i]] /\ g[owner[i]][i] = g[owner[i]][j]
  BY <1>5, <1>14, <1>15, Zenon
<1> QED BY <1>4, <1>5, <1>13, <1>16, Zenon

(* With quotas that fit the table, ioctl(BUFFER_ALLOC) never refuses a     *)
(* session below its quota for want of a slot, for any table and quota.    *)
THEOREM QuotaAlwaysServed == TableSpec => []FullService
<1>1. TableInit => QuotaInv
  <2> SUFFICES ASSUME TableInit PROVE QuotaInv
    BY Zenon
  <2>1. Living = {} /\ \A s \in Sessions : owned[s] = {}
    BY Zenon DEF TableInit, Living, Alive
  <2>2. BufferQuota \in Nat BY BufferTableAssumption
  <2> QED BY <2>1, <2>2, FS_EmptySet DEF QuotaInv
<1>2. TableInv /\ QuotaInv /\ [TableNext]_bufferVars => QuotaInv'
  BY QuotaStep, Zenon
<1>3. TableInv /\ QuotaInv => FullService
  BY QuotaFits, Zenon
<1> QED BY <1>1, <1>2, <1>3, TableInvariance, PTL DEF TableSpec
=============================================================================
