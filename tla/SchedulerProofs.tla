-------------------------- MODULE SchedulerProofs --------------------------
(***************************************************************************)
(* Proofs about Scheduler for any number of Contexts, files, buffer ids,   *)
(* Buffers and requests: the provenance check is exact, and run_round()    *)
(* implements the round-robin dispatcher.                                  *)
(***************************************************************************)
EXTENDS Scheduler, SequenceTheorems, TLAPS

-----------------------------------------------------------------------------
(* Files, slots and Buffers                                                *)

FileType ==
  /\ opened \in Nat /\ closed \subseteq 1..opened /\ size \in 0..MaxEntries
  /\ ctx \in [Objects -> [file : 0..opened, ids : SUBSET Slots]]
  /\ slot \in [Slots -> 0..opened]
  /\ buf \in [Bufs -> [id : Nat, file : 0..opened]]

(* A file is open in one Context at most; a slot stays with its file as    *)
(* long as a Context has the file open or a Buffer has it mapped; and a    *)
(* Context has recorded the ids of the Buffers of its file.                *)
FileInv ==
  /\ FileType
  /\ \A o \in Objects : ctx[o].file \notin closed
  /\ \A o \in Objects : ctx[o].file = 0 => ctx[o].ids = {}
  /\ \A o, p \in Objects : ctx[o].file # 0 /\ ctx[o].file = ctx[p].file => o = p
  /\ \A o \in Objects : \A k \in ctx[o].ids : slot[k] = ctx[o].file
  /\ \A b \in Bufs : buf[b].file # 0 => buf[b].id \in Slots /\ slot[buf[b].id] = buf[b].file
  /\ \A b \in Bufs, o \in Objects :
       buf[b].file # 0 /\ ctx[o].file = buf[b].file => buf[b].id \in ctx[o].ids

(* No file is open at first.                                               *)
LEMMA InitFile == Init => FileInv
BY SchedulerAssumption DEF Init, FileInv, FileType, Moved, NoBuffer, Objects, Entries

(* A new Context has a file no one has seen.                               *)
LEMMA ConstructFile == ASSUME FileInv, NEW o \in Objects, Construct(o) PROVE FileInv'
<1>1. /\ opened' = opened + 1 /\ ctx'[o] = [file |-> opened + 1, ids |-> {}]
      /\ \A p \in Objects \ {o} : ctx'[p] = ctx[p]
      /\ UNCHANGED <<size, closed, slot, buf>>
  BY DEF Construct, FileInv, FileType
<1>2. \A p \in Objects : ctx[p].file \in 0..opened
  BY Zenon DEF FileInv, FileType
<1>3. \A b \in Bufs : buf[b].file \in 0..opened
  BY Zenon DEF FileInv, FileType
<1>4. opened \in Nat /\ 1..opened \subseteq 1..opened' /\ 0..opened \subseteq 0..opened' /\ opened + 1 \notin closed
  BY <1>1 DEF FileInv, FileType
<1>5. ctx' \in [Objects -> [file : 0..opened', ids : SUBSET Slots]]
  BY <1>1, <1>4 DEF Construct, FileInv, FileType
<1>6. /\ slot \in [Slots -> 0..opened'] /\ buf \in [Bufs -> [id : Nat, file : 0..opened']]
      /\ closed \subseteq 1..opened'
  BY <1>4 DEF FileInv, FileType
<1>7. FileType'
  BY <1>1, <1>4, <1>5, <1>6 DEF FileInv, FileType
<1>8. \A p \in Objects \ {o} : ctx'[p].file # ctx'[o].file
  BY <1>1, <1>2, <1>4
<1>9. \A b \in Bufs : buf[b].file # ctx'[o].file
  BY <1>1, <1>3, <1>4
<1> QED
  BY <1>1, <1>4, <1>7, <1>8, <1>9 DEF FileInv

(* Closing the file of a Context, or dropping a Buffer, frees only slots   *)
(* that no other Context has open and no Buffer maps.                      *)
LEMMA ReleaseFile ==
  ASSUME FileType, NEW shut \in SUBSET (1..opened), NEW bs \in [Bufs -> [id : Nat, file : 0..opened]]
  PROVE  /\ SlotsAfter(shut, bs) \in [Slots -> 0..opened]
         /\ \A k \in Slots : slot[k] \notin shut => SlotsAfter(shut, bs)[k] = slot[k]
         /\ \A k \in Slots, b \in Bufs : bs[b].file = slot[k] => SlotsAfter(shut, bs)[k] = slot[k]
BY DEF FileType, SlotsAfter

(* Destroying a Context, or moving another into it, closes its file.       *)
LEMMA MoveFile ==
  ASSUME FileInv, NEW o \in Objects, NEW c,
         Close(ctx[o].file), UNCHANGED <<size, opened, buf>>,
         \/ c = Moved /\ ctx' = [ctx EXCEPT ![o] = Moved]
         \/ \E p \in Objects : /\ p # o /\ c = ctx[p] /\ ctx[p].file # 0
                               /\ ctx' = [ctx EXCEPT ![o] = c, ![p] = Moved]
  PROVE  FileInv'
<1> DEFINE f == ctx[o].file
<1>1. closed' = closed \cup ({f} \ {0}) /\ slot' = SlotsAfter(closed', buf)
  BY Zenon DEF Close
<1>2. /\ f \in 0..opened /\ closed' \in SUBSET (1..opened) /\ opened \in Nat
      /\ FileType
  <2>1. FileType
    BY Zenon DEF FileInv
  <2>2. opened \in Nat /\ f \in 0..opened /\ closed \subseteq 1..opened
    BY <2>1, Zenon DEF FileType
  <2>3. {f} \ {0} \subseteq 1..opened
    BY <2>2
  <2> QED
    BY <1>1, <2>1, <2>2, <2>3, Zenon
<1>3. /\ slot' \in [Slots -> 0..opened]
      /\ \A k \in Slots : slot[k] \notin closed' => slot'[k] = slot[k]
      /\ \A k \in Slots, b \in Bufs : buf[b].file = slot[k] => slot'[k] = slot[k]
  <2>1. PICK shut \in SUBSET (1..opened) : shut = closed'
    BY <1>2, Zenon
  <2>2. buf \in [Bufs -> [id : Nat, file : 0..opened]]
    BY <1>2, Zenon DEF FileType
  <2>3. slot' = SlotsAfter(shut, buf)
    BY <1>1, <2>1, Zenon
  <2>4. /\ SlotsAfter(shut, buf) \in [Slots -> 0..opened]
        /\ \A k \in Slots : slot[k] \notin shut => SlotsAfter(shut, buf)[k] = slot[k]
        /\ \A k \in Slots, b \in Bufs : buf[b].file = slot[k] => SlotsAfter(shut, buf)[k] = slot[k]
    BY <1>2, <2>2, ReleaseFile, Zenon
  <2> QED
    BY <2>1, <2>3, <2>4, Zenon
<1>4. \A q \in Objects \ {o} : ctx[q].file \notin closed'
  BY <1>1, Zenon DEF FileInv
<1>5. \A q \in Objects \ {o} : \A k \in ctx[q].ids : k \in Slots /\ slot'[k] = ctx[q].file
  <2>1. \A q \in Objects : \A k \in ctx[q].ids : k \in Slots /\ slot[k] = ctx[q].file
    BY Zenon DEF FileInv, FileType
  <2> QED
    BY <1>3, <1>4, <2>1, Zenon
<1>6. \A b \in Bufs : buf[b].file # 0 => buf[b].id \in Slots /\ slot'[buf[b].id] = buf[b].file
  BY <1>3, Zenon DEF FileInv
<1>7. Moved.file = 0 /\ Moved.ids = {} /\ Moved \in [file : 0..opened, ids : SUBSET Slots] /\ 0 \notin closed'
  BY <1>2 DEF Moved
<1>8. \A q \in Objects : \/ ctx'[q] = Moved
                         \/ q # o /\ ctx'[q] = ctx[q]
                         \/ q = o /\ \E p \in Objects \ {o} : ctx'[q] = ctx[p] /\ ctx'[p] = Moved
  BY DEF FileInv, FileType
<1>9. ctx' \in [Objects -> [file : 0..opened, ids : SUBSET Slots]]
  BY <1>7 DEF FileInv, FileType
<1>10. FileType'
  BY <1>2, <1>3, <1>9, Zenon DEF FileType
<1>11. \A q \in Objects : ctx'[q].file \notin closed'
  BY <1>4, <1>7, <1>8, Zenon
<1>12. \A q \in Objects : ctx'[q].file = 0 => ctx'[q].ids = {}
  BY <1>7, <1>8 DEF FileInv
<1>13. \A q, r \in Objects : ctx'[q].file # 0 /\ ctx'[q].file = ctx'[r].file => q = r
  BY <1>7, <1>8 DEF FileInv
<1>14. \A q \in Objects : \A k \in ctx'[q].ids : slot'[k] = ctx'[q].file
  BY <1>5, <1>7, <1>8
<1>15. \A b \in Bufs, q \in Objects :
         buf[b].file # 0 /\ ctx'[q].file = buf[b].file => buf[b].id \in ctx'[q].ids
  BY <1>7, <1>8 DEF FileInv
<1> QED
  BY <1>6, <1>10, <1>11, <1>12, <1>13, <1>14, <1>15, Zenon DEF FileInv

(* A free slot is in no Context's record and under no Buffer, so giving it *)
(* to a file disturbs nothing, whether or not the caller gets a Buffer.    *)
LEMMA AllocFile ==
  ASSUME FileInv, NEW o \in Objects, AllocThrows(o) \/ \E b \in Bufs : Alloc(o, b) PROVE FileInv'
<1>1. PICK k \in Slots : /\ slot[k] = 0 /\ ctx[o].file # 0
                         /\ slot' = [slot EXCEPT ![k] = ctx[o].file]
                         /\ \/ UNCHANGED <<ctx, buf>>
                            \/ \E b \in Bufs :
                                 /\ buf[b] = NoBuffer
                                 /\ buf' = [buf EXCEPT ![b] = [id |-> k, file |-> ctx[o].file]]
                                 /\ ctx' = [ctx EXCEPT ![o].ids = @ \cup {k}]
  BY Zenon DEF AllocThrows, Alloc, FirstFree
<1>2. UNCHANGED <<opened, closed, size>>
  BY Zenon DEF AllocThrows, Alloc
<1>3. /\ opened \in Nat /\ ctx[o].file \in 0..opened /\ ctx[o].ids \in SUBSET Slots
      /\ ctx[o] = [file |-> ctx[o].file, ids |-> ctx[o].ids] /\ k \in Nat
  BY SchedulerAssumption DEF FileInv, FileType
<1>4. slot'[k] = ctx[o].file /\ \A j \in Slots \ {k} : slot'[j] = slot[j]
  BY <1>1 DEF FileInv, FileType
<1>5. \A p \in Objects : k \notin ctx[p].ids
  BY <1>1, Zenon DEF FileInv
<1>6. \A b \in Bufs : buf[b].file # 0 => buf[b].id # k
  BY <1>1, Zenon DEF FileInv
<1>7. slot' \in [Slots -> 0..opened]
  BY <1>1, <1>3, Zenon DEF FileInv, FileType
<1>8. \A p \in Objects : \A j \in ctx[p].ids : j \in Slots \ {k}
  BY <1>5 DEF FileInv, FileType
<1>9. CASE UNCHANGED <<ctx, buf>>
  BY <1>2, <1>4, <1>6, <1>7, <1>8, <1>9 DEF FileInv, FileType
<1>10. CASE \E b \in Bufs :
              /\ buf[b] = NoBuffer
              /\ buf' = [buf EXCEPT ![b] = [id |-> k, file |-> ctx[o].file]]
              /\ ctx' = [ctx EXCEPT ![o].ids = @ \cup {k}]
  <2>1. PICK b \in Bufs :
              /\ buf[b] = NoBuffer
              /\ buf' = [buf EXCEPT ![b] = [id |-> k, file |-> ctx[o].file]]
              /\ ctx' = [ctx EXCEPT ![o].ids = @ \cup {k}]
    BY <1>10, Zenon
  <2>2. /\ buf'[b].id = k /\ buf'[b].file = ctx[o].file
        /\ \A c \in Bufs \ {b} : buf'[c] = buf[c]
        /\ buf' \in [Bufs -> [id : Nat, file : 0..opened]]
    BY <1>3, <2>1 DEF FileInv, FileType
  <2>3. /\ ctx'[o].ids = ctx[o].ids \cup {k} /\ ctx'[o].file = ctx[o].file
        /\ \A p \in Objects \ {o} : ctx'[p] = ctx[p]
        /\ ctx' \in [Objects -> [file : 0..opened, ids : SUBSET Slots]]
    BY <1>3, <2>1 DEF FileInv, FileType
  <2>4. FileType'
    BY <1>2, <1>7, <2>2, <2>3, Zenon DEF FileInv, FileType
  <2>5. \A p \in Objects : ctx'[p].file = ctx[p].file
    BY <2>3, Zenon
  <2>6. \A p \in Objects : \A j \in ctx'[p].ids : slot'[j] = ctx'[p].file
    BY <1>4, <1>8, <2>3 DEF FileInv
  <2>7. \A p \in Objects : ctx'[p].file = 0 => ctx'[p].ids = {}
    BY <1>1, <2>3 DEF FileInv
  <2>8. \A c \in Bufs : buf'[c].file # 0 => buf'[c].id \in Slots /\ slot'[buf'[c].id] = buf'[c].file
    BY <1>4, <1>6, <2>2 DEF FileInv
  <2>9. \A c \in Bufs, p \in Objects :
          buf'[c].file # 0 /\ ctx'[p].file = buf'[c].file => buf'[c].id \in ctx'[p].ids
    <3> SUFFICES ASSUME NEW c \in Bufs, NEW p \in Objects,
                        buf'[c].file # 0, ctx'[p].file = buf'[c].file
                 PROVE  buf'[c].id \in ctx'[p].ids
      BY Zenon
    <3>1. CASE c = b
      <4>1. p = o
        BY <1>1, <2>2, <2>5, <3>1 DEF FileInv
      <4> QED
        BY <2>2, <2>3, <3>1, <4>1, Zenon
    <3>2. CASE c # b
      BY <2>2, <2>3, <3>2 DEF FileInv
    <3> QED
      BY <3>1, <3>2, Zenon
  <2> QED
    BY <1>2, <2>4, <2>5, <2>6, <2>7, <2>8, <2>9 DEF FileInv
<1> QED
  BY <1>1, <1>9, <1>10, Zenon

(* A Buffer that goes away may end its file: no Context has that file.     *)
LEMMA DropFile == ASSUME FileInv, NEW b \in Bufs, DropBuffer(b) PROVE FileInv'
<1>1. /\ buf' = [buf EXCEPT ![b] = NoBuffer] /\ slot' = SlotsAfter(closed, buf')
      /\ UNCHANGED <<ctx, size, opened, closed>>
  BY Zenon DEF DropBuffer
<1>2. FileType
  BY Zenon DEF FileInv
<1>3. PICK bs \in [Bufs -> [id : Nat, file : 0..opened]] : bs = buf'
  <2>1. NoBuffer \in [id : Nat, file : 0..opened]
    BY <1>2 DEF FileType, NoBuffer
  <2>2. buf' \in [Bufs -> [id : Nat, file : 0..opened]]
    BY <1>1, <1>2, <2>1, Zenon DEF FileType
  <2> QED
    BY <2>2, Zenon
<1>4. bs[b].file = 0 /\ \A c \in Bufs \ {b} : bs[c] = buf[c]
  BY <1>1, <1>2, <1>3, Zenon DEF FileType, NoBuffer
<1>5. slot' = SlotsAfter(closed, bs) /\ closed \in SUBSET (1..opened)
  BY <1>1, <1>2, <1>3, Zenon DEF FileType
<1>6. /\ SlotsAfter(closed, bs) \in [Slots -> 0..opened]
      /\ \A k \in Slots : slot[k] \notin closed => SlotsAfter(closed, bs)[k] = slot[k]
      /\ \A k \in Slots, c \in Bufs : bs[c].file = slot[k] => SlotsAfter(closed, bs)[k] = slot[k]
  BY <1>2, <1>5, ReleaseFile, Zenon
<1>7. FileType'
  BY <1>1, <1>2, <1>3, <1>5, <1>6, Zenon DEF FileType
<1>8. \A o \in Objects : \A k \in ctx[o].ids : k \in Slots /\ slot'[k] = ctx[o].file
  <2>1. \A o \in Objects : \A k \in ctx[o].ids : k \in Slots /\ slot[k] = ctx[o].file
    BY Zenon DEF FileInv, FileType
  <2> QED
    BY <1>5, <1>6, <2>1, Zenon DEF FileInv
<1>9. \A c \in Bufs : bs[c].file # 0 => bs[c].id \in Slots /\ slot'[bs[c].id] = bs[c].file
  BY <1>4, <1>5, <1>6 DEF FileInv
<1>10. \A c \in Bufs, o \in Objects :
         bs[c].file # 0 /\ ctx[o].file = bs[c].file => bs[c].id \in ctx[o].ids
  BY <1>4 DEF FileInv
<1>11. ctx' = ctx /\ closed' = closed /\ buf' = bs
  BY <1>1, <1>3, Zenon
<1> HIDE DEF FileType
<1> QED
  BY <1>7, <1>8, <1>9, <1>10, <1>11, Zenon DEF FileInv

(* The Context passed to add_context() becomes a new entry.                *)
LEMMA AddFile == ASSUME FileInv, NEW o \in Locals, AddContext(o) PROVE FileInv'
<1>1. PICK n \in Objects : n = size + 1 /\ n # o
  BY SchedulerAssumption DEF AddContext, Objects, Entries, FileInv, FileType
<1>2. /\ ctx' = [ctx EXCEPT ![n] = ctx[o], ![o] = Moved] /\ size' \in 0..MaxEntries
      /\ UNCHANGED <<opened, closed, slot, buf>> /\ o \in Objects
  BY <1>1, SchedulerAssumption DEF AddContext, Objects, FileInv, FileType
<1>3. /\ ctx'[n] = ctx[o] /\ ctx'[o] = Moved
      /\ \A p \in Objects \ {n, o} : ctx'[p] = ctx[p]
  BY <1>1, <1>2 DEF FileInv, FileType
<1>4. /\ Moved.file = 0 /\ Moved.ids = {} /\ opened \in Nat /\ closed \subseteq 1..opened
      /\ 0 \notin closed /\ Moved \in [file : 0..opened, ids : SUBSET Slots]
  BY DEF Moved, FileInv, FileType
<1>5. FileType'
  BY <1>2, <1>4 DEF FileInv, FileType
<1>6. \A q \in Objects : \/ ctx'[q] = Moved
                         \/ q # o /\ q # n /\ ctx'[q] = ctx[q]
                         \/ q = n /\ ctx'[q] = ctx[o]
  BY <1>3, Zenon
<1>7. /\ \A p \in Objects : ctx[p].file \notin closed
      /\ \A p \in Objects : ctx[p].file = 0 => ctx[p].ids = {}
      /\ \A p, q \in Objects : ctx[p].file # 0 /\ ctx[p].file = ctx[q].file => p = q
      /\ \A p \in Objects : \A k \in ctx[p].ids : slot[k] = ctx[p].file
      /\ \A b \in Bufs, p \in Objects :
           buf[b].file # 0 /\ ctx[p].file = buf[b].file => buf[b].id \in ctx[p].ids
  BY Zenon DEF FileInv
<1>8. o \in Objects /\ closed' = closed /\ slot' = slot /\ buf' = buf
  BY <1>2, Zenon
<1>9. \A p, q \in Objects : ctx'[p].file # 0 /\ ctx'[p].file = ctx'[q].file => p = q
  BY <1>4, <1>6, <1>7, <1>8
<1>10. \A p \in Objects : /\ ctx'[p].file \notin closed
                          /\ ctx'[p].file = 0 => ctx'[p].ids = {}
                          /\ \A k \in ctx'[p].ids : slot[k] = ctx'[p].file
  BY <1>4, <1>6, <1>7, <1>8
<1>11. \A b \in Bufs, p \in Objects :
         buf[b].file # 0 /\ ctx'[p].file = buf[b].file => buf[b].id \in ctx'[p].ids
  BY <1>4, <1>6, <1>7, <1>8
<1>12. \A b \in Bufs : buf[b].file # 0 => buf[b].id \in Slots /\ slot[buf[b].id] = buf[b].file
  BY Zenon DEF FileInv
<1> QED
  BY <1>5, <1>8, <1>9, <1>10, <1>11, <1>12, Zenon DEF FileInv

(* Every step keeps the invariant.                                         *)
LEMMA FileStep == ASSUME FileInv, [Next]_vars PROVE FileInv'
<1>1. Present \subseteq Objects /\ Locals \subseteq Objects
  BY SchedulerAssumption DEF Present, Objects, Entries, FileInv, FileType
<1>2. CASE ContextStep
  <2>1. ASSUME NEW o \in Objects, Construct(o) PROVE FileInv'
    BY <2>1, ConstructFile, Zenon
  <2>2. ASSUME NEW o \in Objects, Destroy(o) PROVE FileInv'
    BY <2>2, MoveFile, Zenon DEF Destroy
  <2>3. ASSUME NEW o \in Objects, NEW p \in Objects, MoveAssign(o, p) PROVE FileInv'
    BY <2>3, MoveFile, Zenon DEF MoveAssign
  <2> QED
    BY <1>1, <1>2, <2>1, <2>2, <2>3, AllocFile, DropFile, AddFile, Zenon DEF ContextStep
<1>3. CASE UNCHANGED objVars
  BY <1>3, Zenon DEF objVars, FileInv, FileType
<1>4. CASE ~ ContextStep
  <2>1. UNCHANGED objVars
    BY <1>4, Zenon DEF Next, vars, EnqueueCopy, RunRound, RoundStep, Skip, Dispatch, DispatchThrows,
                PassEnds
  <2> QED
    BY <1>3, <2>1, Zenon
<1> QED
  BY <1>2, <1>4, Zenon

(* A Context accepts exactly the Buffers of its own Stream, although the   *)
(* driver recycles buffer ids and Contexts are moved and destroyed.        *)
THEOREM ProvenanceCheckExact == Spec => []ProvenanceExact
<1>1. FileInv => ProvenanceExact
  <2> SUFFICES ASSUME FileInv, NEW o \in Objects, NEW b \in Bufs, buf[b].file # 0
               PROVE  CheckOwned(o, b) <=> ctx[o].file = buf[b].file
    BY Zenon DEF ProvenanceExact
  <2> QED
    BY Zenon DEF FileInv, CheckOwned
<1> QED
  BY <1>1, InitFile, FileStep, PTL DEF Spec

-----------------------------------------------------------------------------
(* Rounds                                                                  *)

Request == [nr : 1..MaxReqs, operands : SUBSET Bufs]

Empty(j) == pending[j] = <<>>

RoundType ==
  /\ size \in 0..MaxEntries /\ reqs \in 0..MaxReqs
  /\ pending \in [Entries -> Seq(Request)]
  /\ active \in BOOLEAN /\ progress \in BOOLEAN /\ idx \in Nat /\ last \in Nat

(* The countdown agrees with the queues throughout a round.  In a pass     *)
(* that has dispatched, the entries between the one served last and the    *)
(* loop variable are empty; in one that has not, so are all the entries it *)
(* has passed and, from the pass before, those behind the one served last. *)
RoundInv ==
  /\ RoundType
  /\ \A j \in Entries : j > size => Empty(j)
  /\ active =>
       /\ idx \in 1..size + 1 /\ last \in 0..size
       /\ remaining = [j \in Entries |-> Len(pending[j])]
       /\ progress => /\ last \in 1..idx - 1
                      /\ \A j \in Entries : last < j /\ j < idx => Empty(j)
       /\ ~ progress => /\ \A j \in Entries : j < idx => Empty(j)
                        /\ last # 0 => \A j \in Entries : last < j => Empty(j)

(* No round is running at first, and nothing is pending.                   *)
LEMMA InitRound == Init => RoundInv
<1> SUFFICES ASSUME Init PROVE RoundInv
  BY Zenon
<1>1. RoundType
  <2>1. <<>> \in Seq(Request)
    BY EmptySeq, Zenon
  <2>2. pending \in [Entries -> Seq(Request)]
    BY <2>1, Zenon DEF Init
  <2>3. active \in BOOLEAN /\ progress \in BOOLEAN
    BY Zenon DEF Init
  <2>4. size \in 0..MaxEntries /\ reqs \in 0..MaxReqs /\ idx \in Nat /\ last \in Nat
    BY SchedulerAssumption DEF Init
  <2> QED
    BY <2>2, <2>3, <2>4, Zenon DEF RoundType
<1>2. ~ active /\ \A j \in Entries : Empty(j)
  BY Zenon DEF Init, Empty
<1> QED
  BY <1>1, <1>2, Zenon DEF RoundInv

(* The numbers of the requests in a queue, and what the operations of a    *)
(* queue do to them.                                                       *)
Nrs(q) == [k \in DOMAIN q |-> q[k].nr]

(* The numbers of a queue of requests.                                     *)
LEMMA NrsType ==
  ASSUME NEW q \in Seq(Request)
  PROVE  /\ Nrs(q) \in Seq(1..MaxReqs) /\ Len(Nrs(q)) = Len(q)
         /\ \A k \in 1..Len(q) : Nrs(q)[k] = q[k].nr
         /\ Nrs(q) = <<>> <=> q = <<>>
<1>1. DOMAIN q = 1..Len(q) /\ Len(q) \in Nat /\ \A k \in 1..Len(q) : q[k] \in Request
  OBVIOUS
<1>2. \A k \in 1..Len(q) : q[k].nr \in 1..MaxReqs
  BY <1>1, Zenon DEF Request
<1>3. Nrs(q) \in [1..Len(q) -> 1..MaxReqs]
  BY <1>1, <1>2, Zenon DEF Nrs
<1>4. Nrs(q) \in Seq(1..MaxReqs) /\ Len(Nrs(q)) = Len(q)
  <2>1. Nrs(q) \in Seq(1..MaxReqs)
    <3>1. [1..Len(q) -> 1..MaxReqs] \in {[1..n -> 1..MaxReqs] : n \in Nat}
      BY <1>1, Zenon
    <3>2. Nrs(q) \in UNION {[1..n -> 1..MaxReqs] : n \in Nat}
      BY <1>3, <3>1, Zenon
    <3>3. Seq(1..MaxReqs) = UNION {[1..n -> 1..MaxReqs] : n \in Nat}
      BY SeqDef, Zenon
    <3> QED
      BY <3>2, <3>3, Zenon
  <2>2. Len(Nrs(q)) \in Nat /\ 1..Len(Nrs(q)) = 1..Len(q)
    BY <1>3, <2>1, LenProperties, Zenon
  <2> QED
    BY <1>1, <2>1, <2>2
<1>5. \A k \in 1..Len(q) : Nrs(q)[k] = q[k].nr
  BY <1>1, Zenon DEF Nrs
<1>6. Nrs(q) = <<>> <=> q = <<>>
  BY <1>1, <1>4
<1> QED
  BY <1>4, <1>5, <1>6, Zenon

(* Popping the queue pops its number.                                      *)
LEMMA NrsTail ==
  ASSUME NEW q \in Seq(Request), q # <<>>
  PROVE  /\ Tail(q) \in Seq(Request) /\ Len(Tail(q)) = Len(q) - 1
         /\ Nrs(Tail(q)) = Tail(Nrs(q)) /\ Head(Nrs(q)) = Head(q).nr
<1>1. /\ Tail(q) \in Seq(Request) /\ Len(Tail(q)) = Len(q) - 1 /\ Len(q) \in Nat \ {0}
      /\ \A k \in 1..Len(q) - 1 : Tail(q)[k] = q[k + 1]
      /\ Head(q) = q[1]
  OBVIOUS
<1>2. /\ Nrs(q) \in Seq(1..MaxReqs) /\ Len(Nrs(q)) = Len(q)
      /\ \A k \in 1..Len(q) : Nrs(q)[k] = q[k].nr
      /\ Nrs(q) # <<>>
  BY NrsType, Zenon
<1>3. /\ Nrs(Tail(q)) \in Seq(1..MaxReqs) /\ Len(Nrs(Tail(q))) = Len(q) - 1
      /\ \A k \in 1..Len(q) - 1 : Nrs(Tail(q))[k] = Tail(q)[k].nr
  BY <1>1, NrsType, Zenon
<1> HIDE DEF Nrs
<1>4. /\ Tail(Nrs(q)) \in Seq(1..MaxReqs) /\ Len(Tail(Nrs(q))) = Len(q) - 1
      /\ \A k \in 1..Len(q) - 1 : Tail(Nrs(q))[k] = Nrs(q)[k + 1]
      /\ Head(Nrs(q)) = Nrs(q)[1]
  BY <1>2
<1>5. \A k \in 1..Len(q) - 1 : Nrs(Tail(q))[k] = Tail(Nrs(q))[k]
  <2> SUFFICES ASSUME NEW k \in 1..Len(q) - 1 PROVE Nrs(Tail(q))[k] = Tail(Nrs(q))[k]
    BY Zenon
  <2>1. k + 1 \in 1..Len(q)
    BY <1>1
  <2> QED
    BY <1>1, <1>2, <1>3, <1>4, <2>1
<1>6. Nrs(Tail(q)) = Tail(Nrs(q))
  BY SMTT(15), <1>1, <1>3, <1>4, <1>5
<1>7. Head(Nrs(q)) = Head(q).nr
  BY <1>1, <1>2, <1>4
<1> QED
  BY <1>1, <1>6, <1>7, Zenon

(* A request pushed to the back adds its number there.                     *)
LEMMA NrsAppend ==
  ASSUME NEW q \in Seq(Request), NEW r \in Request
  PROVE  Append(q, r) \in Seq(Request) /\ Nrs(Append(q, r)) = Append(Nrs(q), r.nr)
<1>1. /\ Append(q, r) \in Seq(Request) /\ Len(Append(q, r)) = Len(q) + 1 /\ Len(q) \in Nat
      /\ \A k \in 1..Len(q) : Append(q, r)[k] = q[k]
      /\ Append(q, r)[Len(q) + 1] = r
  OBVIOUS
<1>2. /\ Nrs(q) \in Seq(1..MaxReqs) /\ Len(Nrs(q)) = Len(q)
      /\ \A k \in 1..Len(q) : Nrs(q)[k] = q[k].nr
  BY NrsType, Zenon
<1>3. /\ Nrs(Append(q, r)) \in Seq(1..MaxReqs) /\ Len(Nrs(Append(q, r))) = Len(q) + 1
      /\ \A k \in 1..Len(q) + 1 : Nrs(Append(q, r))[k] = Append(q, r)[k].nr
  BY <1>1, NrsType, Zenon
<1> HIDE DEF Nrs
<1>4. r.nr \in 1..MaxReqs
  BY Zenon DEF Request
<1>5. /\ Append(Nrs(q), r.nr) \in Seq(1..MaxReqs) /\ Len(Append(Nrs(q), r.nr)) = Len(q) + 1
      /\ \A k \in 1..Len(q) : Append(Nrs(q), r.nr)[k] = Nrs(q)[k]
      /\ Append(Nrs(q), r.nr)[Len(q) + 1] = r.nr
  BY <1>2, <1>4
<1>6. \A k \in 1..Len(q) + 1 : Nrs(Append(q, r))[k] = Append(Nrs(q), r.nr)[k]
  <2> SUFFICES ASSUME NEW k \in 1..Len(q) + 1
               PROVE  Nrs(Append(q, r))[k] = Append(Nrs(q), r.nr)[k]
    BY Zenon
  <2>1. CASE k \in 1..Len(q)
    BY <1>1, <1>2, <1>3, <1>5, <2>1, Zenon
  <2>2. CASE k = Len(q) + 1
    BY <1>1, <1>3, <1>5, <2>2, Zenon
  <2>3. k \in 1..Len(q) \/ k = Len(q) + 1
    BY <1>1
  <2> QED
    BY <2>1, <2>2, <2>3, Zenon
<1>7. Nrs(Append(q, r)) = Append(Nrs(q), r.nr)
  BY <1>1, <1>3, <1>5, <1>6
<1> QED
  BY <1>1, <1>7, Zenon

Queue == [i \in Entries |-> [k \in DOMAIN pending[i] |-> pending[i][k].nr]]

(* The queues of the refinement mapping.                                   *)
LEMMA QueueIs == RoundType => /\ Queue \in [Entries -> Seq(1..MaxReqs)]
                              /\ \A i \in Entries : Queue[i] = Nrs(pending[i])
                              /\ \A i \in Entries : Queue[i] = <<>> <=> Empty(i)
<1> SUFFICES ASSUME RoundType PROVE /\ Queue \in [Entries -> Seq(1..MaxReqs)]
                                    /\ \A i \in Entries : Queue[i] = Nrs(pending[i])
                                    /\ \A i \in Entries : Queue[i] = <<>> <=> Empty(i)
  BY Zenon
<1>1. \A i \in Entries : Queue[i] = Nrs(pending[i])
  BY Zenon DEF Queue, Nrs
<1>2. \A i \in Entries : pending[i] \in Seq(Request)
  BY Zenon DEF RoundType
<1>3. \A i \in Entries : /\ Queue[i] \in Seq(1..MaxReqs)
                         /\ Queue[i] = <<>> <=> Empty(i)
  BY <1>1, <1>2, NrsType, Zenon DEF Empty
<1>4. Queue \in [Entries -> Seq(1..MaxReqs)]
  BY <1>3, Zenon DEF Queue
<1> QED
  BY <1>1, <1>3, <1>4, Zenon

(* A new request.                                                          *)
LEMMA EnqueueRound ==
  ASSUME RoundInv, NEW i \in Entries, NEW ops \in SUBSET Bufs, EnqueueCopy(i, ops)
  PROVE  RoundInv' /\ Abstract!Next
<1>1. /\ ~ active /\ i <= size /\ reqs' = reqs + 1 /\ reqs < MaxReqs
      /\ UNCHANGED <<size, active, progress, idx, last, out>>
  BY Zenon DEF EnqueueCopy, objVars, roundVars
<1>2. PICK r \in Request : r.nr = reqs + 1 /\ pending' = [pending EXCEPT ![i] = Append(@, r)]
  <2>1. reqs + 1 \in 1..MaxReqs
    BY <1>1, SchedulerAssumption DEF RoundInv, RoundType
  <2>2. [nr |-> reqs + 1, operands |-> ops] \in Request
    BY <2>1, Zenon DEF Request
  <2> QED
    BY <1>1, <2>2, Zenon DEF EnqueueCopy
<1>3. RoundType /\ i \in Int /\ size \in Int
  BY DEF RoundInv, RoundType, Entries
<1>4. /\ pending'[i] = Append(pending[i], r) /\ \A j \in Entries \ {i} : pending'[j] = pending[j]
      /\ pending[i] \in Seq(Request) /\ pending'[i] \in Seq(Request)
      /\ Nrs(pending'[i]) = Append(Nrs(pending[i]), r.nr)
  BY <1>2, <1>3, NrsAppend, Zenon DEF RoundType
<1>5. pending' \in [Entries -> Seq(Request)]
  BY <1>2, <1>3, <1>4, Zenon DEF RoundType
<1>6. RoundType'
  <2>1. reqs' \in 0..MaxReqs
    BY <1>1, <1>3, SchedulerAssumption DEF RoundType
  <2> QED
    BY <1>1, <1>3, <1>5, <2>1, Zenon DEF RoundType
<1>7. \A j \in Entries : j > size' => Empty(j)'
  BY <1>1, <1>3, <1>4 DEF RoundInv, Empty
<1>8. Queue' = [Queue EXCEPT ![i] = Append(@, reqs + 1)]
  <2>1. \A j \in Entries : Queue[j] = Nrs(pending[j]) /\ Queue'[j] = Nrs(pending'[j])
    BY Zenon DEF Queue, Nrs
  <2>2. Queue'[i] = Append(Queue[i], reqs + 1) /\ \A j \in Entries \ {i} : Queue'[j] = Queue[j]
    BY <1>2, <1>4, <2>1, Zenon
  <2> QED
    BY <2>2, Zenon DEF Queue
<1>9. PICK n \in 1..MaxReqs : n = reqs + 1
  BY <1>1, <1>3, SchedulerAssumption DEF RoundType
<1>10. Abstract!Enqueue(i, n) /\ i \in 1..MaxEntries
  BY <1>1, <1>8, <1>9, Zenon DEF Abstract!Enqueue, Queue, Entries
<1>11. RoundInv'
  BY <1>1, <1>6, <1>7, Zenon DEF RoundInv
<1>12. Abstract!Next
  BY <1>9, <1>10, Zenon DEF Abstract!Next, Abstract!Clients
<1> QED
  BY <1>11, <1>12, Zenon

(* A round begins with the counts of the queues.                           *)
LEMMA BeginRound == ASSUME RoundInv, RunRound PROVE RoundInv' /\ Abstract!Next
<1>1. /\ ~ active /\ active' = TRUE /\ progress' = FALSE /\ idx' = 1 /\ last' = 0
      /\ remaining' = [j \in Entries |-> Len(pending[j])]
      /\ UNCHANGED <<size, reqs, pending, out>>
  BY Zenon DEF RunRound, objVars
<1>2. RoundType /\ size \in Nat
  BY SchedulerAssumption DEF RoundInv, RoundType
<1>3. RoundType'
  BY <1>1, <1>2, Zenon DEF RoundType
<1>4. \A j \in Entries : Empty(j)' <=> Empty(j)
  BY <1>1, Zenon DEF Empty
<1>5. RoundInv'
  BY <1>1, <1>2, <1>3, <1>4 DEF RoundInv, Entries
<1>6. Abstract!Begin
  BY <1>1, Zenon DEF Abstract!Begin
<1> QED
  BY <1>5, <1>6, Zenon DEF Abstract!Next

(* An entry without requests is passed over.                               *)
LEMMA SkipRound == ASSUME RoundInv, Skip PROVE RoundInv' /\ UNCHANGED Abstract!vars
<1>1. /\ active /\ idx <= size /\ remaining[idx] = 0 /\ idx' = idx + 1
      /\ UNCHANGED <<size, reqs, pending, active, remaining, progress, last, out>>
  BY Zenon DEF Skip, objVars
<1>2. /\ RoundType /\ size \in 0..MaxEntries /\ idx \in 1..size + 1 /\ last \in 0..size /\ MaxEntries \in Nat
      /\ remaining = [j \in Entries |-> Len(pending[j])]
  BY <1>1, SchedulerAssumption, Zenon DEF RoundInv, RoundType
<1>3. idx \in Entries /\ pending[idx] \in Seq(Request)
  BY <1>1, <1>2 DEF Entries, RoundType
<1>4. Empty(idx)
  BY <1>1, <1>2, <1>3 DEF Empty
<1>5. \A j \in Entries : j < idx + 1 => j < idx \/ j = idx
  BY <1>2 DEF Entries
<1>6. RoundType'
  BY <1>1, <1>2 DEF RoundType
<1>7. \A j : Empty(j)' <=> Empty(j)
  BY <1>1, Zenon DEF Empty
<1>8. idx' \in 1..size' + 1 /\ last' \in 0..size' /\ (progress => last \in 1..idx - 1 /\ last \in 1..idx' - 1)
  BY <1>1, <1>2 DEF RoundInv
<1>9. RoundInv'
  BY <1>1, <1>2, <1>4, <1>5, <1>6, <1>7, <1>8, Zenon DEF RoundInv
<1> QED
  BY <1>1, <1>9, Zenon DEF Abstract!vars

(* A pop takes the oldest request of the entry whose turn it is.           *)
LEMMA PopRound ==
  ASSUME RoundInv, Pop, NEW i, i = idx
  PROVE  /\ i \in Entries /\ i <= size /\ active /\ ~ Empty(i)
         /\ pending' \in [Entries -> Seq(Request)] /\ pending'[i] = Tail(pending[i])
         /\ \A j \in Entries \ {i} : pending'[j] = pending[j]
         /\ Len(pending'[i]) = remaining[i] - 1
         /\ Queue' = [Queue EXCEPT ![i] = Tail(@)] /\ Head(Queue[i]) = Head(pending[i]).nr
         /\ Abstract!IsTurn(i)
<1>1. /\ active /\ i <= size /\ remaining[i] > 0
      /\ pending' = [pending EXCEPT ![i] = Tail(@)]
  BY Zenon DEF Pop
<1>2. /\ RoundType /\ size \in 0..MaxEntries /\ i \in 1..size + 1 /\ last \in 0..size
      /\ MaxEntries \in Nat /\ remaining = [j \in Entries |-> Len(pending[j])]
  BY <1>1, SchedulerAssumption, Zenon DEF RoundInv, RoundType
<1>3. i \in Entries /\ pending[i] \in Seq(Request) /\ pending[i] # <<>>
  BY <1>1, <1>2 DEF Entries, RoundType
<1>4. /\ Tail(pending[i]) \in Seq(Request) /\ Len(Tail(pending[i])) = Len(pending[i]) - 1
      /\ Nrs(Tail(pending[i])) = Tail(Nrs(pending[i])) /\ Head(Nrs(pending[i])) = Head(pending[i]).nr
  BY <1>3, NrsTail, Zenon
<1>5. /\ pending'[i] = Tail(pending[i]) /\ \A j \in Entries \ {i} : pending'[j] = pending[j]
      /\ pending' \in [Entries -> Seq(Request)]
  BY <1>1, <1>2, <1>3, <1>4, Zenon DEF RoundType
<1>6. Len(pending'[i]) = remaining[i] - 1
  BY <1>2, <1>3, <1>4, <1>5, Zenon
<1>7. \A j \in Entries : Queue[j] = Nrs(pending[j]) /\ Queue'[j] = Nrs(pending'[j])
  BY Zenon DEF Queue, Nrs
<1>8. Queue' = [Queue EXCEPT ![i] = Tail(@)] /\ Head(Queue[i]) = Head(pending[i]).nr
  <2>1. Queue'[i] = Tail(Queue[i]) /\ \A j \in Entries \ {i} : Queue'[j] = Queue[j]
    BY ZenonT(30), <1>3, <1>4, <1>5, <1>7
  <2>2. Queue' = [Queue EXCEPT ![i] = Tail(@)]
    BY ZenonT(30), <2>1 DEF Queue
  <2> QED
    BY <1>3, <1>4, <1>7, <2>2, Zenon
<1>9. \A j \in Entries : (IF i > last THEN last < j /\ j < i ELSE j > last \/ j < i) => Empty(j)
  <2>1. CASE progress
    BY <1>1, <1>2, <2>1 DEF RoundInv, Entries
  <2>2. CASE ~ progress
    BY <1>1, <1>2, <2>2 DEF RoundInv, Entries
  <2> QED
    BY <2>1, <2>2, Zenon
<1>10. \A j \in Entries : Queue[j] = <<>> <=> Empty(j)
  BY <1>2, QueueIs, Zenon
<1>11. Abstract!IsTurn(i)
  <2>1. Queue[i] # <<>>
    BY <1>3, <1>10, Zenon DEF Empty
  <2>2. \A j \in 1..MaxEntries :
          (IF i > last THEN last < j /\ j < i ELSE j > last \/ j < i) => Queue[j] = <<>>
    BY <1>9, <1>10, Zenon DEF Entries
  <2> QED
    BY <1>1, <2>1, <2>2, Zenon DEF Abstract!IsTurn, Abstract!Clients, Queue
<1> QED
  BY <1>1, <1>3, <1>5, <1>6, <1>8, <1>11, Zenon DEF Empty

(* A submit serves the entry whose turn it is; a throw drops its request.  *)
LEMMA DispatchRound ==
  ASSUME RoundInv, Dispatch \/ DispatchThrows PROVE RoundInv' /\ Abstract!Next
<1>1. PICK i : i = idx
  BY Zenon
<1>2. /\ i \in Entries /\ i <= size /\ active /\ ~ Empty(i)
      /\ pending' \in [Entries -> Seq(Request)] /\ pending'[i] = Tail(pending[i])
      /\ \A j \in Entries \ {i} : pending'[j] = pending[j]
      /\ Len(pending'[i]) = remaining[i] - 1
      /\ Queue' = [Queue EXCEPT ![i] = Tail(@)] /\ Head(Queue[i]) = Head(pending[i]).nr
      /\ Abstract!IsTurn(i)
  BY <1>1, PopRound, Zenon DEF Dispatch, DispatchThrows
<1>3. /\ RoundType /\ size \in 0..MaxEntries /\ i \in 1..size + 1 /\ last \in 0..size
      /\ MaxEntries \in Nat /\ remaining = [j \in Entries |-> Len(pending[j])]
      /\ i \in 1..MaxEntries
  BY <1>1, <1>2, SchedulerAssumption, Zenon DEF RoundInv, RoundType, Entries
<1>4. \A j \in Entries : j > size => Empty(j)'
  BY <1>2, <1>3, Zenon DEF RoundInv, Empty
<1>5. CASE Dispatch
  <2>1. /\ remaining' = [remaining EXCEPT ![i] = @ - 1] /\ progress' = TRUE
        /\ out' = out \cup {<<i, Head(pending[i]).nr>>} /\ last' = i /\ idx' = i + 1
        /\ UNCHANGED <<size, reqs, active>>
    BY <1>1, <1>5, Zenon DEF Dispatch, objVars
  <2>2. RoundType'
    BY <1>2, <1>3, <2>1 DEF RoundType, Entries
  <2>3. remaining' = [j \in Entries |-> Len(pending'[j])]
    BY <1>2, <1>3, <2>1, Zenon
  <2>4. /\ idx' \in 1..size' + 1 /\ last' \in 0..size' /\ last' \in 1..idx' - 1
        /\ \A j \in Entries : ~ (last' < j /\ j < idx')
    BY <1>2, <1>3, <2>1 DEF Entries
  <2>5. RoundInv'
    BY <1>2, <1>4, <2>1, <2>2, <2>3, <2>4, Zenon DEF RoundInv
  <2>6. Abstract!Serve(i)
    BY <1>2, <2>1, Zenon DEF Abstract!Serve, Queue
  <2> QED
    BY <1>3, <2>5, <2>6, Zenon DEF Abstract!Next, Abstract!Clients
<1>6. CASE DispatchThrows
  <2>1. /\ active' = FALSE /\ idx' = 0 /\ progress' = FALSE /\ last' = 0
        /\ UNCHANGED <<size, reqs, out>>
    BY <1>6, Zenon DEF DispatchThrows, Return, objVars
  <2>2. RoundType'
    BY <1>2, <1>3, <2>1, Zenon DEF RoundType
  <2>3. RoundInv'
    BY <1>4, <2>1, <2>2, Zenon DEF RoundInv
  <2>4. Abstract!Fail(i)
    BY <1>2, <2>1, Zenon DEF Abstract!Fail, Queue
  <2> QED
    BY <1>3, <2>3, <2>4, Zenon DEF Abstract!Next, Abstract!Clients
<1> QED
  BY <1>5, <1>6, Zenon

(* A pass that dispatched is followed by another; one that did not ends    *)
(* the round, with nothing pending.                                        *)
LEMMA PassRound ==
  ASSUME RoundInv, PassEnds PROVE RoundInv' /\ (Abstract!Next \/ UNCHANGED Abstract!vars)
<1>1. active /\ idx > size /\ UNCHANGED <<size, reqs, pending, out>>
  BY Zenon DEF PassEnds, objVars
<1>2. /\ RoundType /\ size \in Nat /\ idx = size + 1
  BY <1>1, SchedulerAssumption DEF RoundInv, RoundType
<1>3. \A j : Empty(j)' <=> Empty(j)
  BY <1>1, Zenon DEF Empty
<1>4. CASE progress
  <2>1. idx' = 1 /\ progress' = FALSE /\ UNCHANGED <<active, remaining, last>>
    BY <1>4, Zenon DEF PassEnds
  <2>2. \A j \in Entries : last < j => Empty(j)
    <3>1. \A j \in Entries : j \in Int /\ (j < size + 1 \/ j > size)
      BY <1>2 DEF Entries
    <3> QED
      BY <1>1, <1>2, <1>4, <3>1, Zenon DEF RoundInv
  <2>3. RoundType'
    BY <1>1, <1>2, <2>1, Zenon DEF RoundType
  <2>4. \A j \in Entries : ~ (j < 1)
    BY DEF Entries
  <2>5. RoundInv'
    BY <1>1, <1>2, <1>3, <2>1, <2>2, <2>3, <2>4 DEF RoundInv
  <2> QED
    BY <1>1, <2>1, <2>5, Zenon DEF Abstract!vars
<1>5. CASE ~ progress
  <2>1. active' = FALSE /\ idx' = 0 /\ progress' = FALSE /\ last' = 0
    BY <1>5, Zenon DEF PassEnds, Return
  <2>2. \A j \in Entries : Empty(j)
    <3>1. \A j \in Entries : j < size + 1 \/ j > size
      BY <1>2 DEF Entries
    <3> QED
      BY <1>1, <1>2, <1>5, <3>1, Zenon DEF RoundInv
  <2>3. \A j \in 1..MaxEntries : Queue[j] = <<>>
    BY <1>2, <2>2, QueueIs, Zenon DEF Entries
  <2>4. RoundType'
    BY <1>1, <1>2, <2>1, Zenon DEF RoundType
  <2>5. RoundInv'
    BY <1>1, <1>3, <2>1, <2>2, <2>4, Zenon DEF RoundInv
  <2>6. Abstract!End
    BY <1>1, <2>1, <2>3, Zenon DEF Abstract!End, Abstract!Clients, Queue
  <2> QED
    BY <2>5, <2>6, Zenon DEF Abstract!Next
<1> QED
  BY <1>4, <1>5, Zenon

(* The Context operations leave queues and rounds alone: they are calls of *)
(* the one thread, which is not inside run_round().                        *)
LEMMA ContextRound ==
  ASSUME RoundInv, ContextStep PROVE RoundInv' /\ UNCHANGED Abstract!vars
<1>1. ~ active /\ UNCHANGED <<reqs, pending, active, progress, idx, last, out>>
  BY Zenon DEF ContextStep, Construct, Destroy, AddContext, MoveAssign, AllocThrows, Alloc, DropBuffer,
         roundVars
<1>2. size' = size \/ (size < MaxEntries /\ size' = size + 1)
  BY Zenon DEF ContextStep, Construct, Destroy, AddContext, MoveAssign, AllocThrows, Alloc, DropBuffer
<1>3. RoundType /\ size \in 0..MaxEntries /\ size' \in 0..MaxEntries /\ size' >= size
  BY <1>2, SchedulerAssumption DEF RoundInv, RoundType
<1>4. RoundType'
  BY <1>1, <1>3, Zenon DEF RoundType
<1>5. \A j \in Entries : j > size' => j > size
  BY <1>3 DEF Entries
<1>6. RoundInv'
  BY <1>1, <1>4, <1>5, Zenon DEF RoundInv, Empty
<1> QED
  BY <1>1, <1>6, Zenon DEF Abstract!vars

(* Nothing else moves.                                                     *)
LEMMA RoundStutter ==
  ASSUME RoundInv, UNCHANGED vars PROVE RoundInv' /\ UNCHANGED Abstract!vars
BY Zenon DEF vars, objVars, roundVars, RoundInv, RoundType, Empty, Abstract!vars

(* run_round() is the round-robin dispatcher, for any number of Contexts   *)
(* and requests.                                                           *)
THEOREM RoundRobinImplemented == Spec => StrictRoundRobin
<1>1. Init => Abstract!Init
  BY DEF Init, Abstract!Init, Abstract!Clients, Entries
<1>2. RoundInv /\ [Next]_vars => RoundInv' /\ [Abstract!Next]_Abstract!vars
  <2> SUFFICES ASSUME RoundInv, [Next]_vars PROVE RoundInv' /\ [Abstract!Next]_Abstract!vars
    BY Zenon
  <2>1. CASE \E i \in Entries, src, dst \in Bufs : EnqueueCopy(i, {src, dst})
    BY <2>1, EnqueueRound, Zenon
  <2>2. CASE RoundStep
    BY <2>2, SkipRound, DispatchRound, PassRound, Zenon DEF RoundStep
  <2> QED
    BY <2>1, <2>2, ContextRound, BeginRound, RoundStutter, Zenon DEF Next
<1> QED
  BY <1>1, <1>2, InitRound, PTL DEF Spec, StrictRoundRobin, Abstract!Spec
=============================================================================
