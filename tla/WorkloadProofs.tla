--------------------------- MODULE WorkloadProofs ---------------------------
(***************************************************************************)
(* Proofs about Workload for any pool, handles, batches and streams, and   *)
(* any number of commands: a buffer is lent once, a command is sent once,  *)
(* a free buffer is idle, and run() implements the round-robin dispatcher. *)
(***************************************************************************)
EXTENDS Workload, SequenceTheorems, TLAPS

-----------------------------------------------------------------------------
(* Sequences and what is in them                                           *)

(* No element of q is in it twice.                                         *)
Distinct(q) == \A i, j \in 1..Len(q) : q[i] = q[j] => i = j

(* What is in a sequence.                                                  *)
LEMMA InRange ==
  ASSUME NEW S, NEW q \in Seq(S), NEW n, Len(q) = n, NEW x
  PROVE  x \in Range(q) <=> \E i \in 1..n : x = q[i]
BY DEF Range

(* push_back() adds its argument.                                          *)
LEMMA AppendRange ==
  ASSUME NEW S, NEW q \in Seq(S), NEW x \in S
  PROVE  /\ Append(q, x) \in Seq(S)
         /\ \A y : y \in Range(Append(q, x)) <=> y \in Range(q) \/ y = x
         /\ Distinct(q) /\ x \notin Range(q) => Distinct(Append(q, x))
<1>1. /\ Append(q, x) \in Seq(S) /\ Len(Append(q, x)) = Len(q) + 1 /\ Len(q) \in Nat
      /\ \A i \in 1..Len(q) : Append(q, x)[i] = q[i]
      /\ Append(q, x)[Len(q) + 1] = x
  OBVIOUS
<1>2. ASSUME NEW y PROVE y \in Range(Append(q, x)) <=> y \in Range(q) \/ y = x
  <2>1. y \in Range(Append(q, x)) <=> \E i \in 1..Len(q) + 1 : y = Append(q, x)[i]
    BY <1>1 DEF Range
  <2>2. y \in Range(q) <=> \E i \in 1..Len(q) : y = q[i]
    BY InRange
  <2>3. (\E i \in 1..Len(q) + 1 : y = Append(q, x)[i]) <=> (\E i \in 1..Len(q) : y = q[i]) \/ y = x
    <3>1. \A i : i \in 1..Len(q) + 1 <=> i \in 1..Len(q) \/ i = Len(q) + 1 BY <1>1
    <3> QED BY <1>1, <3>1, Zenon
  <2> QED BY <2>1, <2>2, <2>3, Zenon
<1>3. ASSUME Distinct(q), x \notin Range(q) PROVE Distinct(Append(q, x))
  <2>1. \A i \in 1..Len(q) : q[i] # x
    BY <1>3, InRange, Zenon
  <2> QED BY <1>1, <1>3, <2>1 DEF Distinct
<1> QED BY <1>1, <1>2, <1>3, Zenon

(* pop_front() takes the head.                                             *)
LEMMA TailRange ==
  ASSUME NEW S, NEW q \in Seq(S), q # <<>>
  PROVE  /\ Tail(q) \in Seq(S) /\ Head(q) \in S
         /\ \A y : y \in Range(q) <=> y \in Range(Tail(q)) \/ y = Head(q)
         /\ Distinct(q) => Distinct(Tail(q)) /\ Head(q) \notin Range(Tail(q))
<1>1. /\ Tail(q) \in Seq(S) /\ Head(q) \in S /\ Len(Tail(q)) = Len(q) - 1 /\ Len(q) \in Nat \ {0}
      /\ \A i \in 1..Len(q) - 1 : Tail(q)[i] = q[i + 1]
      /\ Head(q) = q[1]
  OBVIOUS
<1>2. ASSUME NEW y PROVE y \in Range(q) <=> y \in Range(Tail(q)) \/ y = Head(q)
  <2>1. y \in Range(Tail(q)) <=> \E i \in 1..Len(q) - 1 : y = Tail(q)[i]
    <3> DEFINE t == Tail(q)
               n == Len(q) - 1
    <3>1. t \in Seq(S) /\ Len(t) = n BY <1>1
    <3> HIDE DEF t, n
    <3>2. \A z : z \in Range(t) <=> \E i \in 1..n : z = t[i] BY <3>1, InRange
    <3> QED BY <3>2, Zenon DEF t, n
  <2>2. y \in Range(q) <=> \E i \in 1..Len(q) : y = q[i]
    BY InRange
  <2>3. ASSUME NEW i \in 1..Len(q), y = q[i] PROVE y = Head(q) \/ \E j \in 1..Len(q) - 1 : y = Tail(q)[j]
    <3>1. CASE i = 1 BY <1>1, <2>3, <3>1
    <3>2. CASE i # 1
      <4>1. i - 1 \in 1..Len(q) - 1 /\ y = Tail(q)[i - 1] BY <1>1, <2>3, <3>2
      <4> QED BY <4>1, Zenon
    <3> QED BY <3>1, <3>2, Zenon
  <2>4. ASSUME NEW i \in 1..Len(q) - 1, y = Tail(q)[i] PROVE \E j \in 1..Len(q) : y = q[j]
    <3>1. i + 1 \in 1..Len(q) /\ y = q[i + 1] BY <1>1, <2>4
    <3> QED BY <3>1, Zenon
  <2>5. 1 \in 1..Len(q) BY <1>1
  <2> QED BY <1>1, <2>1, <2>2, <2>3, <2>4, <2>5, Zenon
<1>3. ASSUME Distinct(q) PROVE Distinct(Tail(q)) /\ Head(q) \notin Range(Tail(q))
  <2>1. Distinct(Tail(q)) BY <1>1, <1>3 DEF Distinct
  <2>2. ASSUME NEW i \in 1..Len(q) - 1, Head(q) = Tail(q)[i] PROVE FALSE
    BY <1>1, <1>3, <2>2 DEF Distinct
  <2>3. Head(q) \in Range(Tail(q)) <=> \E i \in 1..Len(q) - 1 : Head(q) = Tail(q)[i]
    <3> DEFINE t == Tail(q)
               n == Len(q) - 1
    <3>1. t \in Seq(S) /\ Len(t) = n BY <1>1
    <3> HIDE DEF t, n
    <3>2. \A z : z \in Range(t) <=> \E i \in 1..n : z = t[i] BY <3>1, InRange
    <3> QED BY <3>2, Zenon DEF t, n
  <2> QED BY <2>1, <2>2, <2>3, Zenon
<1> QED BY <1>1, <1>2, <1>3, Zenon

(* pop_back() takes the last.                                              *)
LEMMA FrontRange ==
  ASSUME NEW S, NEW q \in Seq(S), q # <<>>
  PROVE  /\ SubSeq(q, 1, Len(q) - 1) \in Seq(S) /\ q[Len(q)] \in S
         /\ \A y : y \in Range(q) <=> y \in Range(SubSeq(q, 1, Len(q) - 1)) \/ y = q[Len(q)]
         /\ Distinct(q) =>
              Distinct(SubSeq(q, 1, Len(q) - 1)) /\ q[Len(q)] \notin Range(SubSeq(q, 1, Len(q) - 1))
<1> DEFINE p == SubSeq(q, 1, Len(q) - 1)
<1>1. /\ p \in Seq(S) /\ Len(q) \in Nat \ {0} /\ q[Len(q)] \in S /\ Len(p) = Len(q) - 1
      /\ \A i \in 1..Len(q) - 1 : p[i] = q[i]
  <2>1. Len(q) \in Nat \ {0} /\ q[Len(q)] \in S OBVIOUS
  <2> DEFINE n == Len(q) - 1
  <2>2. n \in 0..Len(q) BY <2>1
  <2>3. /\ SubSeq(q, 1, n) \in Seq(S) /\ Len(SubSeq(q, 1, n)) = n
        /\ \A i \in 1..n : SubSeq(q, 1, n)[i] = q[i]
    <3> HIDE DEF n
    <3> QED BY <2>1, <2>2
  <2> QED BY <2>1, <2>3, Zenon
<1> HIDE DEF p
<1>2. ASSUME NEW y PROVE y \in Range(q) <=> y \in Range(p) \/ y = q[Len(q)]
  <2>1. y \in Range(p) <=> \E i \in 1..Len(q) - 1 : y = p[i]
    <3> DEFINE n == Len(q) - 1
    <3>1. p \in Seq(S) /\ Len(p) = n BY <1>1
    <3> HIDE DEF n
    <3>2. \A z : z \in Range(p) <=> \E i \in 1..n : z = p[i] BY <3>1, InRange
    <3> QED BY <3>2, Zenon DEF n
  <2>2. y \in Range(q) <=> \E i \in 1..Len(q) : y = q[i]
    BY InRange
  <2>3. \A i : i \in 1..Len(q) <=> i \in 1..Len(q) - 1 \/ i = Len(q) BY <1>1
  <2> QED BY <1>1, <2>1, <2>2, <2>3, Zenon
<1>3. ASSUME Distinct(q) PROVE Distinct(p) /\ q[Len(q)] \notin Range(p)
  <2>1. Distinct(p) BY <1>1, <1>3 DEF Distinct
  <2>2. ASSUME NEW i \in 1..Len(q) - 1, q[Len(q)] = p[i] PROVE FALSE
    BY <1>1, <1>3, <2>2 DEF Distinct
  <2>3. q[Len(q)] \in Range(p) <=> \E i \in 1..Len(q) - 1 : q[Len(q)] = p[i]
    <3> DEFINE n == Len(q) - 1
    <3>1. p \in Seq(S) /\ Len(p) = n BY <1>1
    <3> HIDE DEF n
    <3>2. \A z : z \in Range(p) <=> \E i \in 1..n : z = p[i] BY <3>1, InRange
    <3> QED BY <3>2, Zenon DEF n
  <2> QED BY <2>1, <2>2, <2>3, Zenon
<1> QED BY <1>1, <1>2, <1>3, Zenon DEF p

(* The first n elements are among them all.                                *)
LEMMA PrefixRange ==
  ASSUME NEW S, NEW q \in Seq(S), NEW n \in 0..Len(q), NEW y \in Range(SubSeq(q, 1, n))
  PROVE  y \in Range(q)
<1>1. Len(q) \in Nat
  OBVIOUS
<1>2. /\ SubSeq(q, 1, n) \in Seq(S) /\ Len(SubSeq(q, 1, n)) = n
      /\ \A i \in 1..n : SubSeq(q, 1, n)[i] = q[i]
  BY <1>1
<1>3. PICK i \in 1..n : y = SubSeq(q, 1, n)[i]
  BY <1>2 DEF Range
<1>4. i \in 1..Len(q) /\ y = q[i]
  BY <1>1, <1>2, <1>3
<1>5. \E j \in 1..Len(q) : y = q[j]
  BY <1>4, Zenon
<1> QED BY <1>5, InRange, Zenon

(* Nothing is in an empty sequence.                                        *)
LEMMA EmptyRange == Range(<<>>) = {} /\ Distinct(<<>>)
BY DEF Range, Distinct

-----------------------------------------------------------------------------
(* The pool                                                                *)

(* A buffer is in free_list_, at one place, or with one handle.            *)
PoolInv ==
  /\ free \in Seq(Buffers) /\ held \in [Handles -> 0..PoolSize]
  /\ Distinct(free)
  /\ \A h, g \in Handles : held[h] # 0 /\ held[h] = held[g] => h = g
  /\ \A h \in Handles : held[h] \notin Range(free)
  /\ \A k \in Buffers : k \in Range(free) \/ \E h \in Handles : held[h] = k

(* The constructor puts every buffer in free_list_.                        *)
LEMMA InitPool == Init => PoolInv
<1> SUFFICES ASSUME Init PROVE PoolInv
  BY Zenon
<1>1. /\ free \in Seq(Buffers) /\ Len(free) = PoolSize /\ \A i \in 1..PoolSize : free[i] = i
  BY WorkloadAssumption DEF Init, Buffers
<1>2. held \in [Handles -> 0..PoolSize] /\ \A h \in Handles : held[h] = 0
  BY WorkloadAssumption DEF Init
<1>3. Distinct(free)
  BY <1>1, Zenon DEF Distinct
<1>4. \A k : k \in Range(free) <=> k \in Buffers
  BY <1>1, WorkloadAssumption, Zenon DEF Init, Buffers, Range
<1>5. 0 \notin Buffers
  BY WorkloadAssumption DEF Buffers
<1> QED BY <1>1, <1>2, <1>3, <1>4, <1>5, Zenon DEF PoolInv

(* acquire() takes the last of the list.                                   *)
LEMMA AcquirePool == ASSUME PoolInv, NEW h \in Handles, Acquire(h) PROVE PoolInv'
<1> DEFINE k == free[Len(free)]
<1>1. /\ free' \in Seq(Buffers) /\ k \in Buffers
      /\ \A y : y \in Range(free) <=> y \in Range(free') \/ y = k
      /\ Distinct(free') /\ k \notin Range(free')
  <2>1. free \in Seq(Buffers) /\ free # <<>> /\ Distinct(free) /\ free' = SubSeq(free, 1, Len(free) - 1)
    BY Zenon DEF PoolInv, Acquire
  <2> QED BY <2>1, FrontRange, Zenon
<1> HIDE DEF k
<1>2. /\ held \in [Handles -> 0..PoolSize] /\ held[h] = 0 /\ held' = [held EXCEPT ![h] = k]
  BY Zenon DEF PoolInv, Acquire, k
<1>3. k \in 0..PoolSize /\ k # 0
  BY <1>1, WorkloadAssumption DEF Buffers
<1>4. /\ held' \in [Handles -> 0..PoolSize] /\ held'[h] = k
      /\ \A g \in Handles : g # h => held'[g] = held[g]
  BY <1>2, <1>3, Zenon
<1>5. \A g \in Handles : held[g] # k
  BY <1>1, Zenon DEF PoolInv
<1>6. \A g, f \in Handles : held'[g] # 0 /\ held'[g] = held'[f] => g = f
  BY <1>4, <1>5, Zenon DEF PoolInv
<1>7. \A g \in Handles : held'[g] \notin Range(free')
  BY <1>1, <1>4, Zenon DEF PoolInv
<1>8. ASSUME NEW j \in Buffers PROVE j \in Range(free') \/ \E g \in Handles : held'[g] = j
  <2>1. CASE j = k BY <2>1, <1>4
  <2>2. CASE j # k /\ j \in Range(free) BY <2>2, <1>1
  <2>3. CASE j \notin Range(free)
    <3>1. PICK g \in Handles : held[g] = j BY <2>3 DEF PoolInv
    <3>2. g # h BY <1>2, <3>1, WorkloadAssumption DEF Buffers
    <3> QED BY <3>1, <3>2, <1>4, Zenon
  <2> QED BY <2>1, <2>2, <2>3, Zenon
<1> QED BY <1>1, <1>4, <1>6, <1>7, <1>8, Zenon DEF PoolInv, Buffers

(* A buffer that a handle gives up goes to the end of the list.            *)
LEMMA ReleasedPool ==
  ASSUME PoolInv, NEW h \in Handles, free' = Released(held[h])
  PROVE  /\ free' \in Seq(Buffers) /\ Distinct(free')
         /\ \A y : y \in Range(free') <=> y \in Range(free) \/ (held[h] # 0 /\ y = held[h])
<1>1. CASE held[h] = 0
  BY <1>1, Zenon DEF PoolInv, Released
<1>2. CASE held[h] # 0
  <2>1. held[h] \in Buffers BY <1>2 DEF PoolInv, Buffers
  <2>2. free \in Seq(Buffers) /\ Distinct(free) /\ held[h] \notin Range(free) BY DEF PoolInv
  <2>3. free' = Append(free, held[h]) BY <1>2 DEF Released
  <2>4. /\ free' \in Seq(Buffers) /\ Distinct(free')
        /\ \A y : y \in Range(free') <=> y \in Range(free) \/ y = held[h]
    BY <2>1, <2>2, <2>3, AppendRange
  <2> QED BY <1>2, <2>4, Zenon
<1> QED BY <1>1, <1>2, Zenon

(* release_if_held() in the destructor.                                    *)
LEMMA DropPool == ASSUME PoolInv, NEW h \in Handles, Drop(h) PROVE PoolInv'
<1>1. /\ free' \in Seq(Buffers) /\ Distinct(free')
      /\ \A y : y \in Range(free') <=> y \in Range(free) \/ (held[h] # 0 /\ y = held[h])
  BY ReleasedPool, Zenon DEF Drop
<1>2. held[h] # 0 /\ 0 \in 0..PoolSize
  BY WorkloadAssumption DEF Drop
<1>3. /\ held' \in [Handles -> 0..PoolSize] /\ held'[h] = 0
      /\ \A g \in Handles : g # h => held'[g] = held[g]
  BY <1>2, Zenon DEF Drop, PoolInv
<1>4. \A g, f \in Handles : held'[g] # 0 /\ held'[g] = held'[f] => g = f
  BY <1>3, Zenon DEF PoolInv
<1>5. 0 \notin Range(free')
  <2>1. 0 \notin Range(free)
    BY WorkloadAssumption DEF PoolInv, Buffers, Range
  <2> QED BY <1>1, <2>1, Zenon
<1>6. ASSUME NEW g \in Handles PROVE held'[g] \notin Range(free')
  <2>1. CASE g = h BY <2>1, <1>3, <1>5
  <2>2. CASE g # h
    <3>1. held[g] \notin Range(free) /\ held[g] # held[h] BY <2>2, <1>2, Zenon DEF PoolInv
    <3> QED BY <2>2, <3>1, <1>1, <1>3, Zenon
  <2> QED BY <2>1, <2>2, Zenon
<1>7. ASSUME NEW j \in Buffers PROVE j \in Range(free') \/ \E g \in Handles : held'[g] = j
  <2>1. CASE j \in Range(free) BY <2>1, <1>1
  <2>2. CASE j \notin Range(free)
    <3>1. PICK g \in Handles : held[g] = j BY <2>2 DEF PoolInv
    <3> QED BY <3>1, <1>1, <1>2, <1>3, Zenon
  <2> QED BY <2>1, <2>2, Zenon
<1> QED BY <1>1, <1>3, <1>4, <1>6, <1>7, Zenon DEF PoolInv, Buffers

(* The handle moved to gives up its own buffer and takes the other's.      *)
LEMMA MovePool ==
  ASSUME PoolInv, NEW h \in Handles, NEW g \in Handles, MoveHandle(h, g)
  PROVE  PoolInv'
<1>1. /\ free' \in Seq(Buffers) /\ Distinct(free')
      /\ \A y : y \in Range(free') <=> y \in Range(free) \/ (held[h] # 0 /\ y = held[h])
  BY ReleasedPool, Zenon DEF MoveHandle
<1>2. h # g /\ held[g] # 0 /\ 0 \in 0..PoolSize
  BY WorkloadAssumption DEF MoveHandle
<1>3. /\ held' \in [Handles -> 0..PoolSize] /\ held'[h] = held[g] /\ held'[g] = 0
      /\ \A f \in Handles : f # h /\ f # g => held'[f] = held[f]
  BY <1>2, Zenon DEF MoveHandle, PoolInv
<1>4. ASSUME NEW e \in Handles, NEW f \in Handles, held'[e] # 0, held'[e] = held'[f] PROVE e = f
  <2>1. e # g /\ f # g BY <1>3, <1>4
  <2>2. \A d, c \in Handles : held[d] # 0 /\ held[d] = held[c] => d = c BY DEF PoolInv
  <2>3. CASE e = h /\ f # h
    <3>1. held'[f] = held[f] BY <2>1, <2>3, <1>3
    <3> QED BY <2>1, <2>2, <2>3, <3>1, <1>2, <1>3, <1>4, Zenon
  <2>4. CASE e # h /\ f = h
    <3>1. held'[e] = held[e] BY <2>1, <2>4, <1>3
    <3> QED BY <2>1, <2>2, <2>4, <3>1, <1>2, <1>3, <1>4, Zenon
  <2>5. CASE e # h /\ f # h
    <3>1. held'[e] = held[e] /\ held'[f] = held[f] BY <2>1, <2>5, <1>3
    <3> QED BY <2>2, <3>1, <1>4, Zenon
  <2> QED BY <2>3, <2>4, <2>5, Zenon
<1>5. 0 \notin Range(free')
  <2>1. 0 \notin Range(free)
    BY WorkloadAssumption DEF PoolInv, Buffers, Range
  <2> QED BY <1>1, <2>1, Zenon
<1>6. ASSUME NEW f \in Handles PROVE held'[f] \notin Range(free')
  <2>1. CASE f = g BY <2>1, <1>3, <1>5
  <2>2. CASE f = h
    <3>1. held[g] \notin Range(free) /\ held[g] # held[h] BY <1>2, Zenon DEF PoolInv
    <3> QED BY <2>2, <3>1, <1>1, <1>3, Zenon
  <2>3. CASE f # h /\ f # g
    <3>1. held[f] \notin Range(free) /\ (held[h] # 0 => held[f] # held[h]) BY <2>3, Zenon DEF PoolInv
    <3> QED BY <2>3, <3>1, <1>1, <1>3, Zenon
  <2> QED BY <2>1, <2>2, <2>3, Zenon
<1>7. ASSUME NEW j \in Buffers PROVE j \in Range(free') \/ \E f \in Handles : held'[f] = j
  <2>1. CASE j \in Range(free) BY <2>1, <1>1
  <2>2. CASE j \notin Range(free)
    <3>1. PICK f \in Handles : held[f] = j BY <2>2 DEF PoolInv
    <3>2. held[f] # 0 BY <3>1, WorkloadAssumption DEF Buffers
    <3>3. CASE f = h BY <3>1, <3>2, <3>3, <1>1
    <3>4. CASE f = g BY <3>1, <3>4, <1>3
    <3>5. CASE f # h /\ f # g BY <3>1, <3>5, <1>3
    <3> QED BY <3>3, <3>4, <3>5, Zenon
  <2> QED BY <2>1, <2>2, Zenon
<1> QED BY <1>1, <1>3, <1>4, <1>6, <1>7, Zenon DEF PoolInv, Buffers

(* Only the handles change the pool.                                       *)
LEMMA PoolNext == ASSUME PoolInv, [Next]_vars PROVE PoolInv'
<1>1. CASE PoolStep
  BY <1>1, AcquirePool, DropPool, MovePool, Zenon DEF PoolStep
<1>2. CASE UNCHANGED poolVars
  BY <1>2, Zenon DEF PoolInv, poolVars
<1>3. CASE BatchStep
  <2>1. UNCHANGED poolVars
    BY <1>3, Zenon DEF BatchStep, AppendCommand, Freeze, NewBatch, SubmitBatch, MoveBatch
  <2> QED BY <1>2, <2>1, Zenon
<1>4. CASE RunStep
  <2>1. UNCHANGED poolVars
    BY <1>4, Zenon DEF RunStep, RunSkips, RunSends, RunThrows, RunPassEnds, RunEnqueues
  <2> QED BY <1>2, <2>1, Zenon
<1>5. CASE Run \/ (\E s \in Streams, k \in 0..PoolSize : Enqueue(s, k)) \/ \E c \in Cmds : Complete(c)
  <2>1. UNCHANGED poolVars
    BY <1>5, Zenon DEF Run, Enqueue, Complete
  <2> QED BY <1>2, <2>1, Zenon
<1> QED BY <1>1, <1>2, <1>3, <1>4, <1>5, Zenon DEF Next, vars

-----------------------------------------------------------------------------
(* Commands: their numbers, their buffers and where they are               *)

WorkType ==
  /\ made \in 0..MaxCmds /\ uses \in [Cmds -> 0..PoolSize]
  /\ cmds \in [Batches -> Seq(Cmds)] /\ queues \in [Streams -> Seq(Cmds)]
  /\ frozen \in [Batches -> BOOLEAN] /\ submitted \in [Batches -> BOOLEAN]
  /\ sent \in [Cmds -> Nat] /\ state \in [Cmds -> {"new", "busy", "done"}]
  /\ fences \subseteq Cmds /\ results \subseteq Cmds
  /\ active \in BOOLEAN /\ progressed \in BOOLEAN
  /\ pos \in 0..NStreams + 1 /\ last \in 0..NStreams /\ (active => pos # 0)

(* A command that append(), enqueue() or a closure makes has a number no   *)
(* one has seen and a buffer that is not in the pool.                      *)
LEMMA Made ==
  ASSUME PoolInv, WorkType, NEW k, NEW max \in Nat, max <= MaxCmds, NewCommand(k, max)
  PROVE  /\ made' = made + 1 /\ made' \in 0..MaxCmds /\ made + 1 \in Cmds
         /\ k \in 0..PoolSize /\ k \notin Range(free)
         /\ uses' \in [Cmds -> 0..PoolSize] /\ uses'[made + 1] = k
         /\ \A c \in Cmds : c # made + 1 => uses'[c] = uses[c]
<1>1. /\ made' = made + 1 /\ made' \in 0..MaxCmds /\ made + 1 \in Cmds
  BY WorkloadAssumption DEF NewCommand, WorkType, Cmds
<1>2. k \in 0..PoolSize /\ k \notin Range(free)
  <2>1. CASE k = 0
    BY <2>1, WorkloadAssumption DEF PoolInv, Buffers, Range
  <2>2. CASE k # 0
    <3>1. PICK h \in Handles : k = held[h]
      BY <2>2, Zenon DEF NewCommand, Range, PoolInv
    <3> QED BY <3>1, Zenon DEF PoolInv
  <2> QED BY <2>1, <2>2, Zenon
<1>3. /\ uses' \in [Cmds -> 0..PoolSize] /\ uses'[made + 1] = k
      /\ \A c \in Cmds : c # made + 1 => uses'[c] = uses[c]
  BY <1>1, <1>2, Zenon DEF NewCommand, WorkType
<1> QED BY <1>1, <1>2, <1>3, Zenon

(* An append to one of several sequences.                                  *)
LEMMA AppendOne ==
  ASSUME NEW I, NEW S, NEW f \in [I -> Seq(S)], NEW i \in I, NEW x \in S,
         NEW g, g = [f EXCEPT ![i] = Append(@, x)]
  PROVE  /\ g \in [I -> Seq(S)]
         /\ \A j \in I : j # i => g[j] = f[j]
         /\ \A y : y \in Range(g[i]) <=> y \in Range(f[i]) \/ y = x
         /\ Distinct(f[i]) /\ x \notin Range(f[i]) => Distinct(g[i])
<1>1. g \in [I -> Seq(S)] /\ g[i] = Append(f[i], x) /\ \A j \in I : j # i => g[j] = f[j]
  OBVIOUS
<1>2. f[i] \in Seq(S)
  BY Zenon
<1>3. /\ \A y : y \in Range(Append(f[i], x)) <=> y \in Range(f[i]) \/ y = x
      /\ Distinct(f[i]) /\ x \notin Range(f[i]) => Distinct(Append(f[i], x))
  BY <1>2, AppendRange
<1> QED BY <1>1, <1>3, Zenon

(* pop_front() of one of several queues.                                   *)
LEMMA TailOne ==
  ASSUME NEW I, NEW S, NEW f \in [I -> Seq(S)], NEW i \in I, f[i] # <<>>,
         NEW g, g = [f EXCEPT ![i] = Tail(@)]
  PROVE  /\ g \in [I -> Seq(S)] /\ Head(f[i]) \in S
         /\ \A j \in I : j # i => g[j] = f[j]
         /\ \A y : y \in Range(f[i]) <=> y \in Range(g[i]) \/ y = Head(f[i])
         /\ Distinct(f[i]) => Distinct(g[i]) /\ Head(f[i]) \notin Range(g[i])
<1>1. f[i] \in Seq(S)
  BY Zenon
<1>2. /\ Tail(f[i]) \in Seq(S) /\ Head(f[i]) \in S
      /\ \A y : y \in Range(f[i]) <=> y \in Range(Tail(f[i])) \/ y = Head(f[i])
      /\ Distinct(f[i]) => Distinct(Tail(f[i])) /\ Head(f[i]) \notin Range(Tail(f[i]))
  BY <1>1, TailRange, Zenon
<1>3. g \in [I -> Seq(S)] /\ g[i] = Tail(f[i]) /\ \A j \in I : j # i => g[j] = f[j]
  BY <1>2, Zenon
<1> QED BY <1>2, <1>3, Zenon

(* Types are kept.                                                         *)
LEMMA WorkTypeNext == ASSUME PoolInv, WorkType, [Next]_vars PROVE WorkType'
<1> USE DEF WorkType
<1>1. ASSUME NEW b \in Batches, NEW k \in Buffers, AppendCommand(b, k) PROVE WorkType'
  <2>1. NewCommand(k, MaxMade) BY <1>1 DEF AppendCommand
  <2>2. made' \in 0..MaxCmds /\ uses' \in [Cmds -> 0..PoolSize] /\ made + 1 \in Cmds
    BY <2>1, Made, WorkloadAssumption, Zenon
  <2>3. cmds' \in [Batches -> Seq(Cmds)] BY <1>1, <2>2, AppendOne DEF AppendCommand
  <2> QED BY <1>1, <2>2, <2>3, Zenon DEF AppendCommand, runVars, cmdVars, Cmds
<1>2. ASSUME NEW s \in Streams, NEW k, Enqueue(s, k) PROVE WorkType'
  <2>1. NewCommand(k, MaxMade) BY <1>2 DEF Enqueue
  <2>2. made' \in 0..MaxCmds /\ uses' \in [Cmds -> 0..PoolSize] /\ made + 1 \in Cmds
    BY <2>1, Made, WorkloadAssumption, Zenon
  <2>3. queues' \in [Streams -> Seq(Cmds)] BY <1>2, <2>2, AppendOne DEF Enqueue
  <2> QED BY <1>2, <2>2, <2>3, Zenon DEF Enqueue, batchVars, runVars, cmdVars, Cmds
<1>3. ASSUME NEW s \in Streams, RunEnqueues(s) PROVE WorkType'
  <2>1. NewCommand(0, MaxCmds) BY <1>3 DEF RunEnqueues
  <2>2. made' \in 0..MaxCmds /\ uses' \in [Cmds -> 0..PoolSize] /\ made + 1 \in Cmds
    BY <2>1, Made, WorkloadAssumption
  <2>3. queues' \in [Streams -> Seq(Cmds)] BY <1>3, <2>2, AppendOne DEF RunEnqueues
  <2> QED BY <1>3, <2>2, <2>3, Zenon DEF RunEnqueues, batchVars, runVars, cmdVars, Cmds
<1>4. ASSUME NEW b \in Batches, Freeze(b) \/ NewBatch(b) PROVE WorkType'
  <2>1. <<>> \in Seq(Cmds) OBVIOUS
  <2>2. CASE Freeze(b)
    <3>1. frozen' \in [Batches -> BOOLEAN] BY <2>2 DEF Freeze
    <3> QED BY <2>2, <3>1, Zenon DEF Freeze, makeVars, runVars, cmdVars, Cmds
  <2>3. CASE NewBatch(b)
    <3>1. frozen' \in [Batches -> BOOLEAN] /\ submitted' \in [Batches -> BOOLEAN] BY <2>3 DEF NewBatch
    <3>2. cmds' \in [Batches -> Seq(Cmds)] BY <2>1, <2>3 DEF NewBatch
    <3> QED BY <2>3, <3>1, <3>2, Zenon DEF NewBatch, makeVars, runVars, cmdVars, Cmds
  <2> QED BY <1>4, <2>2, <2>3, Zenon
<1>5. ASSUME NEW b \in Batches, NEW d \in Batches, MoveBatch(b, d) PROVE WorkType'
  <2>1. <<>> \in Seq(Cmds) OBVIOUS
  <2>2. frozen' \in [Batches -> BOOLEAN] /\ submitted' \in [Batches -> BOOLEAN] BY <1>5 DEF MoveBatch
  <2>3. cmds' \in [Batches -> Seq(Cmds)] BY <1>5, <2>1 DEF MoveBatch
  <2> QED BY <1>5, <2>2, <2>3, Zenon DEF MoveBatch, makeVars, runVars, cmdVars, Cmds
<1>6. ASSUME NEW b \in Batches, NEW n \in 0..MaxMade, SubmitBatch(b, n) PROVE WorkType'
  <2>1. Range(cmds[b]) \subseteq Cmds BY DEF Range
  <2>2. fences' \subseteq Cmds BY <1>6, <2>1 DEF SubmitBatch
  <2>3. sent' \in [Cmds -> Nat] BY <1>6 DEF SubmitBatch
  <2>4. state' \in [Cmds -> {"new", "busy", "done"}] BY <1>6 DEF SubmitBatch
  <2>5. submitted' \in [Batches -> BOOLEAN] BY <1>6 DEF SubmitBatch
  <2> QED BY <1>6, <2>2, <2>3, <2>4, <2>5, Zenon DEF SubmitBatch, makeVars, runVars, Cmds
<1>7. CASE RunSends \/ RunThrows
  <2>1. pos \in Streams /\ queues[pos] # <<>> /\ queues' = Popped
    BY <1>7, WorkloadAssumption DEF RunSends, RunThrows, Streams
  <2>2. queues' \in [Streams -> Seq(Cmds)] /\ Head(queues[pos]) \in Cmds
    BY <2>1, TailOne DEF Popped
  <2>3. CASE RunThrows
    <3>1. active' \in BOOLEAN /\ progressed' \in BOOLEAN /\ ~ active'
      BY <2>3, Zenon DEF RunThrows, Return
    <3>2. pos' \in 0..NStreams + 1 /\ last' \in 0..NStreams /\ results' \subseteq Cmds
      BY <2>3, WorkloadAssumption DEF RunThrows, Return
    <3> QED BY <2>2, <2>3, <3>1, <3>2, Zenon DEF RunThrows, batchVars, makeVars, cmdVars, Cmds
  <2>4. CASE RunSends
    <3>1. sent' \in [Cmds -> Nat] /\ state' \in [Cmds -> {"new", "busy", "done"}] /\ results' \subseteq Cmds
      BY <2>2, <2>4 DEF RunSends
    <3>2. pos' \in 0..NStreams + 1 /\ last' \in 0..NStreams /\ pos' # 0 /\ progressed'
      BY <2>1, <2>4, WorkloadAssumption DEF RunSends, Streams
    <3> QED BY <2>2, <2>4, <3>1, <3>2, Zenon DEF RunSends, batchVars, makeVars, Cmds
  <2> QED BY <1>7, <2>3, <2>4, Zenon
<1>8. CASE Run \/ RunSkips \/ RunPassEnds
  <2>1. active' \in BOOLEAN /\ progressed' \in BOOLEAN
    BY <1>8, Zenon DEF Run, RunSkips, RunPassEnds, Return
  <2>2. /\ pos' \in 0..NStreams + 1 /\ last' \in 0..NStreams /\ (active' => pos' # 0)
        /\ fences' \subseteq Cmds /\ results' \subseteq Cmds
    <3>1. CASE Run BY <3>1, WorkloadAssumption DEF Run
    <3>2. CASE RunSkips BY <3>2, WorkloadAssumption DEF RunSkips
    <3>3. CASE RunPassEnds /\ progressed BY <3>3, WorkloadAssumption DEF RunPassEnds
    <3>4. CASE RunPassEnds /\ ~ progressed BY <3>4, WorkloadAssumption DEF RunPassEnds, Return
    <3> QED BY <1>8, <3>1, <3>2, <3>3, <3>4, Zenon
  <2> QED BY <1>8, <2>1, <2>2, Zenon DEF Run, RunSkips, RunPassEnds, batchVars, makeVars, cmdVars, Cmds
<1>9. ASSUME NEW c \in Cmds, Complete(c) PROVE WorkType'
  BY <1>9, Zenon DEF Complete, batchVars, makeVars, runVars, Cmds
<1>10. CASE PoolStep
  BY <1>10 DEF PoolStep, Acquire, Drop, MoveHandle, batchVars, makeVars, runVars, cmdVars, Cmds
<1>11. CASE UNCHANGED vars
  BY <1>11, Zenon DEF vars, batchVars, makeVars, runVars, cmdVars, Cmds
<1> QED
  BY <1>1, <1>2, <1>3, <1>4, <1>5, <1>6, <1>7, <1>8, <1>9, <1>10, <1>11, Zenon
  DEF Next, BatchStep, RunStep

-----------------------------------------------------------------------------
(* A command is in one place, and is sent when it leaves it                *)

(* A command that is made is in one batch or one queue at most, there      *)
(* once if it is a queue; what a queue or an unsubmitted batch has was     *)
(* never sent.                                                             *)
PlaceInv ==
  /\ \A b \in Batches : \A c \in Range(cmds[b]) : c <= made /\ (~ submitted[b] => sent[c] = 0)
  /\ \A s \in Streams : \A c \in Range(queues[s]) : c <= made /\ sent[c] = 0
  /\ \A b, d \in Batches : \A c \in Range(cmds[b]) : c \in Range(cmds[d]) => b = d
  /\ \A s, r \in Streams : \A c \in Range(queues[s]) : c \in Range(queues[r]) => s = r
  /\ \A b \in Batches, s \in Streams : \A c \in Range(cmds[b]) : c \notin Range(queues[s])
  /\ \A s \in Streams : Distinct(queues[s])
  /\ \A c \in Cmds : sent[c] <= 1 /\ (c > made => sent[c] = 0)

(* enqueue(), by the client or by a closure.                               *)
LEMMA EnqueuePlace ==
  ASSUME PoolInv, WorkType, PlaceInv, NEW k, NEW max \in Nat, max <= MaxCmds, NewCommand(k, max),
         NEW s \in Streams, queues' = [queues EXCEPT ![s] = Append(@, made + 1)],
         UNCHANGED <<batchVars, cmdVars>>
  PROVE  PlaceInv'
<1> DEFINE n == made + 1
<1>1. made' = n /\ n \in Cmds /\ made \in Nat
  BY Made DEF WorkType
<1>2. /\ \A r \in Streams : r # s => queues'[r] = queues[r]
      /\ \A y : y \in Range(queues'[s]) <=> y \in Range(queues[s]) \/ y = n
      /\ Distinct(queues[s]) /\ n \notin Range(queues[s]) => Distinct(queues'[s])
  <2>1. queues \in [Streams -> Seq(Cmds)] /\ queues' = [queues EXCEPT ![s] = Append(@, n)]
    BY Zenon DEF WorkType
  <2>2. queues[s] \in Seq(Cmds) /\ queues'[s] = Append(queues[s], n)
    BY <2>1, Zenon
  <2> HIDE DEF n
  <2>3. /\ \A y : y \in Range(Append(queues[s], n)) <=> y \in Range(queues[s]) \/ y = n
        /\ Distinct(queues[s]) /\ n \notin Range(queues[s]) => Distinct(Append(queues[s], n))
    BY <1>1, <2>2, AppendRange, Zenon
  <2>4. \A r \in Streams : r # s => queues'[r] = queues[r]
    BY <2>1, Zenon
  <2> QED BY <2>2, <2>3, <2>4, Zenon
<1>3. UNCHANGED <<cmds, submitted, sent>>
  BY Zenon DEF batchVars, cmdVars
<1>4. \A r \in Streams : n \notin Range(queues[r])
  BY <1>1 DEF PlaceInv
<1>5. \A b \in Batches : n \notin Range(cmds[b])
  BY <1>1 DEF PlaceInv
<1>6. sent[n] = 0
  BY <1>1 DEF PlaceInv
<1>7. \A b \in Batches : \A c \in Range(cmds[b]) : c <= n /\ (~ submitted[b] => sent[c] = 0)
  <2> SUFFICES ASSUME NEW b \in Batches, NEW c \in Range(cmds[b])
               PROVE  c <= n /\ (~ submitted[b] => sent[c] = 0)
    BY Zenon
  <2>1. c \in Cmds BY DEF WorkType, Range
  <2> QED BY <1>1, <2>1, WorkloadAssumption DEF PlaceInv, Cmds
<1>8. \A r \in Streams : \A c \in Range(queues'[r]) : c <= n /\ sent[c] = 0
  <2> SUFFICES ASSUME NEW r \in Streams, NEW c \in Range(queues'[r]) PROVE c <= n /\ sent[c] = 0
    BY Zenon
  <2>1. c = n \/ c \in Range(queues[r]) BY <1>2
  <2>2. CASE c = n BY <1>1, <1>6, <2>2
  <2>3. CASE c \in Range(queues[r])
    <3>1. c \in Cmds BY <2>3 DEF WorkType, Range
    <3> QED BY <1>1, <2>3, <3>1, WorkloadAssumption DEF PlaceInv, Cmds
  <2> QED BY <2>1, <2>2, <2>3, Zenon
<1> HIDE DEF n
<1>9. \A r, q \in Streams : \A c \in Range(queues'[r]) : c \in Range(queues'[q]) => r = q
  <2> SUFFICES ASSUME NEW r \in Streams, NEW q \in Streams,
                      NEW c \in Range(queues'[r]), c \in Range(queues'[q])
               PROVE  r = q
    BY Zenon
  <2>1. CASE c = n BY <1>2, <1>4, <2>1
  <2>2. CASE c # n
    <3>1. c \in Range(queues[r]) /\ c \in Range(queues[q]) BY <1>2, <2>2
    <3> QED BY <3>1, Zenon DEF PlaceInv
  <2> QED BY <2>1, <2>2, Zenon
<1>10. \A b \in Batches, r \in Streams : \A c \in Range(cmds[b]) : c \notin Range(queues'[r])
  <2> SUFFICES ASSUME NEW b \in Batches, NEW r \in Streams,
                      NEW c \in Range(cmds[b]), c \in Range(queues'[r])
               PROVE  FALSE
    BY Zenon
  <2>1. c # n BY <1>5
  <2>2. c \in Range(queues[r]) BY <1>2, <2>1
  <2> QED BY <2>2, Zenon DEF PlaceInv
<1>11. \A r \in Streams : Distinct(queues'[r])
  BY <1>2, <1>4, Zenon DEF PlaceInv
<1>12. \A c \in Cmds : sent[c] <= 1 /\ (c > n => sent[c] = 0)
  BY <1>1 DEF PlaceInv, Cmds, n
<1>13. \A b, d \in Batches : \A c \in Range(cmds[b]) : c \in Range(cmds[d]) => b = d
  BY Zenon DEF PlaceInv
<1> QED BY <1>1, <1>3, <1>7, <1>8, <1>9, <1>10, <1>11, <1>12, <1>13, Zenon DEF PlaceInv, Cmds

(* append().                                                               *)
LEMMA AppendPlace ==
  ASSUME PoolInv, WorkType, PlaceInv, NEW b \in Batches, NEW k \in Buffers, AppendCommand(b, k)
  PROVE  PlaceInv'
<1> DEFINE n == made + 1
<1>1. made' = n /\ n \in Cmds /\ made \in Nat
  BY Made, WorkloadAssumption DEF AppendCommand, WorkType
<1>2. /\ \A d \in Batches : d # b => cmds'[d] = cmds[d]
      /\ \A y : y \in Range(cmds'[b]) <=> y \in Range(cmds[b]) \/ y = n
  <2>1. cmds \in [Batches -> Seq(Cmds)] /\ cmds' = [cmds EXCEPT ![b] = Append(@, n)]
    BY Zenon DEF WorkType, AppendCommand
  <2>2. cmds[b] \in Seq(Cmds) /\ cmds'[b] = Append(cmds[b], n)
    BY <2>1, Zenon
  <2> HIDE DEF n
  <2>3. /\ \A y : y \in Range(Append(cmds[b], n)) <=> y \in Range(cmds[b]) \/ y = n
    BY <1>1, <2>2, AppendRange, Zenon
  <2>4. \A d \in Batches : d # b => cmds'[d] = cmds[d]
    BY <2>1, Zenon
  <2> QED BY <2>2, <2>3, <2>4, Zenon
<1>3. UNCHANGED <<queues, submitted, sent>>
  BY Zenon DEF AppendCommand, cmdVars
<1>4. \A r \in Streams : n \notin Range(queues[r])
  BY <1>1 DEF PlaceInv
<1>5. \A d \in Batches : n \notin Range(cmds[d])
  BY <1>1 DEF PlaceInv
<1>6. sent[n] = 0
  BY <1>1 DEF PlaceInv
<1>7. \A d \in Batches : \A c \in Range(cmds'[d]) : c <= n /\ (~ submitted[d] => sent[c] = 0)
  <2> SUFFICES ASSUME NEW d \in Batches, NEW c \in Range(cmds'[d])
               PROVE  c <= n /\ (~ submitted[d] => sent[c] = 0)
    BY Zenon
  <2>1. c = n \/ c \in Range(cmds[d]) BY <1>2
  <2>2. CASE c = n BY <1>1, <1>6, <2>2
  <2>3. CASE c \in Range(cmds[d])
    <3>1. c \in Cmds BY <2>3 DEF WorkType, Range
    <3> QED BY <1>1, <2>3, <3>1, WorkloadAssumption DEF PlaceInv, Cmds
  <2> QED BY <2>1, <2>2, <2>3, Zenon
<1>8. \A r \in Streams : \A c \in Range(queues[r]) : c <= n /\ sent[c] = 0
  <2> SUFFICES ASSUME NEW r \in Streams, NEW c \in Range(queues[r]) PROVE c <= n /\ sent[c] = 0
    BY Zenon
  <2>1. c \in Cmds BY DEF WorkType, Range
  <2> QED BY <1>1, <2>1, WorkloadAssumption DEF PlaceInv, Cmds
<1> HIDE DEF n
<1>9. \A d, e \in Batches : \A c \in Range(cmds'[d]) : c \in Range(cmds'[e]) => d = e
  <2> SUFFICES ASSUME NEW d \in Batches, NEW e \in Batches,
                      NEW c \in Range(cmds'[d]), c \in Range(cmds'[e])
               PROVE  d = e
    BY Zenon
  <2>1. CASE c = n BY <1>2, <1>5, <2>1
  <2>2. CASE c # n
    <3>1. c \in Range(cmds[d]) /\ c \in Range(cmds[e]) BY <1>2, <2>2
    <3> QED BY <3>1, Zenon DEF PlaceInv
  <2> QED BY <2>1, <2>2, Zenon
<1>10. \A d \in Batches, r \in Streams : \A c \in Range(cmds'[d]) : c \notin Range(queues[r])
  <2> SUFFICES ASSUME NEW d \in Batches, NEW r \in Streams,
                      NEW c \in Range(cmds'[d]), c \in Range(queues[r])
               PROVE  FALSE
    BY Zenon
  <2>1. c # n BY <1>4
  <2>2. c \in Range(cmds[d]) BY <1>2, <2>1
  <2> QED BY <2>2, Zenon DEF PlaceInv
<1>11. \A c \in Cmds : sent[c] <= 1 /\ (c > n => sent[c] = 0)
  BY <1>1 DEF PlaceInv, Cmds, n
<1>12. /\ \A s, r \in Streams : \A c \in Range(queues[s]) : c \in Range(queues[r]) => s = r
       /\ \A s \in Streams : Distinct(queues[s])
  BY Zenon DEF PlaceInv
<1> QED BY <1>1, <1>3, <1>7, <1>8, <1>9, <1>10, <1>11, <1>12, Zenon DEF PlaceInv, Cmds

(* A moved batch takes its commands and its flags along.                   *)
LEMMA MoveBatchPlace ==
  ASSUME WorkType, PlaceInv, NEW b \in Batches, NEW d \in Batches, MoveBatch(b, d)
  PROVE  PlaceInv'
<1>1. /\ b # d /\ cmds'[b] = cmds[d] /\ cmds'[d] = <<>> /\ submitted'[b] = submitted[d]
      /\ \A e \in Batches : e # b /\ e # d => cmds'[e] = cmds[e]
      /\ \A e \in Batches : e # b => submitted'[e] = submitted[e]
  BY Zenon DEF MoveBatch, WorkType
<1>2. UNCHANGED <<made, queues, sent>>
  BY Zenon DEF MoveBatch, makeVars, cmdVars
<1>3. ASSUME NEW e \in Batches, NEW c \in Range(cmds'[e])
      PROVE  /\ e # d /\ (e = b => c \in Range(cmds[d]) /\ submitted'[e] = submitted[d])
             /\ e # b => c \in Range(cmds[e]) /\ submitted'[e] = submitted[e]
  BY <1>1, <1>3, EmptyRange, Zenon
<1>4. ASSUME NEW e \in Batches, NEW c \in Range(cmds'[e])
      PROVE  c <= made /\ (~ submitted'[e] => sent[c] = 0)
  <2>1. PICK f \in Batches : c \in Range(cmds[f]) /\ submitted'[e] = submitted[f] BY <1>3, <1>4
  <2> QED BY <2>1, Zenon DEF PlaceInv
<1>5. \A e, f \in Batches : \A c \in Range(cmds'[e]) : c \in Range(cmds'[f]) => e = f
  <2> SUFFICES ASSUME NEW e \in Batches, NEW f \in Batches,
                      NEW c \in Range(cmds'[e]), c \in Range(cmds'[f])
               PROVE  e = f
    BY Zenon
  <2>1. e # d /\ f # d BY <1>3
  <2>2. \A g, h \in Batches : c \in Range(cmds[g]) /\ c \in Range(cmds[h]) => g = h BY DEF PlaceInv
  <2>3. CASE e = b BY <1>3, <2>1, <2>2, <2>3
  <2>4. CASE e # b BY <1>3, <2>1, <2>2, <2>4
  <2> QED BY <2>3, <2>4, Zenon
<1>6. \A e \in Batches, s \in Streams : \A c \in Range(cmds'[e]) : c \notin Range(queues[s])
  BY <1>3, Zenon DEF PlaceInv
<1> QED BY <1>2, <1>4, <1>5, <1>6, Zenon DEF PlaceInv, Cmds

(* A new batch is empty.                                                   *)
LEMMA NewBatchPlace == ASSUME WorkType, PlaceInv, NEW b \in Batches, NewBatch(b) PROVE PlaceInv'
<1>1. /\ cmds'[b] = <<>>
      /\ \A e \in Batches : e # b => cmds'[e] = cmds[e] /\ submitted'[e] = submitted[e]
  BY Zenon DEF NewBatch, WorkType
<1>2. UNCHANGED <<made, queues, sent>>
  BY Zenon DEF NewBatch, makeVars, cmdVars
<1>3. ASSUME NEW e \in Batches, NEW c \in Range(cmds'[e])
      PROVE  c \in Range(cmds[e]) /\ submitted'[e] = submitted[e]
  BY <1>1, <1>3, EmptyRange, Zenon
<1>4. ASSUME NEW e \in Batches, NEW c \in Range(cmds'[e])
      PROVE  c <= made /\ (~ submitted'[e] => sent[c] = 0)
  <2>1. PICK f \in Batches : c \in Range(cmds[f]) /\ submitted'[e] = submitted[f] BY <1>3, <1>4
  <2> QED BY <2>1, Zenon DEF PlaceInv
<1>5. \A e, f \in Batches : \A c \in Range(cmds'[e]) : c \in Range(cmds'[f]) => e = f
  BY <1>3, Zenon DEF PlaceInv
<1>6. \A e \in Batches, s \in Streams : \A c \in Range(cmds'[e]) : c \notin Range(queues[s])
  BY <1>3, Zenon DEF PlaceInv
<1> QED BY <1>2, <1>4, <1>5, <1>6, Zenon DEF PlaceInv, Cmds

(* submitted_ is set before anything is sent.                              *)
LEMMA SubmitPlace ==
  ASSUME WorkType, PlaceInv, NEW b \in Batches, NEW n \in 0..MaxMade, SubmitBatch(b, n)
  PROVE  PlaceInv'
<1> DEFINE P == Range(SubSeq(cmds[b], 1, n))
<1>1. ~ submitted[b] /\ submitted'[b] /\ \A d \in Batches : d # b => submitted'[d] = submitted[d]
  BY Zenon DEF SubmitBatch, WorkType
<1>2. UNCHANGED <<made, queues, cmds>>
  BY Zenon DEF SubmitBatch, makeVars
<1>3. \A c \in P : c \in Range(cmds[b])
  <2>1. n \in 0..Len(cmds[b]) /\ cmds[b] \in Seq(Cmds)
    BY WorkloadAssumption DEF SubmitBatch, WorkType
  <2> QED BY <2>1, PrefixRange, Zenon
<1>4. \A c \in Cmds : sent'[c] = IF c \in P THEN sent[c] + 1 ELSE sent[c]
  BY Zenon DEF SubmitBatch
<1> HIDE DEF P
<1>5. ASSUME NEW d \in Batches, NEW c \in Range(cmds[d]) PROVE c <= made /\ (~ submitted'[d] => sent'[c] = 0)
  <2>1. c \in Cmds BY <1>5 DEF WorkType, Range
  <2>2. c <= made /\ (~ submitted[d] => sent[c] = 0) BY <1>5 DEF PlaceInv
  <2>3. ASSUME ~ submitted'[d] PROVE c \notin P /\ ~ submitted[d]
    BY <1>1, <1>3, <1>5, <2>3, Zenon DEF PlaceInv
  <2> QED BY <1>4, <2>1, <2>2, <2>3, Zenon
<1>6. ASSUME NEW s \in Streams, NEW c \in Range(queues[s]) PROVE c <= made /\ sent'[c] = 0
  <2>1. c \in Cmds BY <1>6 DEF WorkType, Range
  <2>2. c \notin P BY <1>3, <1>6, Zenon DEF PlaceInv
  <2> QED BY <1>4, <1>6, <2>1, <2>2, Zenon DEF PlaceInv
<1>7. ASSUME NEW c \in Cmds PROVE sent'[c] <= 1 /\ (c > made => sent'[c] = 0)
  <2>1. CASE c \in P
    <3>1. c <= made /\ sent[c] = 0 BY <1>1, <1>3, <2>1 DEF PlaceInv
    <3> QED BY <1>4, <2>1, <3>1 DEF WorkType, Cmds
  <2>2. CASE c \notin P BY <1>4, <2>2 DEF PlaceInv
  <2> QED BY <2>1, <2>2, Zenon
<1> QED BY <1>2, <1>5, <1>6, <1>7, Zenon DEF PlaceInv, Cmds

(* The first of a queue leaves it, and run() sends it or the closure       *)
(* throws.                                                                 *)
LEMMA PopPlace ==
  ASSUME WorkType, PlaceInv, pos \in Streams, queues[pos] # <<>>, queues' = Popped,
         UNCHANGED <<batchVars, makeVars>>,
         sent' = sent \/ sent' = [sent EXCEPT ![Head(queues[pos])] = @ + 1]
  PROVE  PlaceInv'
<1> DEFINE x == Head(queues[pos])
<1>1. /\ x \in Cmds
      /\ \A r \in Streams : r # pos => queues'[r] = queues[r]
      /\ \A y : y \in Range(queues[pos]) <=> y \in Range(queues'[pos]) \/ y = x
      /\ Distinct(queues[pos]) => Distinct(queues'[pos]) /\ x \notin Range(queues'[pos])
  <2>1. queues \in [Streams -> Seq(Cmds)] /\ queues[pos] \in Seq(Cmds)
    BY Zenon DEF WorkType
  <2>2. /\ Tail(queues[pos]) \in Seq(Cmds) /\ x \in Cmds
        /\ \A y : y \in Range(queues[pos]) <=> y \in Range(Tail(queues[pos])) \/ y = x
        /\ Distinct(queues[pos]) => Distinct(Tail(queues[pos])) /\ x \notin Range(Tail(queues[pos]))
    BY <2>1, TailRange, Zenon
  <2>3. queues'[pos] = Tail(queues[pos]) /\ \A r \in Streams : r # pos => queues'[r] = queues[r]
    BY <2>1, Zenon DEF Popped
  <2> QED BY <2>2, <2>3, Zenon
<1>2. UNCHANGED <<cmds, submitted, made>>
  BY Zenon DEF batchVars, makeVars
<1> HIDE DEF x
<1>3. \A c \in Cmds : c # x => sent'[c] = sent[c]
  BY <1>1, Zenon DEF WorkType, x
<1>4. x \in Range(queues[pos]) /\ x <= made /\ sent[x] = 0
  BY <1>1, Zenon DEF PlaceInv
<1>5. sent'[x] <= 1
  BY <1>1, <1>4 DEF WorkType, x
<1>6. \A s \in Streams : Distinct(queues'[s]) /\ x \notin Range(queues'[s])
                         /\ \A c \in Range(queues'[s]) : c \in Range(queues[s])
  BY <1>1, <1>4, Zenon DEF PlaceInv
<1>7. \A b \in Batches : x \notin Range(cmds[b])
  BY <1>4, Zenon DEF PlaceInv
<1>8. ASSUME NEW b \in Batches, NEW c \in Range(cmds[b]) PROVE c <= made /\ (~ submitted[b] => sent'[c] = 0)
  <2>1. c \in Cmds /\ c # x BY <1>7, <1>8 DEF WorkType, Range
  <2> QED BY <1>3, <1>8, <2>1, Zenon DEF PlaceInv
<1>9. ASSUME NEW s \in Streams, NEW c \in Range(queues'[s]) PROVE c <= made /\ sent'[c] = 0
  <2>1. c \in Range(queues[s]) /\ c # x BY <1>6, <1>9
  <2>2. c \in Cmds BY <2>1 DEF WorkType, Range
  <2> QED BY <1>3, <2>1, <2>2, Zenon DEF PlaceInv
<1>10. \A s, r \in Streams : \A c \in Range(queues'[s]) : c \in Range(queues'[r]) => s = r
  BY <1>6, Zenon DEF PlaceInv
<1>11. \A b \in Batches, s \in Streams : \A c \in Range(cmds[b]) : c \notin Range(queues'[s])
  BY <1>6, Zenon DEF PlaceInv
<1>12. ASSUME NEW c \in Cmds PROVE sent'[c] <= 1 /\ (c > made => sent'[c] = 0)
  <2>1. CASE c = x BY <1>4, <1>5, <2>1, <1>1 DEF WorkType, Cmds
  <2>2. CASE c # x BY <1>3, <2>2 DEF PlaceInv
  <2> QED BY <2>1, <2>2, Zenon
<1> QED BY <1>2, <1>6, <1>8, <1>9, <1>10, <1>11, <1>12, Zenon DEF PlaceInv, Cmds

(* No step puts a command in two places or sends it from none.             *)
LEMMA PlaceNext == ASSUME PoolInv, WorkType, PlaceInv, [Next]_vars PROVE PlaceInv'
<1>1. CASE PoolStep \/ Run \/ RunSkips \/ RunPassEnds \/ UNCHANGED vars
  <2>1. UNCHANGED <<cmds, submitted, made, queues, sent>>
    BY <1>1, Zenon DEF PoolStep, Acquire, Drop, MoveHandle, Run, RunSkips, RunPassEnds, vars,
       batchVars, makeVars, cmdVars
  <2> QED BY <2>1, Zenon DEF PlaceInv, Cmds
<1>2. ASSUME NEW b \in Batches, Freeze(b) PROVE PlaceInv'
  BY <1>2, Zenon DEF Freeze, PlaceInv, Cmds, makeVars, cmdVars
<1>3. ASSUME NEW c \in Cmds, Complete(c) PROVE PlaceInv'
  BY <1>3, Zenon DEF Complete, PlaceInv, Cmds, makeVars, batchVars
<1>4. ASSUME NEW s \in Streams, NEW k, Enqueue(s, k) PROVE PlaceInv'
  BY <1>4, EnqueuePlace, WorkloadAssumption, Zenon DEF Enqueue
<1>5. ASSUME NEW s \in Streams, RunEnqueues(s) PROVE PlaceInv'
  <2>1. MaxCmds \in Nat /\ MaxCmds <= MaxCmds BY WorkloadAssumption
  <2> QED BY <1>5, <2>1, EnqueuePlace, Zenon DEF RunEnqueues
<1>6. CASE RunSends
  <2>1. pos \in Streams BY <1>6, WorkloadAssumption DEF RunSends, WorkType, Streams
  <2> QED BY <1>6, <2>1, PopPlace, Zenon DEF RunSends
<1>7. CASE RunThrows
  <2>1. pos \in Streams BY <1>7, WorkloadAssumption DEF RunThrows, WorkType, Streams
  <2> QED BY <1>7, <2>1, PopPlace, Zenon DEF RunThrows, cmdVars
<1> QED
  BY <1>1, <1>2, <1>3, <1>4, <1>5, <1>6, <1>7, AppendPlace, NewBatchPlace, MoveBatchPlace,
     SubmitPlace, Zenon
  DEF Next, BatchStep, RunStep

-----------------------------------------------------------------------------
(* A buffer in the pool is idle                                            *)

(* No buffer in the pool is named by a command that may still be sent, or  *)
(* by a busy one whose fence the client or run() has.                      *)
IdleInv ==
  /\ ~ active => results = {}
  /\ \A c \in Waiting : uses[c] \notin Range(free)
  /\ \A c \in fences \cup results : state[c] = "busy" => uses[c] \notin Range(free)

(* Where the commands that may still be sent are.                          *)
LEMMA WaitingIs ==
  /\ \A c : c \in Waiting <=>
       \/ \E b \in Batches : ~ submitted[b] /\ c \in Range(cmds[b])
       \/ \E s \in Streams : c \in Range(queues[s])
  /\ \A c : c \in Waiting' <=>
       \/ \E b \in Batches : ~ submitted'[b] /\ c \in Range(cmds'[b])
       \/ \E s \in Streams : c \in Range(queues'[s])
<1>1. ASSUME NEW f, NEW D, NEW c
      PROVE  c \in UNION {Range(f[b]) : b \in D} <=> \E b \in D : c \in Range(f[b])
  BY Zenon
<1>2. ASSUME NEW f, NEW r, NEW c
      PROVE  c \in UNION {Range(f[b]) : b \in {d \in Batches : ~ r[d]}}
               <=> \E b \in Batches : ~ r[b] /\ c \in Range(f[b])
  BY <1>1, Zenon
<1>3. ASSUME NEW c
      PROVE  c \in Waiting <=> \/ \E b \in Batches : ~ submitted[b] /\ c \in Range(cmds[b])
                              \/ \E s \in Streams : c \in Range(queues[s])
  <2>1. c \in UNION {Range(queues[s]) : s \in Streams} <=> \E s \in Streams : c \in Range(queues[s])
    BY <1>1, Zenon
  <2>2. c \in UNION {Range(cmds[b]) : b \in {d \in Batches : ~ submitted[d]}}
          <=> \E b \in Batches : ~ submitted[b] /\ c \in Range(cmds[b])
    BY <1>2, Zenon
  <2> DEFINE A == UNION {Range(cmds[b]) : b \in {d \in Batches : ~ submitted[d]}}
             B == UNION {Range(queues[s]) : s \in Streams}
  <2>3. Waiting = A \cup B BY Zenon DEF Waiting
  <2>4. /\ c \in A <=> \E b \in Batches : ~ submitted[b] /\ c \in Range(cmds[b])
        /\ c \in B <=> \E s \in Streams : c \in Range(queues[s])
    BY <2>1, <2>2, Zenon
  <2> HIDE DEF A, B
  <2> QED BY <2>3, <2>4, Zenon
<1>4. ASSUME NEW c
      PROVE  c \in Waiting' <=> \/ \E b \in Batches : ~ submitted'[b] /\ c \in Range(cmds'[b])
                               \/ \E s \in Streams : c \in Range(queues'[s])
  <2>1. c \in UNION {Range(queues'[s]) : s \in Streams} <=> \E s \in Streams : c \in Range(queues'[s])
    BY <1>1, Zenon
  <2>2. c \in UNION {Range(cmds'[b]) : b \in {d \in Batches : ~ submitted'[d]}}
          <=> \E b \in Batches : ~ submitted'[b] /\ c \in Range(cmds'[b])
    BY <1>2, Zenon
  <2> DEFINE A == UNION {Range(cmds'[b]) : b \in {d \in Batches : ~ submitted'[d]}}
             B == UNION {Range(queues'[s]) : s \in Streams}
  <2>3. Waiting' = A \cup B BY Zenon DEF Waiting, Streams
  <2>4. /\ c \in A <=> \E b \in Batches : ~ submitted'[b] /\ c \in Range(cmds'[b])
        /\ c \in B <=> \E s \in Streams : c \in Range(queues'[s])
    BY <2>1, <2>2, Zenon
  <2> HIDE DEF A, B
  <2> QED BY <2>3, <2>4, Zenon
<1> QED BY <1>3, <1>4, Zenon

(* Steps that leave the pool and the operands alone, and make nothing.     *)
LEMMA IdleKept ==
  ASSUME IdleInv, UNCHANGED <<free, uses>>, Waiting' \subseteq Waiting,
         ~ active' => results' = {},
         \A c \in fences' \cup results' :
           state'[c] = "busy" => c \in Waiting \/ (c \in fences \cup results /\ state[c] = "busy")
  PROVE  IdleInv'
<1>1. \A c \in Waiting' : uses'[c] \notin Range(free')
  BY Zenon DEF IdleInv
<1>2. \A c \in fences' \cup results' : state'[c] = "busy" => uses'[c] \notin Range(free')
  BY Zenon DEF IdleInv
<1> QED BY <1>1, <1>2, Zenon DEF IdleInv

(* A command is made with a buffer that is out of the pool.                *)
LEMMA IdleMade ==
  ASSUME PoolInv, WorkType, IdleInv, NEW k, NEW max \in Nat, max <= MaxCmds, NewCommand(k, max),
         UNCHANGED <<free, active, results, fences, state>>,
         \A c \in Waiting' : c \in Waiting \/ c = made + 1
  PROVE  IdleInv'
<1> DEFINE n == made + 1
<1>1. k \notin Range(free) /\ uses'[n] = k /\ \A c \in Cmds : c # n => uses'[c] = uses[c]
  BY Made, Zenon
<1> HIDE DEF n
<1>2. \A c \in Waiting : c \in Cmds
  BY WaitingIs DEF WorkType, Range
<1>3. ASSUME NEW c \in Waiting' PROVE uses'[c] \notin Range(free)
  <2>1. CASE c = n BY <1>1, <2>1
  <2>2. CASE c # n
    <3>1. c \in Waiting BY <1>3, <2>2 DEF n
    <3>2. uses'[c] = uses[c] BY <1>1, <1>2, <2>2, <3>1
    <3> QED BY <3>1, <3>2, Zenon DEF IdleInv
  <2> QED BY <2>1, <2>2, Zenon
<1>4. ASSUME NEW c \in fences \cup results, state[c] = "busy" PROVE uses'[c] \notin Range(free)
  <2>1. CASE c = n BY <1>1, <2>1
  <2>2. CASE c # n
    <3>1. uses'[c] = uses[c] BY <1>1, <1>4, <2>2 DEF WorkType
    <3> QED BY <1>4, <3>1, Zenon DEF IdleInv
  <2> QED BY <2>1, <2>2, Zenon
<1> QED BY <1>3, <1>4, Zenon DEF IdleInv

(* The rule of the pool: who gives a buffer up has been told that the      *)
(* commands that use it are done.                                          *)
LEMMA IdlePool == ASSUME PoolInv, IdleInv, PoolStep PROVE IdleInv'
<1>1. /\ ~ active /\ results = {}
      /\ UNCHANGED <<active, results, uses, state, fences, cmds, submitted, queues>>
  BY Zenon DEF PoolStep, Acquire, Drop, MoveHandle, IdleInv, batchVars, makeVars, runVars, cmdVars
<1>2. Waiting' = Waiting
  BY <1>1, Zenon DEF Waiting, Streams
<1>3. \A y \in Range(free') : y \in Range(free) \/ MayReturn(y)
  <2>1. ASSUME NEW h \in Handles, Acquire(h), NEW y \in Range(free') PROVE y \in Range(free)
    <3>1. free \in Seq(Buffers) /\ free # <<>> /\ free' = SubSeq(free, 1, Len(free) - 1)
      BY <2>1, Zenon DEF PoolInv, Acquire
    <3> QED BY <2>1, <3>1, FrontRange, Zenon
  <2>2. ASSUME NEW h \in Handles, free' = Released(held[h]), held[h] # 0 => MayReturn(held[h]),
               NEW y \in Range(free')
        PROVE  y \in Range(free) \/ MayReturn(y)
    <3>1. y \in Range(free) \/ (held[h] # 0 /\ y = held[h]) BY <2>2, ReleasedPool
    <3> QED BY <2>2, <3>1, Zenon
  <2>3. ASSUME NEW h \in Handles, Drop(h), NEW y \in Range(free')
        PROVE  y \in Range(free) \/ MayReturn(y)
    BY <2>2, <2>3, Zenon DEF Drop
  <2>4. ASSUME NEW h \in Handles, NEW g \in Handles, MoveHandle(h, g), NEW y \in Range(free')
        PROVE  y \in Range(free) \/ MayReturn(y)
    BY <2>2, <2>4, Zenon DEF MoveHandle
  <2> QED BY <2>1, <2>3, <2>4, Zenon DEF PoolStep
<1>4. ASSUME NEW c \in Waiting PROVE uses[c] \notin Range(free')
  BY <1>3, <1>4, Zenon DEF MayReturn, IdleInv
<1>5. ASSUME NEW c \in fences, state[c] = "busy" PROVE uses[c] \notin Range(free')
  <2>1. uses[c] \notin Range(free) BY <1>5 DEF IdleInv
  <2>2. ~ MayReturn(uses[c]) BY <1>5 DEF MayReturn, Query
  <2> QED BY <1>3, <2>1, <2>2, Zenon
<1> QED BY <1>1, <1>2, <1>4, <1>5, Zenon DEF IdleInv

(* The commands of the batch wait until submit() takes them.               *)
LEMMA IdleSubmit ==
  ASSUME WorkType, IdleInv, NEW b \in Batches, NEW n \in 0..MaxMade, SubmitBatch(b, n)
  PROVE  IdleInv'
<1> DEFINE P == Range(SubSeq(cmds[b], 1, n))
<1>1. ~ submitted[b] /\ submitted'[b] /\ \A d \in Batches : d # b => submitted'[d] = submitted[d]
  BY Zenon DEF SubmitBatch, WorkType
<1>2. UNCHANGED <<free, uses, queues, cmds, active, results>>
  BY Zenon DEF SubmitBatch, makeVars, poolVars, runVars
<1>3. \A c \in P : c \in Range(cmds[b])
  <2>1. n \in 0..Len(cmds[b]) /\ cmds[b] \in Seq(Cmds)
    BY WorkloadAssumption DEF SubmitBatch, WorkType
  <2> QED BY <2>1, PrefixRange, Zenon
<1>4. \A c \in Cmds : state'[c] = IF c \in P THEN "busy" ELSE state[c]
  BY Zenon DEF SubmitBatch
<1> HIDE DEF P
<1>5. \A c \in Range(cmds[b]) : c \in Waiting
  BY <1>1, WaitingIs, Zenon
<1>6. Waiting' \subseteq Waiting
  <2> SUFFICES ASSUME NEW c \in Waiting' PROVE c \in Waiting
    BY Zenon
  <2>1. CASE \E s \in Streams : c \in Range(queues'[s]) BY <1>2, <2>1, WaitingIs, Zenon
  <2>2. ASSUME NEW d \in Batches, ~ submitted'[d], c \in Range(cmds'[d]) PROVE c \in Waiting
    <3>1. ~ submitted[d] BY <1>1, <2>2
    <3> QED BY <1>2, <2>2, <3>1, WaitingIs, Zenon
  <2> QED BY <2>1, <2>2, WaitingIs, Zenon
<1>7. fences' \subseteq fences \cup Range(cmds[b]) /\ fences \subseteq Cmds /\ results \subseteq Cmds
  BY Zenon DEF SubmitBatch, WorkType
<1>8. ASSUME NEW c \in fences' \cup results', state'[c] = "busy"
      PROVE  c \in Waiting \/ (c \in fences \cup results /\ state[c] = "busy")
  <2>1. CASE c \in Range(cmds[b]) BY <1>5, <2>1
  <2>2. CASE c \notin Range(cmds[b])
    <3>1. c \in fences \cup results /\ c \in Cmds /\ c \notin P BY <1>2, <1>3, <1>7, <1>8, <2>2
    <3> QED BY <1>4, <1>8, <3>1, Zenon
  <2> QED BY <2>1, <2>2, Zenon
<1>9. ~ active' => results' = {}
  BY <1>2, Zenon DEF IdleInv
<1> QED BY <1>2, <1>6, <1>8, <1>9, IdleKept, Zenon

(* So do those of a queue until run() takes them.                          *)
LEMMA IdlePop ==
  ASSUME WorkType, IdleInv, RunSends \/ RunThrows
  PROVE  IdleInv'
<1> DEFINE x == Head(queues[pos])
<1>1. pos \in Streams /\ queues[pos] # <<>> /\ queues' = Popped /\ UNCHANGED <<free, uses, cmds, submitted, fences>>
  BY WorkloadAssumption DEF RunSends, RunThrows, WorkType, Streams, poolVars, makeVars, batchVars
<1>2. /\ x \in Cmds
      /\ \A r \in Streams : r # pos => queues'[r] = queues[r]
      /\ \A y : y \in Range(queues[pos]) <=> y \in Range(queues'[pos]) \/ y = x
  <2>1. queues \in [Streams -> Seq(Cmds)] /\ queues[pos] \in Seq(Cmds)
    BY <1>1, Zenon DEF WorkType
  <2>2. /\ Tail(queues[pos]) \in Seq(Cmds) /\ x \in Cmds
        /\ \A y : y \in Range(queues[pos]) <=> y \in Range(Tail(queues[pos])) \/ y = x
    BY <1>1, <2>1, TailRange, Zenon
  <2>3. queues'[pos] = Tail(queues[pos]) /\ \A r \in Streams : r # pos => queues'[r] = queues[r]
    BY <1>1, <2>1, Zenon DEF Popped
  <2> QED BY <2>2, <2>3, Zenon
<1>3. \A s \in Streams : \A c \in Range(queues'[s]) : c \in Range(queues[s])
  BY <1>2, Zenon
<1>4. x \in Waiting
  BY <1>1, <1>2, WaitingIs, Zenon
<1>5. Waiting' \subseteq Waiting
  <2> SUFFICES ASSUME NEW c \in Waiting' PROVE c \in Waiting
    BY Zenon
  <2>1. CASE \E s \in Streams : c \in Range(queues'[s]) BY <1>3, <2>1, WaitingIs, Zenon
  <2>2. CASE \E d \in Batches : ~ submitted'[d] /\ c \in Range(cmds'[d]) BY <1>1, <2>2, WaitingIs, Zenon
  <2> QED BY <2>1, <2>2, WaitingIs, Zenon
<1> HIDE DEF x
<1>6. CASE RunThrows
  <2>1. results' = {} /\ UNCHANGED state BY <1>6 DEF RunThrows, Return, cmdVars
  <2> QED BY <1>1, <1>5, <2>1, IdleKept, Zenon
<1>7. CASE RunSends
  <2>1. active' /\ results' = results \cup {x} /\ state' = [state EXCEPT ![x] = "busy"]
    BY <1>7, Zenon DEF RunSends, x
  <2>2. \A c \in Cmds : c # x => state'[c] = state[c]
    BY <2>1, Zenon DEF WorkType
  <2>3. ASSUME NEW c \in fences' \cup results', state'[c] = "busy"
        PROVE  c \in Waiting \/ (c \in fences \cup results /\ state[c] = "busy")
    <3>1. CASE c = x BY <1>4, <3>1
    <3>2. CASE c # x
      <4>1. c \in fences \cup results /\ c \in Cmds BY <1>1, <2>1, <2>3, <3>2 DEF WorkType
      <4> QED BY <2>2, <2>3, <3>2, <4>1, Zenon
    <3> QED BY <3>1, <3>2, Zenon
  <2> QED BY <1>1, <1>5, <2>1, <2>3, IdleKept, Zenon
<1> QED BY <1>6, <1>7, Zenon

(* No step makes a command that is known busy name a buffer in the pool.   *)
LEMMA IdleNext == ASSUME PoolInv, WorkType, IdleInv, [Next]_vars PROVE IdleInv'
<1>1. ASSUME NEW b \in Batches, NEW k \in Buffers, AppendCommand(b, k) PROVE IdleInv'
  <2>1. NewCommand(k, MaxMade) /\ UNCHANGED <<free, active, results, fences, state, submitted, queues>>
    BY <1>1, Zenon DEF AppendCommand, poolVars, runVars, cmdVars
  <2>2. made + 1 \in Cmds BY <2>1, Made, WorkloadAssumption
  <2>3. \A d \in Batches : \A c \in Range(cmds'[d]) : c \in Range(cmds[d]) \/ c = made + 1
    <3> DEFINE n == made + 1
    <3>1. n \in Cmds BY <2>2
    <3>2. cmds \in [Batches -> Seq(Cmds)] /\ cmds' = [cmds EXCEPT ![b] = Append(@, n)]
      BY <1>1, Zenon DEF WorkType, AppendCommand
    <3>3. cmds[b] \in Seq(Cmds) /\ cmds'[b] = Append(cmds[b], n) BY <3>2
    <3> HIDE DEF n
    <3>4. \A y : y \in Range(Append(cmds[b], n)) <=> y \in Range(cmds[b]) \/ y = n
      BY <3>1, <3>3, AppendRange, Zenon
    <3>5. \A d \in Batches : d # b => cmds'[d] = cmds[d] BY <3>2
    <3>6. \A d \in Batches : \A c \in Range(cmds'[d]) : c \in Range(cmds[d]) \/ c = n
      BY <3>3, <3>4, <3>5, Zenon
    <3> QED BY <3>6, Zenon DEF n
  <2>4. \A c \in Waiting' : c \in Waiting \/ c = made + 1
    BY <2>1, <2>3, WaitingIs, Zenon
  <2> QED BY <2>1, <2>4, IdleMade, WorkloadAssumption, Zenon
<1>2. ASSUME NEW s \in Streams, NEW k, NEW max \in Nat, max <= MaxCmds, NewCommand(k, max),
             queues' = [queues EXCEPT ![s] = Append(@, made + 1)],
             UNCHANGED <<free, active, results, fences, state, submitted, cmds>>
      PROVE  IdleInv'
  <2>2. made + 1 \in Cmds BY <1>2, Made
  <2>3. \A r \in Streams : \A c \in Range(queues'[r]) : c \in Range(queues[r]) \/ c = made + 1
    <3> DEFINE n == made + 1
    <3>1. n \in Cmds BY <2>2
    <3>2. queues \in [Streams -> Seq(Cmds)] /\ queues' = [queues EXCEPT ![s] = Append(@, n)]
      BY <1>2, Zenon DEF WorkType
    <3>3. queues[s] \in Seq(Cmds) /\ queues'[s] = Append(queues[s], n) BY <3>2
    <3> HIDE DEF n
    <3>4. \A y : y \in Range(Append(queues[s], n)) <=> y \in Range(queues[s]) \/ y = n
      BY <3>1, <3>3, AppendRange, Zenon
    <3>5. \A r \in Streams : r # s => queues'[r] = queues[r] BY <3>2
    <3>6. \A r \in Streams : \A c \in Range(queues'[r]) : c \in Range(queues[r]) \/ c = n
      BY <3>3, <3>4, <3>5, Zenon
    <3> QED BY <3>6, Zenon DEF n
  <2>4. \A c \in Waiting' : c \in Waiting \/ c = made + 1
    BY <1>2, <2>3, WaitingIs, Zenon
  <2> QED BY <1>2, <2>4, IdleMade, Zenon
<1>3. ASSUME NEW s \in Streams, NEW k, Enqueue(s, k) PROVE IdleInv'
  BY <1>2, <1>3, WorkloadAssumption, Zenon DEF Enqueue, poolVars, batchVars, runVars, cmdVars
<1>4. ASSUME NEW s \in Streams, RunEnqueues(s) PROVE IdleInv'
  <2>1. MaxCmds \in Nat /\ MaxCmds <= MaxCmds BY WorkloadAssumption
  <2> QED BY <1>2, <1>4, <2>1, Zenon DEF RunEnqueues, poolVars, batchVars, runVars, cmdVars
<1>5. ASSUME NEW b \in Batches, Freeze(b) \/ NewBatch(b) \/ \E d \in Batches : MoveBatch(b, d) PROVE IdleInv'
  <2>1. UNCHANGED <<free, uses, active, results, fences, state, queues>>
    BY <1>5, Zenon DEF Freeze, NewBatch, MoveBatch, poolVars, makeVars, runVars, cmdVars
  <2>2. ASSUME NEW e \in Batches, ~ submitted'[e], NEW c \in Range(cmds'[e])
        PROVE  \E d \in Batches : ~ submitted[d] /\ c \in Range(cmds[d])
    <3>1. CASE Freeze(b) BY <2>2, <3>1 DEF Freeze
    <3>2. CASE NewBatch(b)
      <4>1. cmds'[b] = <<>> /\ (e # b => cmds'[e] = cmds[e] /\ submitted'[e] = submitted[e])
        BY <3>2, Zenon DEF NewBatch, WorkType
      <4>2. e # b BY <2>2, <4>1, EmptyRange
      <4> QED BY <2>2, <4>1, <4>2, Zenon
    <3>3. ASSUME NEW d \in Batches, MoveBatch(b, d) PROVE \E f \in Batches : ~ submitted[f] /\ c \in Range(cmds[f])
      <4>1. /\ b # d /\ cmds'[b] = cmds[d] /\ cmds'[d] = <<>> /\ submitted'[b] = submitted[d]
            /\ e # b /\ e # d => cmds'[e] = cmds[e]
            /\ e # b => submitted'[e] = submitted[e]
        BY <3>3, Zenon DEF MoveBatch, WorkType
      <4>2. e # d BY <2>2, <4>1, EmptyRange
      <4>3. CASE e = b BY <2>2, <4>1, <4>3
      <4>4. CASE e # b BY <2>2, <4>1, <4>2, <4>4
      <4> QED BY <4>3, <4>4, Zenon
    <3> QED BY <1>5, <3>1, <3>2, <3>3, Zenon
  <2>3. Waiting' \subseteq Waiting BY <2>1, <2>2, WaitingIs, Zenon
  <2>4. ~ active' => results' = {} BY <2>1 DEF IdleInv
  <2>5. \A c \in fences' \cup results' : state'[c] = "busy" => c \in fences \cup results /\ state[c] = "busy"
    BY <2>1, Zenon
  <2> QED BY <2>1, <2>3, <2>4, <2>5, IdleKept, Zenon
<1>6. CASE Run \/ RunSkips \/ RunPassEnds
  <2>1. UNCHANGED <<free, uses, state, queues, cmds, submitted>>
    BY <1>6, Zenon DEF Run, RunSkips, RunPassEnds, poolVars, makeVars, batchVars, cmdVars
  <2>2. ~ active' => results' = {}
    BY <1>6, Zenon DEF Run, RunSkips, RunPassEnds, Return
  <2>3. fences' \cup results' \subseteq fences \cup results
    BY <1>6, Zenon DEF Run, RunSkips, RunPassEnds, Return
  <2>4. Waiting' \subseteq Waiting BY <2>1, WaitingIs, Zenon
  <2>5. \A c \in fences' \cup results' : state'[c] = "busy" => c \in fences \cup results /\ state[c] = "busy"
    BY <2>1, <2>3, Zenon
  <2> QED BY <2>1, <2>2, <2>4, <2>5, IdleKept, Zenon
<1>7. ASSUME NEW d \in Cmds, Complete(d) PROVE IdleInv'
  <2>1. UNCHANGED <<free, uses, queues, cmds, submitted, active, results, fences>>
    BY <1>7, Zenon DEF Complete, poolVars, makeVars, batchVars, runVars
  <2>2. \A c \in Cmds : state'[c] = "busy" => state[c] = "busy"
    BY <1>7, Zenon DEF Complete, WorkType
  <2>3. Waiting' \subseteq Waiting BY <2>1, WaitingIs, Zenon
  <2>4. ~ active' => results' = {} BY <2>1 DEF IdleInv
  <2>5. \A c \in fences' \cup results' : state'[c] = "busy" => c \in fences \cup results /\ state[c] = "busy"
    BY <2>1, <2>2, Zenon DEF WorkType
  <2> QED BY <2>1, <2>3, <2>4, <2>5, IdleKept, Zenon
<1>8. CASE UNCHANGED vars
  BY <1>8, Zenon DEF vars, poolVars, makeVars, batchVars, runVars, cmdVars, IdleInv, Waiting, Streams
<1> QED
  BY <1>1, <1>3, <1>4, <1>5, <1>6, <1>7, <1>8, IdlePool, IdleSubmit, IdlePop, Zenon
  DEF Next, BatchStep, RunStep

-----------------------------------------------------------------------------
(* run() serves the streams in turn                                        *)

(* What run() has seen: after it sent something in this pass, the streams  *)
(* between that one and i are empty; before, those below i are, and those  *)
(* above the stream served last, in the pass before.                       *)
RunInv ==
  active =>
    /\ progressed => /\ last \in 1..pos - 1
                     /\ \A j \in Streams : last < j /\ j < pos => queues[j] = <<>>
    /\ ~ progressed => /\ \A j \in Streams : j < pos => queues[j] = <<>>
                       /\ last # 0 => \A j \in Streams : last < j => queues[j] = <<>>

(* A closure enqueues right after its stream was served, when nothing has  *)
(* been seen of any other.                                                 *)
LEMMA RunNext == ASSUME WorkType, RunInv, [Next]_vars PROVE RunInv'
<1>1. CASE PoolStep \/ BatchStep \/ UNCHANGED vars \/ \E c \in Cmds : Complete(c)
  <2>1. UNCHANGED <<queues, active, pos, progressed, last>>
    BY <1>1, Zenon DEF PoolStep, BatchStep, Acquire, Drop, MoveHandle, AppendCommand, Freeze,
       NewBatch, SubmitBatch,
                MoveBatch, Complete, vars, runVars
  <2> QED BY <2>1, Zenon DEF RunInv, Streams
<1>2. CASE Run
  <2>1. active' /\ ~ progressed' /\ pos' = 1 /\ last' = 0 BY <1>2 DEF Run
  <2> QED BY <2>1 DEF RunInv, Streams
<1>3. ASSUME NEW s \in Streams, NEW k, Enqueue(s, k) PROVE RunInv'
  BY <1>3, Zenon DEF Enqueue, RunInv, runVars
<1>4. CASE RunSkips
  <2>1. /\ active /\ pos' = pos + 1 /\ queues[pos] = <<>> /\ pos \in 1..NStreams
        /\ UNCHANGED <<queues, active, progressed, last>>
    BY <1>4, WorkloadAssumption DEF RunSkips, WorkType
  <2> QED BY <2>1, WorkloadAssumption DEF RunInv, Streams, WorkType
<1>5. CASE RunSends
  <2>1. active' /\ progressed' /\ pos' = pos + 1 /\ last' = pos /\ pos \in 1..NStreams
    BY <1>5, WorkloadAssumption DEF RunSends, WorkType
  <2> QED BY <2>1, WorkloadAssumption DEF RunInv, Streams
<1>6. CASE RunThrows
  BY <1>6, Zenon DEF RunThrows, Return, RunInv
<1>7. CASE RunPassEnds
  <2>1. CASE progressed
    <3>1. /\ active /\ active' = active /\ ~ progressed' /\ pos' = 1 /\ last' = last /\ pos = NStreams + 1 /\ queues' = queues
      BY <1>7, <2>1, WorkloadAssumption DEF RunPassEnds, WorkType
    <3>2. \A j \in Streams : last < j => queues[j] = <<>>
      BY <2>1, <3>1, WorkloadAssumption DEF RunInv, Streams
    <3> QED BY <3>1, <3>2 DEF RunInv, Streams
  <2>2. CASE ~ progressed
    BY <1>7, <2>2, Zenon DEF RunPassEnds, Return, RunInv
  <2> QED BY <2>1, <2>2, Zenon
<1>8. ASSUME NEW s \in Streams, RunEnqueues(s) PROVE RunInv'
  <2>1. /\ active /\ progressed /\ pos = last + 1 /\ UNCHANGED <<active, progressed, pos, last>>
    BY <1>8, Zenon DEF RunEnqueues, runVars
  <2>2. last \in 1..pos - 1 /\ ~ \E j \in Streams : last < j /\ j < pos
    BY <2>1 DEF RunInv, Streams, WorkType
  <2> QED BY <2>1, <2>2, Zenon DEF RunInv, Streams
<1> QED BY <1>1, <1>2, <1>3, <1>4, <1>5, <1>6, <1>7, <1>8, Zenon DEF Next, RunStep

(* The stream run() takes from is the next that has something.             *)
LEMMA Turn ==
  ASSUME WorkType, RunInv, active, pos <= NStreams, queues[pos] # <<>>
  PROVE  pos \in Abstract!Clients /\ Abstract!IsTurn(pos)
<1>1. pos \in Streams
  BY WorkloadAssumption DEF WorkType, Streams
<1>2. CASE progressed
  BY <1>1, <1>2 DEF RunInv, WorkType, Streams, Abstract!Clients, Abstract!IsTurn
<1>3. CASE ~ progressed
  BY <1>1, <1>3 DEF RunInv, WorkType, Streams, Abstract!Clients, Abstract!IsTurn
<1> QED BY <1>2, <1>3, Zenon

(* Each step of the client or of run() is one of the dispatcher or none.   *)
LEMMA TurnStep ==
  ASSUME PoolInv, WorkType, RunInv, [Next]_vars
  PROVE  [Abstract!Next]_(Abstract!vars)
<1>1. CASE PoolStep \/ BatchStep \/ UNCHANGED vars \/ \E c \in Cmds : Complete(c)
  <2>1. UNCHANGED <<queues, active, last, out>>
    BY <1>1, Zenon DEF PoolStep, BatchStep, Acquire, Drop, MoveHandle, AppendCommand, Freeze,
       NewBatch, SubmitBatch,
                MoveBatch, Complete, vars, runVars, cmdVars
  <2> QED BY <2>1, Zenon DEF Abstract!vars
<1>2. CASE Run
  <2>1. Abstract!Begin BY <1>2 DEF Run, cmdVars, Abstract!Begin
  <2> QED BY <2>1, Zenon DEF Abstract!Next
<1>3. ASSUME NEW s \in Streams, NEW k, Enqueue(s, k) PROVE Abstract!Next
  <2>1. made + 1 \in Cmds BY <1>3, Made, WorkloadAssumption DEF Enqueue
  <2>2. Abstract!Enqueue(s, made + 1) BY <1>3 DEF Enqueue, runVars, cmdVars, Abstract!Enqueue
  <2> QED BY <2>1, <2>2, Zenon DEF Abstract!Next, Abstract!Clients, Streams
<1>4. ASSUME NEW s \in Streams, RunEnqueues(s) PROVE Abstract!Next
  <2>1. MaxCmds \in Nat /\ MaxCmds <= MaxCmds BY WorkloadAssumption
  <2>2. made + 1 \in Cmds BY <1>4, <2>1, Made DEF RunEnqueues
  <2>3. Abstract!Enqueue(s, made + 1) BY <1>4 DEF RunEnqueues, runVars, cmdVars, Abstract!Enqueue
  <2> QED BY <2>2, <2>3, Zenon DEF Abstract!Next, Abstract!Clients, Streams
<1>5. CASE RunSkips
  BY <1>5, Zenon DEF RunSkips, cmdVars, Abstract!vars
<1>6. CASE RunSends
  <2>1. pos \in Abstract!Clients /\ Abstract!IsTurn(pos) BY <1>6, Turn DEF RunSends
  <2>2. Abstract!Serve(pos) BY <1>6, <2>1 DEF RunSends, Popped, Abstract!Serve
  <2> QED BY <2>1, <2>2, Zenon DEF Abstract!Next
<1>7. CASE RunThrows
  <2>1. pos \in Abstract!Clients /\ Abstract!IsTurn(pos) BY <1>7, Turn DEF RunThrows
  <2>2. Abstract!Fail(pos) BY <1>7, <2>1 DEF RunThrows, Popped, Return, cmdVars, Abstract!Fail
  <2> QED BY <2>1, <2>2, Zenon DEF Abstract!Next
<1>8. CASE RunPassEnds
  <2>1. CASE progressed BY <1>8, <2>1 DEF RunPassEnds, cmdVars, Abstract!vars
  <2>2. CASE ~ progressed
    <3>1. \A i \in Abstract!Clients : queues[i] = <<>>
      BY <1>8, <2>2, WorkloadAssumption DEF RunPassEnds, RunInv, WorkType, Streams, Abstract!Clients
    <3>2. Abstract!End BY <1>8, <2>2, <3>1 DEF RunPassEnds, Return, cmdVars, Abstract!End
    <3> QED BY <3>2, Zenon DEF Abstract!Next
  <2> QED BY <2>1, <2>2, Zenon
<1> QED BY <1>1, <1>2, <1>3, <1>4, <1>5, <1>6, <1>7, <1>8, Zenon DEF Next, RunStep

-----------------------------------------------------------------------------
(* The theorems                                                            *)

(* The inductive invariant.                                                *)
WorkInv == PoolInv /\ WorkType /\ PlaceInv /\ IdleInv /\ RunInv

(* Nothing is lent, made or sent at first.                                 *)
LEMMA InitWork == Init => WorkInv
<1> SUFFICES ASSUME Init PROVE WorkInv
  BY Zenon
<1>1. WorkType
  <2>1. <<>> \in Seq(Cmds) OBVIOUS
  <2>2. active \in BOOLEAN /\ progressed \in BOOLEAN /\ ~ active BY Zenon DEF Init
  <2> QED BY <2>1, <2>2, WorkloadAssumption DEF Init, WorkType
<1>2. /\ \A b \in Batches : Range(cmds[b]) = {}
      /\ \A s \in Streams : Range(queues[s]) = {} /\ Distinct(queues[s])
      /\ \A c \in Cmds : sent[c] = 0
  BY EmptyRange, Zenon DEF Init
<1>3. PlaceInv
  BY SMTT(15), <1>2 DEF PlaceInv
<1>4. Waiting = {}
  BY <1>2, WaitingIs, Zenon
<1>5. IdleInv
  BY <1>4, Zenon DEF IdleInv, Init
<1>6. RunInv
  BY Zenon DEF Init, RunInv
<1> QED BY <1>1, <1>3, <1>5, <1>6, InitPool, Zenon DEF WorkInv

(* The pool, the places of the commands, and what run() has seen stay      *)
(* consistent, whatever the client, its closures and the device do.        *)
THEOREM WorkloadConsistent == Spec => []WorkInv
<1>1. ASSUME WorkInv, [Next]_vars PROVE WorkInv'
  BY <1>1, PoolNext, WorkTypeNext, PlaceNext, IdleNext, RunNext, Zenon DEF WorkInv
<1> QED BY <1>1, InitWork, PTL DEF Spec

INSTANCE FiniteSetTheorems

(* acquire() never lends a buffer twice and none is lost, for any pool and *)
(* any number of handles.                                                  *)
THEOREM EachLentOnce == Spec => []LentOnce
<1>1. ASSUME PoolInv PROVE LentOnce
  <2> SUFFICES ASSUME NEW k \in Buffers
               PROVE  Cardinality({i \in DOMAIN free : free[i] = k})
                        + Cardinality({h \in Handles : held[h] = k}) = 1
    BY Zenon DEF LentOnce
  <2> DEFINE F == {i \in DOMAIN free : free[i] = k}
             H == {h \in Handles : held[h] = k}
  <2>1. k # 0 BY WorkloadAssumption DEF Buffers
  <2>2. DOMAIN free = 1..Len(free) BY <1>1 DEF PoolInv
  <2>3. CASE k \in Range(free)
    <3>1. PICK i \in DOMAIN free : free[i] = k BY <2>3 DEF Range
    <3>2. F = {i} BY <1>1, <2>2, <3>1 DEF PoolInv, Distinct
    <3>3. H = {} BY <1>1, <2>3 DEF PoolInv
    <3> HIDE DEF F, H
    <3>4. Cardinality(F) = 1 BY <3>2, FS_Singleton
    <3>5. Cardinality(H) = 0 BY <3>3, FS_EmptySet
    <3> QED BY <3>4, <3>5 DEF F, H
  <2>4. CASE k \notin Range(free)
    <3>1. PICK h \in Handles : held[h] = k BY <1>1, <2>4 DEF PoolInv
    <3>2. H = {h} BY <1>1, <2>1, <3>1 DEF PoolInv
    <3>3. F = {} BY <2>4 DEF Range
    <3> HIDE DEF F, H
    <3>4. Cardinality(H) = 1 BY <3>2, FS_Singleton
    <3>5. Cardinality(F) = 0 BY <3>3, FS_EmptySet
    <3> QED BY <3>4, <3>5 DEF F, H
  <2> QED BY <2>3, <2>4, Zenon
<1> QED BY <1>1, WorkloadConsistent, PTL DEF WorkInv

(* No command reaches the device twice, whatever is moved, fails midway or *)
(* is submitted again.                                                     *)
THEOREM EachSentOnce == Spec => []SentOnce
<1>1. WorkInv => SentOnce
  BY Zenon DEF WorkInv, PlaceInv, SentOnce
<1> QED BY <1>1, WorkloadConsistent, PTL

(* The rule the client keeps suffices: a buffer in the pool is not in use  *)
(* by a command whose fence someone still has.                             *)
THEOREM FreeBuffersIdle == Spec => []FreeMeansIdle
<1>1. WorkInv => FreeMeansIdle
  BY Zenon DEF WorkInv, IdleInv, FreeMeansIdle, Orphans
<1> QED BY <1>1, WorkloadConsistent, PTL

(* run() implements the round-robin dispatcher, with what the closures     *)
(* enqueue meanwhile.                                                      *)
THEOREM StreamsServedInTurn == Spec => StreamsInTurn
<1>1. Init => Abstract!Init
  BY Zenon DEF Init, Abstract!Init, Streams, Abstract!Clients
<1>2. WorkInv /\ [Next]_vars => [Abstract!Next]_(Abstract!vars)
  BY TurnStep, Zenon DEF WorkInv
<1> QED BY <1>1, <1>2, WorkloadConsistent, PTL DEF Spec, StreamsInTurn, Abstract!Spec
=============================================================================
