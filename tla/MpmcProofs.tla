----------------------------- MODULE MpmcProofs -----------------------------
(***************************************************************************)
(* Mpmc for any number of threads and tasks and any capacity: the lock-    *)
(* free queue implements BoundedQueue, no task runs twice, and none that   *)
(* was accepted is lost when the pool is destroyed.  First, how the        *)
(* sequence numbers of the cells go with the positions, and what a step    *)
(* does to the tasks; then where every task is.                            *)
(***************************************************************************)
EXTENDS Mpmc, TLAPS

MpmcPc ==
  {"idle", "push_load", "push_seq", "push_cas", "push_write", "push_store", "loop", "pop_load",
   "pop_seq", "pop_cas", "pop_read", "pop_store", "run", "count", "exit"}

MpmcType ==
  /\ enqueue_pos \in Nat /\ dequeue_pos \in Nat
  /\ sequence \in [Cells -> Nat] /\ data \in [Cells -> Tasks \cup {NoTask}]
  /\ pc \in [Threads -> MpmcPc]
  /\ pos \in [Threads -> Nat] /\ item \in [Threads -> Tasks \cup {NoTask}]
  /\ stopping \in BOOLEAN /\ completed \in Nat /\ draining \subseteq Workers
  /\ made \in 0..MaxTasks /\ accepted \subseteq Tasks /\ ran \in [Tasks -> Nat]

(* The cell of a position.                                                 *)
At(p) == p % Capacity

(* A producer that has claimed its position, a consumer that has.          *)
Writer(t) == pc[t] \in {"push_write", "push_store"}
Reader(t) == pc[t] \in {"pop_read", "pop_store"}

(* How the sequence numbers go with the positions.  Position p is filled   *)
(* when its cell's number is p + 1; the cell of the position a lap behind  *)
(* is free for it when the number is p.                                    *)
Laps ==
  /\ dequeue_pos <= enqueue_pos /\ enqueue_pos <= dequeue_pos + Capacity
  /\ \A p \in dequeue_pos..enqueue_pos - 1 :
       \/ sequence[At(p)] = p + 1
       \/ \E t \in Threads : Writer(t) /\ pos[t] = p
  /\ \A p \in enqueue_pos..dequeue_pos + Capacity - 1 : sequence[At(p)] <= p
  /\ \A p \in 0..dequeue_pos - 1 : sequence[At(p)] >= p + 1

(* A claimed position belongs to one thread, and its cell waits for it.    *)
Claims ==
  /\ \A t \in Threads : Writer(t) =>
       /\ dequeue_pos <= pos[t] /\ pos[t] < enqueue_pos
       /\ sequence[At(pos[t])] = pos[t]
  /\ \A t \in Threads : Reader(t) =>
       /\ pos[t] < dequeue_pos /\ enqueue_pos <= pos[t] + Capacity
       /\ sequence[At(pos[t])] = pos[t] + 1
  /\ \A t, u \in Threads :
       ((Writer(t) /\ Writer(u)) \/ (Reader(t) /\ Reader(u))) /\ pos[t] = pos[u] => t = u

(* What a thread about to claim a position has seen is still true unless   *)
(* another claimed it first.                                               *)
Attempt(t) ==
  /\ pc[t] \in {"push_seq", "push_cas"} => pos[t] <= enqueue_pos
  /\ pc[t] = "push_cas" /\ pos[t] = enqueue_pos => sequence[At(pos[t])] = pos[t]
  /\ pc[t] \in {"pop_seq", "pop_cas"} => pos[t] <= dequeue_pos
  /\ pc[t] = "pop_cas" /\ pos[t] = dequeue_pos => sequence[At(pos[t])] = pos[t] + 1

Attempts == \A t \in Threads : Attempt(t)

Pushing == {"push_load", "push_seq", "push_cas", "push_write", "push_store"}

(* The positions that are claimed and not popped.                          *)
Queued == dequeue_pos..enqueue_pos - 1

(* The tasks where they are expected.                                      *)
Contents ==
  /\ \A p \in Queued :
       /\ ItemAt(p) \in Tasks
       /\ sequence[At(p)] = p + 1 => ItemAt(p) \in accepted
  /\ \A t \in Threads :
       /\ pc[t] \in Pushing => item[t] \in Tasks
       /\ pc[t] = "push_store" => data[At(pos[t])] = item[t]
       /\ Reader(t) \/ pc[t] = "run" => Hand(t) \in accepted

(* The task of a thread that has not claimed a position for it yet.        *)
Early(t) == IF pc[t] \in {"push_load", "push_seq", "push_cas"} THEN item[t] ELSE NoTask

-----------------------------------------------------------------------------
(* Positions and cells                                                     *)

(* There are at least two cells.                                           *)
LEMMA CapacityType == Capacity \in Nat /\ Capacity >= 2
BY MpmcAssumption

(* A position has a cell.                                                  *)
LEMMA AtType == ASSUME NEW p \in Nat PROVE At(p) \in Cells
BY CapacityType DEF At, Cells

(* The cell a thread works on is that of its position.                     *)
LEMMA CellAt == ASSUME NEW t \in Threads PROVE Cell(t) = At(pos[t])
BY Zenon DEF At, Cell

(* A position is a number of laps and a cell.                              *)
LEMMA Division ==
  ASSUME NEW p \in Nat
  PROVE  \E a \in Nat : p = Capacity * a + At(p) /\ At(p) \in 0..Capacity - 1
<1> DEFINE a == p \div Capacity
<1>1. p = Capacity * a + At(p) /\ a \in Nat /\ At(p) \in 0..Capacity - 1
  BY CapacityType DEF At
<1> QED
  BY <1>1, Zenon

(* Two multiples of Capacity that are less than a lap apart are the same.  *)
LEMMA OneMultiple ==
  ASSUME NEW a \in Nat, NEW b \in Nat, NEW n \in Nat, n < Capacity,
         Capacity * b = Capacity * a + n
  PROVE  a = b /\ n = 0
<1> USE CapacityType
<1>1. CASE b < a
  <2>1. Capacity * (b + 1) <= Capacity * a /\ Capacity * (b + 1) = Capacity * b + Capacity
    BY <1>1
  <2> QED
    BY <2>1
<1>2. CASE b > a
  <2>1. Capacity * (a + 1) <= Capacity * b /\ Capacity * (a + 1) = Capacity * a + Capacity
    BY <1>2
  <2> QED
    BY <2>1
<1>3. CASE b = a
  BY <1>3
<1> QED
  BY <1>1, <1>2, <1>3

(* The window of Capacity positions that starts at p has one in each cell. *)
LEMMA SameCell ==
  ASSUME NEW p \in Nat, NEW q \in Nat, p <= q, q < p + Capacity, At(p) = At(q)
  PROVE  p = q
<1>1. PICK a \in Nat : p = Capacity * a + At(p) /\ At(p) \in 0..Capacity - 1
  BY Division, Zenon
<1>2. PICK b \in Nat : q = Capacity * b + At(q)
  BY Division, Zenon
<1> DEFINE x == Capacity * a
           y == Capacity * b
<1>3. x \in Nat /\ y \in Nat
  BY CapacityType
<1>4. p = x + At(p) /\ q = y + At(p) /\ At(p) \in Nat
  BY <1>1, <1>2, CapacityType
<1> HIDE DEF x, y
<1>5. q - p \in Nat /\ q - p < Capacity
  BY CapacityType
<1>6. y = x + (q - p)
  BY <1>3, <1>4
<1>7. q - p = 0
  BY <1>5, <1>6, OneMultiple, Zenon DEF x, y
<1> QED
  BY <1>7

(* A lap further is the same cell.                                         *)
LEMMA NextLap == ASSUME NEW p \in Nat PROVE At(p + Capacity) = At(p)
<1> DEFINE q == p + Capacity
           m == At(p)
           n == At(q)
<1>0. q \in Nat
  BY CapacityType
<1>1. PICK a \in Nat : p = Capacity * a + m /\ m \in 0..Capacity - 1
  BY Division, Zenon
<1> HIDE DEF q
<1>2. PICK b \in Nat : q = Capacity * b + n /\ n \in 0..Capacity - 1
  BY <1>0, Division, Zenon
<1> DEFINE x == Capacity * (a + 1)
           y == Capacity * b
<1>3. x \in Nat /\ y \in Nat /\ x = Capacity * a + Capacity
  BY CapacityType
<1>4. q = x + m /\ q = y + n
  BY <1>1, <1>2, <1>3, CapacityType DEF q
<1> HIDE DEF x, y, m, n
<1>5. CASE n <= m
  <2>1. y = x + (m - n) /\ m - n \in Nat /\ m - n < Capacity
    BY <1>1, <1>2, <1>3, <1>4, <1>5, CapacityType
  <2>2. m - n = 0
    BY <2>1, OneMultiple DEF x, y
  <2> QED
    BY <1>1, <1>2, <2>2 DEF m, n, q
<1>6. CASE n > m
  <2>1. x = y + (n - m) /\ n - m \in Nat /\ n - m < Capacity
    BY <1>1, <1>2, <1>3, <1>4, <1>6, CapacityType
  <2>2. n - m = 0
    BY <2>1, OneMultiple DEF x, y
  <2> QED
    BY <1>1, <1>2, <1>6, <2>2
<1> QED
  BY <1>1, <1>2, <1>5, <1>6

-----------------------------------------------------------------------------
(* Each position is filled once and emptied once                           *)

Order == Laps /\ Claims /\ Attempts

(* A step that claims no position and stores no sequence number.           *)
LEMMA QuietStep ==
  ASSUME MpmcType, Order, UNCHANGED <<enqueue_pos, dequeue_pos, sequence>>, NEW t \in Threads,
         \A u \in Threads \ {t} : pc'[u] = pc[u] /\ pos'[u] = pos[u],
         Writer(t)' <=> Writer(t), Reader(t)' <=> Reader(t),
         Writer(t) \/ Reader(t) => pos'[t] = pos[t],
         Attempt(t)'
  PROVE  Order'
<1>1. \A u \in Threads : /\ Writer(u)' <=> Writer(u)
                         /\ Reader(u)' <=> Reader(u)
                         /\ Writer(u) \/ Reader(u) => pos'[u] = pos[u]
  BY Zenon DEF Writer, Reader
<1>2. Laps'
  BY <1>1 DEF Order, Laps
<1>3. Claims'
  BY <1>1 DEF Order, Claims
<1>4. Attempts'
  BY Zenon DEF Order, Attempts, Attempt
<1> QED
  BY <1>2, <1>3, <1>4, Zenon DEF Order

(* A producer claims the next position, whose cell it has seen free.       *)
LEMMA PushCasOrder == ASSUME MpmcType, Order, NEW t \in Threads, PushCas(t) PROVE Order'
<1> DEFINE e == enqueue_pos
           d == dequeue_pos
<1> /\ e \in Nat /\ d \in Nat /\ sequence \in [Cells -> Nat]
    /\ pc \in [Threads -> MpmcPc] /\ pos \in [Threads -> Nat] /\ Capacity \in Nat /\ Capacity >= 2
  BY CapacityType, Zenon DEF MpmcType
<1> /\ pos[t] = e /\ pc[t] = "push_cas" /\ pc' = [pc EXCEPT ![t] = "push_write"]
    /\ enqueue_pos' = e + 1 /\ UNCHANGED <<dequeue_pos, sequence, pos>>
  BY Zenon DEF PushCas, Goto
<1> sequence[At(e)] = e
  BY Zenon DEF Order, Attempts, Attempt
<1>3. e < d + Capacity
  <2> SUFFICES ASSUME e = d + Capacity PROVE FALSE
    BY DEF Order, Laps
  <2>1. At(e) = At(d) /\ d \in d..e - 1
    BY NextLap
  <2>2. sequence[At(d)] \in {d, d + 1}
    BY <2>1, Zenon DEF Order, Laps, Claims
  <2> QED
    BY <2>1, <2>2
<1>4. /\ \A u \in Threads : Writer(u)' <=> Writer(u) \/ u = t
      /\ \A u \in Threads : Reader(u)' <=> Reader(u)
      /\ ~ Writer(t) /\ ~ Reader(t)
  BY Zenon DEF Writer, Reader
<1>5. ASSUME NEW u \in Threads, Reader(u) PROVE e + 1 <= pos[u] + Capacity
  <2>1. CASE e = pos[u] + Capacity
    BY <1>5, <2>1, NextLap DEF Order, Claims
  <2> QED
    BY <1>5, <2>1 DEF Order, Claims
<1>6. Laps'
  BY <1>3, <1>4 DEF Order, Laps
<1>7. Claims'
  BY <1>4, <1>5 DEF Order, Laps, Claims
<1>8. Attempts'
  BY DEF Order, Attempts, Attempt
<1> QED
  BY <1>6, <1>7, <1>8, Zenon DEF Order

(* A consumer claims the oldest position, which it has seen filled.        *)
LEMMA PopCasOrder == ASSUME MpmcType, Order, NEW t \in Threads, PopCas(t) PROVE Order'
<1> DEFINE e == enqueue_pos
           d == dequeue_pos
<1> /\ e \in Nat /\ d \in Nat /\ sequence \in [Cells -> Nat]
    /\ pc \in [Threads -> MpmcPc] /\ pos \in [Threads -> Nat] /\ Capacity \in Nat /\ Capacity >= 2
  BY CapacityType, Zenon DEF MpmcType
<1> /\ pos[t] = d /\ pc[t] = "pop_cas" /\ pc' = [pc EXCEPT ![t] = "pop_read"]
    /\ dequeue_pos' = d + 1 /\ UNCHANGED <<enqueue_pos, sequence, pos>>
  BY Zenon DEF PopCas, Goto
<1> sequence[At(d)] = d + 1
  BY Zenon DEF Order, Attempts, Attempt
<1> d < e
  BY DEF Order, Laps
<1>4. /\ \A u \in Threads : Reader(u)' <=> Reader(u) \/ u = t
      /\ \A u \in Threads : Writer(u)' <=> Writer(u)
      /\ ~ Writer(t) /\ ~ Reader(t)
  BY Zenon DEF Writer, Reader
<1>5. At(d + Capacity) = At(d)
  BY NextLap, Zenon
<1>6. Laps'
  BY <1>4, <1>5 DEF Order, Laps
<1>7. Claims'
  BY <1>4 DEF Order, Laps, Claims
<1>8. Attempts'
  BY DEF Order, Attempts, Attempt
<1> QED
  BY <1>6, <1>7, <1>8, Zenon DEF Order

(* A producer hands its cell over.                                         *)
LEMMA PushStoreOrder == ASSUME MpmcType, Order, NEW t \in Threads, PushStore(t) PROVE Order'
<1> DEFINE e == enqueue_pos
           d == dequeue_pos
           n == pos[t]
<1> /\ e \in Nat /\ d \in Nat /\ sequence \in [Cells -> Nat] /\ n \in Nat
    /\ pc \in [Threads -> MpmcPc] /\ pos \in [Threads -> Nat] /\ Capacity \in Nat /\ Capacity >= 2
  BY CapacityType, Zenon DEF MpmcType
<1> /\ pc[t] = "push_store" /\ pc' = [pc EXCEPT ![t] = IF t \in Workers THEN "count" ELSE "idle"]
    /\ pos' = [pos EXCEPT ![t] = 0] /\ UNCHANGED <<enqueue_pos, dequeue_pos>>
    /\ sequence' = [sequence EXCEPT ![At(n)] = n + 1]
  BY CellAt, Zenon DEF PushStore, PushReturns, Goto
<1>2. /\ \A p \in Nat : At(p) \in Cells
      /\ \A p \in Nat : sequence'[At(p)] = IF At(p) = At(n) THEN n + 1 ELSE sequence[At(p)]
  BY AtType, Zenon
<1> d <= n /\ n < e /\ e <= d + Capacity /\ sequence[At(n)] = n
  BY Zenon DEF Order, Laps, Claims, Writer
<1>4. \A p \in Nat : p # n /\ d <= p /\ p < d + Capacity => At(p) # At(n)
  BY SameCell
<1>5. /\ \A u \in Threads : Writer(u)' <=> Writer(u) /\ u # t
      /\ \A u \in Threads : Reader(u)' <=> Reader(u)
      /\ Writer(t) /\ ~ Reader(t)
      /\ \A u \in Threads \ {t} : pos'[u] = pos[u]
  BY Zenon DEF Writer, Reader
<1>6. Laps'
  <2>1. ASSUME NEW p \in d..e - 1
        PROVE  sequence'[At(p)] = p + 1 \/ \E u \in Threads : Writer(u)' /\ pos'[u] = p
    BY <1>2, <1>4, <1>5 DEF Order, Laps
  <2>2. ASSUME NEW p \in e..d + Capacity - 1 PROVE sequence'[At(p)] <= p
    BY <1>2, <1>4 DEF Order, Laps
  <2>3. ASSUME NEW p \in 0..d - 1 PROVE sequence'[At(p)] >= p + 1
    BY <1>2 DEF Order, Laps
  <2> QED
    BY <2>1, <2>2, <2>3 DEF Laps
<1>7. ASSUME NEW u \in Threads, Reader(u) PROVE At(pos[u]) # At(n)
  BY <1>7, SameCell DEF Order, Claims
<1>8. Claims'
  BY <1>2, <1>4, <1>5, <1>7 DEF Order, Claims
<1>9. ASSUME NEW u \in Threads, u # t PROVE Attempt(u)'
  BY <1>2, <1>4, <1>9 DEF Order, Attempts, Attempt
<1>10. Attempt(t)'
  BY Zenon DEF Attempt
<1> QED
  BY <1>6, <1>8, <1>9, <1>10, Zenon DEF Order, Attempts

(* A consumer frees its cell for the next lap.                             *)
LEMMA PopStoreOrder == ASSUME MpmcType, Order, NEW t \in Threads, PopStore(t) PROVE Order'
<1> DEFINE e == enqueue_pos
           d == dequeue_pos
           n == pos[t]
<1> /\ e \in Nat /\ d \in Nat /\ sequence \in [Cells -> Nat] /\ n \in Nat
    /\ pc \in [Threads -> MpmcPc] /\ pos \in [Threads -> Nat] /\ Capacity \in Nat /\ Capacity >= 2
  BY CapacityType, Zenon DEF MpmcType
<1> /\ pc[t] = "pop_store" /\ pc' = [pc EXCEPT ![t] = "run"]
    /\ pos' = [pos EXCEPT ![t] = 0] /\ UNCHANGED <<enqueue_pos, dequeue_pos>>
    /\ sequence' = [sequence EXCEPT ![At(n)] = n + Capacity]
  BY CellAt, Zenon DEF PopStore, Goto
<1>2. /\ \A p \in Nat : At(p) \in Cells
      /\ \A p \in Nat : sequence'[At(p)] = IF At(p) = At(n) THEN n + Capacity ELSE sequence[At(p)]
  BY AtType, Zenon
<1> /\ n < d /\ d <= e /\ e <= n + Capacity /\ e <= d + Capacity
    /\ sequence[At(n)] = n + 1
  BY Zenon DEF Order, Laps, Claims, Reader
<1>4. \A p \in Nat : p # n /\ e <= p + Capacity /\ p < e => At(p) # At(n)
  BY SameCell
<1>5. ASSUME NEW p \in Nat, e <= p, p < d + Capacity, At(p) = At(n) PROVE p = n + Capacity
  <2>1. n + Capacity \in Nat /\ At(n + Capacity) = At(p)
    BY <1>5, NextLap
  <2> QED
    BY <1>5, <2>1, SameCell
<1>6. /\ \A u \in Threads : Reader(u)' <=> Reader(u) /\ u # t
      /\ \A u \in Threads : Writer(u)' <=> Writer(u)
      /\ ~ Writer(t) /\ Reader(t)
      /\ \A u \in Threads \ {t} : pos'[u] = pos[u]
  BY Zenon DEF Writer, Reader
<1>7. Laps'
  BY <1>2, <1>4, <1>5, <1>6 DEF Order, Laps
<1>8. Claims'
  BY <1>2, <1>4, <1>6 DEF Order, Claims
<1>9. ASSUME NEW u \in Threads, u # t PROVE Attempt(u)'
  BY <1>2, <1>4, <1>5, <1>9 DEF Order, Attempts, Attempt
<1>10. Attempt(t)'
  BY Zenon DEF Attempt
<1> QED
  BY <1>7, <1>8, <1>9, <1>10, Zenon DEF Order, Attempts

(* Every step keeps the sequence numbers in order.                         *)
LEMMA OrderStep == ASSUME MpmcType, Order, [Next]_vars PROVE Order'
<1> /\ enqueue_pos \in Nat /\ dequeue_pos \in Nat /\ sequence \in [Cells -> Nat]
    /\ pc \in [Threads -> MpmcPc] /\ pos \in [Threads -> Nat]
  BY Zenon DEF MpmcType
<1>1. ASSUME NEW t \in Threads, PushLoad(t) \/ PushCasFails(t) \/ PopLoad(t) \/ PopCasFails(t)
      PROVE  Order'
  BY <1>1, QuietStep DEF PushLoad, PushCasFails, PopLoad, PopCasFails, Goto, queueVars, Writer, Reader,
                         Attempt
<1>2. ASSUME NEW t \in Threads, PushSeq(t) PROVE Order'
  <2>1. Attempt(t)
    BY Zenon DEF Order, Attempts
  <2>2. /\ UNCHANGED <<enqueue_pos, dequeue_pos, sequence>> /\ pc[t] = "push_seq"
        /\ \A u \in Threads \ {t} : pc'[u] = pc[u] /\ pos'[u] = pos[u]
        /\ \/ pc'[t] = "push_cas" /\ pos'[t] = pos[t] /\ sequence[At(pos[t])] - pos[t] = 0
           \/ pc'[t] \in {"push_load", "count", "idle"}
    BY <1>2, CellAt, Zenon DEF PushSeq, PushReturns, Goto, queueVars
  <2>3. Attempt(t)'
    <3>1. sequence[At(pos[t])] \in Nat
      BY AtType, Zenon
    <3> QED
      BY <2>1, <2>2, <3>1 DEF Attempt
  <2> QED
    BY <2>2, <2>3, QuietStep, Zenon DEF Writer, Reader
<1>3. ASSUME NEW t \in Threads, PopSeq(t) PROVE Order'
  <2>1. Attempt(t)
    BY Zenon DEF Order, Attempts
  <2>2. /\ UNCHANGED <<enqueue_pos, dequeue_pos, sequence>> /\ pc[t] = "pop_seq"
        /\ \A u \in Threads \ {t} : pc'[u] = pc[u] /\ pos'[u] = pos[u]
        /\ \/ pc'[t] = "pop_cas" /\ pos'[t] = pos[t] /\ sequence[At(pos[t])] - (pos[t] + 1) = 0
           \/ pc'[t] \in {"pop_load", "loop", "exit"}
    BY <1>3, CellAt, Zenon DEF PopSeq, PopFails, Goto, queueVars
  <2>3. Attempt(t)'
    <3>1. sequence[At(pos[t])] \in Nat
      BY AtType, Zenon
    <3> QED
      BY <2>1, <2>2, <3>1 DEF Attempt
  <2> QED
    BY <2>2, <2>3, QuietStep, Zenon DEF Writer, Reader
<1>4. ASSUME NEW t \in Threads, PushWrite(t) \/ PopRead(t) PROVE Order'
  BY <1>4, QuietStep, Zenon DEF PushWrite, PopRead, Goto, Writer, Reader, Attempt
<1>5. ASSUME NEW t \in Threads, Submit(t) \/ WorkerLoop(t) \/ RunTask(t) \/ CountTask(t) PROVE Order'
  BY <1>5, QuietStep, Zenon DEF Submit, WorkerLoop, RunTask, CountTask, Goto, queueVars, Writer,
     Reader, Attempt
<1>6. CASE UNCHANGED <<queueVars, pc, pos>>
  BY <1>6 DEF Order, Laps, Claims, Attempts, Attempt, Writer, Reader, queueVars
<1>7. Stop \/ UNCHANGED vars => UNCHANGED <<queueVars, pc, pos>>
  BY Zenon DEF Stop, vars
<1>8. ASSUME NEW t \in Threads, Push(t) PROVE Order'
  BY <1>1, <1>2, <1>4, <1>8, PushCasOrder, PushStoreOrder, Zenon DEF Push
<1>9. ASSUME NEW t \in Threads, Pop(t) PROVE Order'
  BY <1>1, <1>3, <1>4, <1>9, PopCasOrder, PopStoreOrder, Zenon DEF Pop
<1> QED
  BY <1>5, <1>6, <1>7, <1>8, <1>9, Zenon DEF Next, Work, Threads

(* Every step keeps the types.                                             *)
LEMMA TypeStep == ASSUME MpmcType, Contents, [Next]_vars PROVE MpmcType'
<1> USE DEF MpmcType
<1>1. ASSUME NEW t \in Threads, PushLoad(t) \/ PushSeq(t) \/ PushCasFails(t) PROVE MpmcType'
  BY <1>1 DEF PushLoad, PushSeq, PushCasFails, PushReturns, Goto, queueVars, poolVars, taskVars, MpmcPc
<1>2. ASSUME NEW t \in Threads, PushCas(t) \/ PushWrite(t) PROVE MpmcType'
  BY <1>2 DEF PushCas, PushWrite, Goto, poolVars, taskVars, MpmcPc
<1>3. ASSUME NEW t \in Threads, PushStore(t) PROVE MpmcType'
  <2>1. item[t] \in Tasks
    BY <1>3, Zenon DEF PushStore, PushReturns, Goto, Contents, Pushing
  <2>2. /\ pc' \in [Threads -> MpmcPc] /\ pos' \in [Threads -> Nat]
        /\ item' \in [Threads -> Tasks \cup {NoTask}]
    BY <1>3, Zenon DEF PushStore, PushReturns, Goto, MpmcPc
  <2>3. sequence' \in [Cells -> Nat]
    <3>1. pos[t] + 1 \in Nat /\ sequence' = [sequence EXCEPT ![Cell(t)] = pos[t] + 1]
      BY <1>3 DEF PushStore
    <3> HIDE DEF MpmcType
    <3>2. sequence \in [Cells -> Nat]
      BY Zenon DEF MpmcType
    <3> QED
      BY <3>1, <3>2, Zenon
  <2> QED
    BY <1>3, <2>1, <2>2, <2>3, Zenon DEF PushStore, poolVars
<1>4. ASSUME NEW t \in Threads, PopLoad(t) \/ PopSeq(t) \/ PopCasFails(t) PROVE MpmcType'
  BY <1>4 DEF PopLoad, PopSeq, PopCasFails, PopFails, Goto, queueVars, poolVars, taskVars, MpmcPc
<1>5. ASSUME NEW t \in Threads, PopCas(t) \/ PopStore(t) PROVE MpmcType'
  BY <1>5, CapacityType DEF PopCas, PopStore, Goto, poolVars, taskVars, MpmcPc
<1>6. ASSUME NEW t \in Threads, PopRead(t) PROVE MpmcType'
  <2>1. Cell(t) \in Cells
    BY AtType, CellAt
  <2> QED
    BY <1>6, <2>1, Zenon DEF PopRead, Goto, poolVars, taskVars, MpmcPc
<1>7. ASSUME NEW t \in Threads, Submit(t) PROVE MpmcType'
  BY <1>7, MpmcAssumption DEF Submit, Goto, queueVars, poolVars, MpmcPc, Tasks
<1>8. ASSUME NEW w \in Workers, WorkerLoop(w) \/ CountTask(w) PROVE MpmcType'
  BY <1>8 DEF WorkerLoop, CountTask, Goto, queueVars, poolVars, taskVars, MpmcPc, Threads
<1>9. ASSUME NEW w \in Workers, RunTask(w) PROVE MpmcType'
  <2>1. item[w] \in Tasks
    BY <1>9, Zenon DEF RunTask, Contents, Hand, Threads
  <2>2. ran' \in [Tasks -> Nat]
    BY <1>9, <2>1 DEF RunTask
  <2>3. pc' \in [Threads -> MpmcPc]
    BY <1>9, Zenon DEF RunTask, Goto, MpmcPc
  <2>4. made' \in 0..MaxTasks /\ item' \in [Threads -> Tasks \cup {NoTask}]
    <3>1. made < MaxTasks => made + 1 \in Tasks /\ made + 1 \in 0..MaxTasks
      BY MpmcAssumption DEF Tasks
    <3> QED
      BY <1>9, <3>1, Zenon DEF RunTask
  <2> QED
    BY <1>9, <2>2, <2>3, <2>4, Zenon DEF RunTask, queueVars, poolVars
<1>10. CASE Stop \/ UNCHANGED vars
  BY <1>10, Zenon DEF Stop, vars, queueVars, poolVars, taskVars
<1> HIDE DEF MpmcType
<1> QED
  BY <1>1, <1>2, <1>3, <1>4, <1>5, <1>6, <1>7, <1>8, <1>9, <1>10, Zenon DEF Next, Work, Push, Pop,
     Threads

(* In the new queue cell i waits for position i.                           *)
LEMMA InitOrder == Init => MpmcType /\ Order
<1> SUFFICES ASSUME Init PROVE MpmcType /\ Order
  BY Zenon
<1>1. MpmcType
  <2>1. /\ enqueue_pos \in Nat /\ dequeue_pos \in Nat /\ completed \in Nat /\ made \in 0..MaxTasks
        /\ sequence \in [Cells -> Nat] /\ pos \in [Threads -> Nat] /\ ran \in [Tasks -> Nat]
    BY CapacityType, MpmcAssumption DEF Init, Cells
  <2>2. /\ data \in [Cells -> Tasks \cup {NoTask}] /\ item \in [Threads -> Tasks \cup {NoTask}]
        /\ stopping \in BOOLEAN /\ draining \subseteq Workers /\ accepted \subseteq Tasks
    BY Zenon DEF Init
  <2>3. pc \in [Threads -> MpmcPc]
    BY Zenon DEF Init, MpmcPc
  <2> QED
    BY <2>1, <2>2, <2>3, Zenon DEF MpmcType
<1>2. Laps
  <2>1. ASSUME NEW p \in 0..Capacity - 1 PROVE At(p) = p
    <3>1. p \in Nat /\ At(p) \in Nat /\ At(p) < Capacity /\ p < Capacity
      BY CapacityType, AtType DEF Cells
    <3> QED
      BY <3>1, CapacityType DEF At
  <2> QED
    BY <2>1, CapacityType DEF Init, Laps, Cells
<1>3. Claims /\ Attempts
  BY Zenon DEF Init, Claims, Attempts, Attempt, Writer, Reader
<1> QED
  BY <1>1, <1>2, <1>3, Zenon DEF Order

-----------------------------------------------------------------------------
(* Where the tasks are                                                     *)

(* The item of a position is that of its writer, or what is in its cell.   *)
LEMMA ItemOfWriter ==
  ASSUME Claims, NEW t \in Threads, pc[t] = "push_write" PROVE ItemAt(pos[t]) = item[t]
<1> DEFINE writers == {u \in Threads : pc[u] = "push_write" /\ pos[u] = pos[t]}
<1>1. writers = {t}
  BY Zenon DEF Claims, Writer
<1>2. ItemAt(pos[t]) = item[CHOOSE u \in writers : TRUE]
  BY <1>1, Zenon DEF ItemAt
<1>3. (CHOOSE u \in writers : TRUE) = t
  BY <1>1, Zenon
<1> QED
  BY <1>2, <1>3, Zenon

(* The same for a producer that has just claimed its position.             *)
LEMMA ItemOfNewWriter ==
  ASSUME Claims', NEW t \in Threads, pc'[t] = "push_write" PROVE ItemAt(pos[t])' = item'[t]
<1> DEFINE writers == {u \in Threads : pc'[u] = "push_write" /\ pos'[u] = pos'[t]}
<1>1. writers = {t}
  BY Zenon DEF Claims, Writer
<1>2. ItemAt(pos[t])' = item'[CHOOSE u \in writers : TRUE]
  BY <1>1, Zenon DEF ItemAt
<1>3. (CHOOSE u \in writers : TRUE) = t
  BY <1>1, Zenon
<1> QED
  BY <1>2, <1>3, Zenon

(* Any other position has its item in its cell.                            *)
LEMMA ItemInCell ==
  ASSUME NEW p \in Nat, \A u \in Threads : ~ (pc[u] = "push_write" /\ pos[u] = p)
  PROVE  ItemAt(p) = data[At(p)]
BY Zenon DEF ItemAt, At

(* A step that leaves a cell and its producer alone leaves its item.       *)
LEMMA ItemSame ==
  ASSUME NEW p \in Nat, NEW t \in Threads, data'[At(p)] = data[At(p)],
         \A u \in Threads \ {t} : pc'[u] = pc[u] /\ pos'[u] = pos[u] /\ item'[u] = item[u],
         ~ (pc[t] = "push_write" /\ pos[t] = p), ~ (pc'[t] = "push_write" /\ pos'[t] = p)
  PROVE  ItemAt(p)' = ItemAt(p)
<1> DEFINE before == {u \in Threads : pc[u] = "push_write" /\ pos[u] = p}
           after == {u \in Threads : pc'[u] = "push_write" /\ pos'[u] = p}
<1>1. after = before /\ t \notin before
  BY Zenon
<1>2. CASE before = {}
  BY <1>1, <1>2, Zenon DEF ItemAt, At
<1>3. CASE before # {}
  <2> DEFINE u == CHOOSE v \in before : TRUE
  <2>1. u \in before
    BY <1>3, Zenon
  <2>2. ItemAt(p) = item[u] /\ ItemAt(p)' = item'[u]
    BY <1>1, <1>3, Zenon DEF ItemAt
  <2> QED
    BY <1>1, <2>1, <2>2, Zenon
<1> QED
  BY <1>2, <1>3, Zenon

(* Only the thread itself moves.                                           *)
Only(t) ==
  \A u \in Threads \ {t} : pc'[u] = pc[u] /\ pos'[u] = pos[u] /\ item'[u] = item[u]

(* A step of a thread changes the locals of no other.                      *)
LEMMA OnlyOne ==
  ASSUME MpmcType, NEW t \in Threads,
         \/ Push(t) \/ Pop(t) \/ Submit(t) \/ WorkerLoop(t) \/ RunTask(t) \/ CountTask(t)
  PROVE  Only(t)
<1> /\ pc \in [Threads -> MpmcPc] /\ pos \in [Threads -> Nat]
    /\ item \in [Threads -> Tasks \cup {NoTask}]
  BY Zenon DEF MpmcType
<1>1. CASE Push(t)
  BY <1>1, Zenon DEF Push, PushLoad, PushSeq, PushCas, PushCasFails, PushWrite, PushStore,
     PushReturns, Goto,
              Only
<1>2. CASE Pop(t)
  BY <1>2, Zenon DEF Pop, PopLoad, PopSeq, PopFails, PopCas, PopCasFails, PopRead, PopStore, Goto, Only
<1>3. CASE Submit(t) \/ WorkerLoop(t) \/ RunTask(t) \/ CountTask(t)
  BY <1>3, Zenon DEF Submit, WorkerLoop, RunTask, CountTask, Goto, Only
<1> QED
  BY <1>1, <1>2, <1>3, Zenon

(* A queued item stays at its position until it is popped.                 *)
ItemsStay == \A p \in Queued : ItemAt(p)' = ItemAt(p)

(* Writing the cell moves the item from the hand to the cell.              *)
LEMMA WriteKeepsItems ==
  ASSUME MpmcType, Order, Order', NEW t \in Threads, PushWrite(t) PROVE ItemsStay
<1> SUFFICES ASSUME NEW p \in dequeue_pos..enqueue_pos - 1 PROVE ItemAt(p)' = ItemAt(p)
  BY Zenon DEF ItemsStay, Queued
<1> /\ enqueue_pos \in Nat /\ dequeue_pos \in Nat /\ p \in Nat /\ pos[t] \in Nat
    /\ data \in [Cells -> Tasks \cup {NoTask}] /\ pc \in [Threads -> MpmcPc]
    /\ Capacity \in Nat
  BY CapacityType DEF MpmcType
<1>1. /\ pc[t] = "push_write" /\ pc' = [pc EXCEPT ![t] = "push_store"]
      /\ data' = [data EXCEPT ![At(pos[t])] = item[t]]
      /\ UNCHANGED <<enqueue_pos, dequeue_pos, pos, item>>
  BY CellAt, Zenon DEF PushWrite, Goto
<1>2. /\ dequeue_pos <= pos[t] /\ pos[t] < enqueue_pos /\ enqueue_pos <= dequeue_pos + Capacity
  BY <1>1, Zenon DEF Order, Claims, Laps, Writer
<1>3. CASE p = pos[t]
  <2>1. ItemAt(p) = item[t]
    BY <1>1, <1>3, ItemOfWriter, Zenon DEF Order
  <2>2. \A u \in Threads : ~ (pc'[u] = "push_write" /\ pos'[u] = p)
    BY <1>1, <1>3, Zenon DEF Order, Claims, Writer
  <2>3. ItemAt(p)' = data'[At(p)]
    BY <2>2, Zenon DEF ItemAt, At
  <2> QED
    BY <1>1, <1>3, <2>1, <2>3, AtType, Zenon
<1>4. CASE p # pos[t]
  <2>1. At(p) # At(pos[t])
    BY <1>2, <1>4, SameCell
  <2> QED
    BY <1>1, <1>4, <2>1, ItemSame, AtType, Zenon
<1> QED
  BY <1>3, <1>4, Zenon

(* Reading a cell empties one that is no longer queued.                    *)
LEMMA ReadKeepsItems ==
  ASSUME MpmcType, Order, NEW t \in Threads, PopRead(t) PROVE ItemsStay
<1> SUFFICES ASSUME NEW p \in dequeue_pos..enqueue_pos - 1 PROVE ItemAt(p)' = ItemAt(p)
  BY Zenon DEF ItemsStay, Queued
<1> /\ enqueue_pos \in Nat /\ dequeue_pos \in Nat /\ p \in Nat /\ pos[t] \in Nat
    /\ data \in [Cells -> Tasks \cup {NoTask}] /\ pc \in [Threads -> MpmcPc]
    /\ Capacity \in Nat
  BY CapacityType DEF MpmcType
<1>1. /\ pc[t] = "pop_read" /\ pc'[t] = "pop_store"
      /\ data' = [data EXCEPT ![At(pos[t])] = NoTask]
  BY CellAt, Zenon DEF PopRead, Goto
<1>2. Only(t)
  BY OnlyOne, Zenon DEF Pop
<1>3. pos[t] < dequeue_pos /\ enqueue_pos <= pos[t] + Capacity
  BY <1>1, Zenon DEF Order, Claims, Reader
<1>4. At(p) # At(pos[t])
  BY <1>3, SameCell
<1> QED
  BY <1>1, <1>2, <1>4, ItemSame, AtType, Zenon DEF Only

(* No step changes the item of a position that stays queued.               *)
LEMMA ItemsStayStep == ASSUME MpmcType, Order, Order', [Next]_vars PROVE ItemsStay
<1> /\ enqueue_pos \in Nat /\ dequeue_pos \in Nat
    /\ pc \in [Threads -> MpmcPc] /\ pos \in [Threads -> Nat]
  BY Zenon DEF MpmcType
<1>1. ASSUME NEW t \in Threads, Only(t), UNCHANGED data, pc[t] # "push_write",
             pc'[t] = "push_write" => pos'[t] >= enqueue_pos
      PROVE  ItemsStay
  BY <1>1, ItemSame DEF ItemsStay, Queued, Only
<1>2. ASSUME NEW t \in Threads, PushLoad(t) \/ PushSeq(t) \/ PushCas(t) \/ PushCasFails(t) \/ PushStore(t)
      PROVE  ItemsStay
  <2>1. /\ UNCHANGED data /\ pc[t] # "push_write"
        /\ pc'[t] = "push_write" => pos'[t] >= enqueue_pos
    BY <1>2 DEF PushLoad, PushSeq, PushCas, PushCasFails, PushStore, PushReturns, Goto, queueVars
  <2> QED
    BY <1>1, <1>2, <2>1, OnlyOne, Zenon DEF Push
<1>3. ASSUME NEW t \in Threads, PopLoad(t) \/ PopSeq(t) \/ PopCas(t) \/ PopCasFails(t) \/ PopStore(t)
      PROVE  ItemsStay
  <2>1. UNCHANGED data /\ pc[t] # "push_write" /\ pc'[t] # "push_write"
    BY <1>3, Zenon DEF PopLoad, PopSeq, PopFails, PopCas, PopCasFails, PopStore, Goto, queueVars
  <2> QED
    BY <1>1, <1>3, <2>1, OnlyOne, Zenon DEF Pop
<1>4. ASSUME NEW t \in Threads, Submit(t) \/ WorkerLoop(t) \/ RunTask(t) \/ CountTask(t)
      PROVE  ItemsStay
  <2>1. UNCHANGED data /\ pc[t] # "push_write" /\ pc'[t] # "push_write"
    BY <1>4, Zenon DEF Submit, WorkerLoop, RunTask, CountTask, Goto, queueVars
  <2> QED
    BY <1>1, <1>4, <2>1, OnlyOne, Zenon
<1>5. CASE Stop \/ UNCHANGED vars
  <2>1. UNCHANGED <<data, pc, pos, item>>
    BY <1>5, Zenon DEF Stop, vars, queueVars
  <2> QED
    BY <2>1 DEF ItemsStay, Queued, ItemAt
<1>6. ASSUME NEW t \in Threads, Push(t) \/ Pop(t) PROVE ItemsStay
  BY <1>2, <1>3, <1>6, WriteKeepsItems, ReadKeepsItems, Zenon DEF Push, Pop
<1> QED
  BY <1>4, <1>5, <1>6, Zenon DEF Next, Work, Threads

(* What a step of t does to the tasks: nothing (or try_push() gives up),   *)
(* it puts its task in the queue, takes the oldest, is given a new one, or *)
(* runs the one it has, which may submit another.                          *)
Stays(t) ==
  /\ Hand(t)' = Hand(t) /\ Early(t)' \in {Early(t), NoTask}
  /\ UNCHANGED <<enqueue_pos, dequeue_pos, made, ran>>

Puts(t) ==
  /\ pc[t] = "push_cas"
  /\ Early(t) = item[t] /\ Early(t)' = NoTask /\ Hand(t)' = Hand(t)
  /\ enqueue_pos' = enqueue_pos + 1 /\ \A p \in {enqueue_pos} : ItemAt(p)' = Early(t)
  /\ UNCHANGED <<dequeue_pos, made, ran>>

Takes(t) ==
  /\ Hand(t) = NoTask /\ Hand(t)' = ItemAt(dequeue_pos) /\ Early(t)' = Early(t)
  /\ dequeue_pos < enqueue_pos /\ dequeue_pos' = dequeue_pos + 1
  /\ sequence[At(dequeue_pos)] = dequeue_pos + 1
  /\ UNCHANGED <<enqueue_pos, made, ran>>

Fresh(t) == made < MaxTasks /\ made' = made + 1 /\ Early(t)' = made + 1

Offers(t) ==
  /\ Early(t) = NoTask /\ Fresh(t) /\ Hand(t)' = Hand(t)
  /\ UNCHANGED <<enqueue_pos, dequeue_pos, ran>>

Runs(t) ==
  /\ pc[t] = "run"
  /\ Hand(t) = item[t] /\ Hand(t)' = NoTask /\ Early(t) = NoTask
  /\ ran' = [ran EXCEPT ![item[t]] = @ + 1]
  /\ (Early(t)' = NoTask /\ UNCHANGED made) \/ Fresh(t)
  /\ UNCHANGED <<enqueue_pos, dequeue_pos>>

(* The task a consumer has, by its place in the code,                      *)
LEMMA HandIs ==
  ASSUME NEW t \in Threads
  PROVE  Hand(t) = IF pc[t] = "pop_read" THEN data[At(pos[t])]
                   ELSE IF pc[t] \in {"pop_store", "run"} THEN item[t] ELSE NoTask
BY CellAt, Zenon DEF Hand

(* and after a step.                                                       *)
LEMMA HandWillBe ==
  ASSUME NEW t \in Threads
  PROVE  Hand(t)' = IF pc'[t] = "pop_read" THEN data'[At(pos'[t])]
                    ELSE IF pc'[t] \in {"pop_store", "run"} THEN item'[t] ELSE NoTask
BY Zenon DEF Hand, Cell, At

(* What is in the cell of another thread stays there.                      *)
LEMMA CellKept ==
  ASSUME MpmcType, Order, NEW t \in Threads, NEW u \in Threads \ {t}, pc[u] \in {"push_store", "pop_read"},
         \/ Push(t) \/ Pop(t) \/ Submit(t) \/ WorkerLoop(t) \/ RunTask(t) \/ CountTask(t)
  PROVE  data'[At(pos[u])] = data[At(pos[u])]
<1> /\ pos[u] \in Nat /\ pos[t] \in Nat /\ Capacity \in Nat /\ dequeue_pos \in Nat /\ enqueue_pos \in Nat
    /\ data \in [Cells -> Tasks \cup {NoTask}]
    /\ dequeue_pos <= enqueue_pos /\ enqueue_pos <= dequeue_pos + Capacity
  BY CapacityType, Zenon DEF MpmcType, Order, Laps
<1> \/ dequeue_pos <= pos[u] /\ pos[u] < enqueue_pos
    \/ pos[u] < dequeue_pos /\ enqueue_pos <= pos[u] + Capacity
  BY Zenon DEF Order, Claims, Writer, Reader
<1>1. CASE PushWrite(t)
  <2>1. dequeue_pos <= pos[t] /\ pos[t] < enqueue_pos /\ pos[t] # pos[u]
    BY <1>1 DEF Order, Claims, Writer, Reader, PushWrite, Goto
  <2>2. At(pos[u]) # At(pos[t])
    BY <2>1, SameCell
  <2> QED
    BY <1>1, <2>2, CellAt DEF PushWrite
<1>2. CASE PopRead(t)
  <2>1. pos[t] < dequeue_pos /\ enqueue_pos <= pos[t] + Capacity /\ pos[t] # pos[u]
    BY <1>2 DEF Order, Claims, Writer, Reader, PopRead, Goto
  <2>2. At(pos[u]) # At(pos[t])
    BY <2>1, SameCell
  <2> QED
    BY <1>2, <2>2, CellAt DEF PopRead
<1>3. PushWrite(t) \/ PopRead(t) \/ UNCHANGED data
  BY Zenon DEF Push, PushLoad, PushSeq, PushCas, PushCasFails, PushStore, Pop, PopLoad, PopSeq, PopCas,
               PopCasFails, PopStore, Submit, WorkerLoop, RunTask, CountTask, queueVars
<1> QED
  BY <1>1, <1>2, <1>3, Zenon

(* Nobody else's task moves.                                               *)
LEMMA OthersStay ==
  ASSUME MpmcType, Order, NEW t \in Threads,
         \/ Push(t) \/ Pop(t) \/ Submit(t) \/ WorkerLoop(t) \/ RunTask(t) \/ CountTask(t)
  PROVE  \A u \in Threads \ {t} : Hand(u)' = Hand(u) /\ Early(u)' = Early(u)
<1> SUFFICES ASSUME NEW u \in Threads \ {t} PROVE Hand(u)' = Hand(u) /\ Early(u)' = Early(u)
  BY Zenon
<1>1. pc'[u] = pc[u] /\ pos'[u] = pos[u] /\ item'[u] = item[u]
  BY OnlyOne, Zenon DEF Only
<1>2. Early(u)' = Early(u)
  BY <1>1, Zenon DEF Early
<1>3. pc[u] = "pop_read" => data'[At(pos[u])] = data[At(pos[u])]
  BY CellKept, Zenon
<1>4. Hand(u)' = Hand(u)
  BY <1>1, <1>3, HandIs, HandWillBe, Zenon
<1> QED
  BY <1>2, <1>4, Zenon

(* Seen from the queue, a step of a thread does one of five things.        *)
LEMMA OwnStep ==
  ASSUME MpmcType, Order, Order', NEW t \in Threads,
         \/ Push(t) \/ Pop(t) \/ Submit(t) \/ WorkerLoop(t) \/ RunTask(t) \/ CountTask(t)
  PROVE  Stays(t) \/ Puts(t) \/ Takes(t) \/ Offers(t) \/ Runs(t)
<1>0. pc \in [Threads -> MpmcPc] /\ pos \in [Threads -> Nat] /\ item \in [Threads -> Tasks \cup {NoTask}]
  BY Zenon DEF MpmcType
<1>1. CASE PushLoad(t) \/ PushSeq(t) \/ PushCasFails(t)
  BY <1>0, <1>1, HandIs, HandWillBe, Zenon
  DEF PushLoad, PushSeq, PushReturns, PushCasFails, Goto, queueVars, taskVars, Stays, Early
<1>2. CASE PushCas(t)
  <2>1. pos'[t] = enqueue_pos /\ pc[t] = "push_cas" /\ pc'[t] = "push_write" /\ item'[t] = item[t]
    BY <1>0, <1>2, Zenon DEF PushCas, Goto
  <2>2. ItemAt(pos[t])' = item'[t]
    BY <2>1, ItemOfNewWriter, Zenon DEF Order
  <2>3. \A p \in {enqueue_pos} : ItemAt(p)' = item[t]
    BY <2>1, <2>2, Zenon
  <2>4. Early(t) = item[t] /\ Early(t)' = NoTask /\ Hand(t) = NoTask /\ Hand(t)' = NoTask
    BY <2>1, HandIs, HandWillBe, Zenon DEF Early
  <2>5. enqueue_pos' = enqueue_pos + 1 /\ UNCHANGED <<dequeue_pos, made, ran>>
    BY <1>2, Zenon DEF PushCas, taskVars
  <2> QED
    BY <2>1, <2>3, <2>4, <2>5, Zenon DEF Puts
<1>3. CASE PushWrite(t) \/ PushStore(t)
  BY <1>0, <1>3, HandIs, HandWillBe, Zenon DEF PushWrite, PushStore, PushReturns, Goto, taskVars,
     Stays, Early
<1>4. CASE PopLoad(t) \/ PopSeq(t) \/ PopCasFails(t)
  BY <1>0, <1>4, HandIs, HandWillBe, Zenon
  DEF PopLoad, PopSeq, PopFails, PopCasFails, Goto, queueVars, taskVars, Stays, Early
<1>5. CASE PopCas(t)
  <2>1. pos[t] = dequeue_pos /\ pc[t] = "pop_cas" /\ pc'[t] = "pop_read"
    BY <1>0, <1>5, Zenon DEF PopCas, Goto
  <2>2. UNCHANGED <<pos, data, enqueue_pos, made, ran>> /\ dequeue_pos' = dequeue_pos + 1
    BY <1>5, Zenon DEF PopCas, taskVars
  <2>3. sequence[At(dequeue_pos)] = dequeue_pos + 1 /\ dequeue_pos \in Nat /\ enqueue_pos \in Nat
    BY <2>1, Zenon DEF Order, Attempts, Attempt, MpmcType
  <2>4. \A u \in Threads : ~ (pc[u] = "push_write" /\ pos[u] = dequeue_pos)
    BY <2>3 DEF Order, Claims, Writer
  <2>5. ItemAt(dequeue_pos) = data[At(dequeue_pos)]
    BY <2>3, <2>4, ItemInCell, Zenon
  <2>6. dequeue_pos < enqueue_pos
    <3>1. /\ dequeue_pos <= enqueue_pos
          /\ enqueue_pos = dequeue_pos => sequence[At(dequeue_pos)] <= dequeue_pos
      BY <2>3, CapacityType DEF Order, Laps
    <3> QED
      BY <2>3, <3>1
  <2>7. Hand(t) = NoTask /\ Hand(t)' = data[At(dequeue_pos)] /\ Early(t) = NoTask /\ Early(t)' = NoTask
    BY <2>1, <2>2, HandIs, HandWillBe, Zenon DEF Early
  <2> QED
    BY <2>2, <2>3, <2>5, <2>6, <2>7, Zenon DEF Takes
<1>6. CASE PopRead(t) \/ PopStore(t)
  BY <1>0, <1>6, HandIs, HandWillBe, CellAt, Zenon DEF PopRead, PopStore, Goto, taskVars, Stays, Early
<1>7. CASE WorkerLoop(t) \/ CountTask(t)
  BY <1>0, <1>7, HandIs, HandWillBe, Zenon DEF WorkerLoop, CountTask, Goto, queueVars, taskVars,
     Stays, Early
<1>8. CASE Submit(t)
  BY <1>0, <1>8, HandIs, HandWillBe, Zenon DEF Submit, Goto, queueVars, Offers, Fresh, Early
<1>9. CASE RunTask(t)
  BY <1>0, <1>9, HandIs, HandWillBe, Zenon DEF RunTask, Goto, queueVars, Runs, Fresh, Early
<1> QED
  BY <1>1, <1>2, <1>3, <1>4, <1>5, <1>6, <1>7, <1>8, <1>9, Zenon DEF Push, Pop

-----------------------------------------------------------------------------
(* Every task is in at most one place: with a producer, in the queue, with *)
(* a consumer, or executed.                                                *)
OnePlace ==
  /\ \A p, q \in Queued : ItemAt(p) = ItemAt(q) => p = q
  /\ \A t, u \in Threads : Hand(t) = Hand(u) /\ Hand(t) # NoTask => t = u
  /\ \A t, u \in Threads : Early(t) = Early(u) /\ Early(t) # NoTask => t = u
  /\ \A p \in Queued, t \in Threads : ItemAt(p) # Hand(t) /\ ItemAt(p) # Early(t)
  /\ \A t, u \in Threads : Hand(t) = Early(u) => Hand(t) = NoTask

(* A task that is not executed has its number and has not run.             *)
NotYetRun(x) == x \in Tasks => x <= made /\ ran[x] = 0

Pending ==
  /\ \A p \in Queued : NotYetRun(ItemAt(p))
  /\ \A t \in Threads : NotYetRun(Hand(t)) /\ NotYetRun(Early(t))
  /\ \A x \in Tasks : ran[x] \in {0, 1} /\ (ran[x] = 1 => x <= made)

(* Nothing accepted is lost, and only what was accepted runs.              *)
NoneLost ==
  /\ \A x \in Tasks : ran[x] # 0 => x \in accepted
  /\ \A x \in accepted : \/ ran[x] # 0
                         \/ \E p \in Queued : ItemAt(p) = x
                         \/ \E t \in Threads : Hand(t) = x

(* Workers that have run a task and not counted it.                        *)
Counting == {w \in Workers : pc[w] \in Pushing \cup {"count"}}

Ran == {x \in Tasks : ran[x] # 0}

Counted == IsFiniteSet(Counting) /\ Cardinality(Ran) = completed + Cardinality(Counting)

(* How the pool is destroyed.                                              *)
Ending ==
  /\ \A w \in Workers : pc[w] # "idle" /\ (pc[w] = "exit" => w \in draining)
  /\ draining # {} => stopping
  /\ stopping => \A c \in Clients : pc[c] = "idle"
  /\ Workers # {} /\ Joined => dequeue_pos = enqueue_pos

-----------------------------------------------------------------------------
(* No task is in two places                                                *)

(* What a thread holds is a task.                                          *)
LEMMA Held ==
  ASSUME MpmcType, Contents, NEW t \in Threads
  PROVE  /\ Hand(t) \in Tasks \cup {NoTask} /\ Early(t) \in Tasks \cup {NoTask}
         /\ pc[t] = "push_cas" => Early(t) \in Tasks
         /\ pc[t] = "run" => Hand(t) \in Tasks
BY HandIs, Zenon DEF MpmcType, Contents, Pushing, Early, Reader

(* None of the five puts a task in a second place,                         *)
LEMMA OnePlaceStep ==
  ASSUME MpmcType, Order, Contents, OnePlace, Pending, ItemsStay, NEW t \in Threads,
         Stays(t) \/ Puts(t) \/ Takes(t) \/ Offers(t) \/ Runs(t),
         \A u \in Threads \ {t} : Hand(u)' = Hand(u) /\ Early(u)' = Early(u)
  PROVE  OnePlace'
<1> /\ enqueue_pos \in Nat /\ dequeue_pos \in Nat /\ made \in Nat
    /\ dequeue_pos <= enqueue_pos
  BY DEF MpmcType, Order, Laps
<1> NoTask = 0 /\ \A x \in Tasks : x \in Nat /\ x # 0
  BY DEF NoTask, Tasks
<1>1. CASE Stays(t)
  BY <1>1 DEF Stays, OnePlace, ItemsStay, Queued, Contents
<1>2. CASE Puts(t)
  <2>1. Early(t) \in Tasks
    BY <1>2, Held, Zenon DEF Puts
  <2>2. Queued' = Queued \cup {enqueue_pos} /\ enqueue_pos \notin Queued
    BY <1>2 DEF Puts, Queued
  <2> QED
    BY <1>2, <2>1, <2>2 DEF Puts, OnePlace, ItemsStay, Contents
<1>3. CASE Takes(t)
  <2>1. Queued' = Queued \ {dequeue_pos} /\ dequeue_pos \in Queued
    BY <1>3 DEF Takes, Queued
  <2>2. ItemAt(dequeue_pos) \in Tasks
    BY <2>1, Zenon DEF Contents
  <2> QED
    BY <1>3, <2>1, <2>2 DEF Takes, OnePlace, ItemsStay
<1>4. ASSUME Fresh(t)
      PROVE  /\ \A u \in Threads : Early(t)' # Early(u) /\ Early(t)' # Hand(u)
             /\ \A p \in Queued : Early(t)' # ItemAt(p)
  BY <1>4, Held DEF Fresh, Pending, NotYetRun, Contents
<1>5. CASE Offers(t)
  BY <1>4, <1>5 DEF Offers, OnePlace, ItemsStay, Queued
<1>6. CASE Runs(t)
  <2>1. CASE Early(t)' = NoTask
    BY <1>6, <2>1 DEF Runs, OnePlace, ItemsStay, Queued, Contents
  <2>2. CASE Fresh(t)
    BY <1>4, <1>6, <2>2 DEF Runs, OnePlace, ItemsStay, Queued, Contents
  <2> QED
    BY <1>6, <2>1, <2>2, Zenon DEF Runs
<1> QED
  BY <1>1, <1>2, <1>3, <1>5, <1>6, Zenon

(* or lets a task that has run be where tasks wait.                        *)
LEMMA PendingStep ==
  ASSUME MpmcType, Order, Contents, OnePlace, Pending, ItemsStay, NEW t \in Threads,
         Stays(t) \/ Puts(t) \/ Takes(t) \/ Offers(t) \/ Runs(t),
         \A u \in Threads \ {t} : Hand(u)' = Hand(u) /\ Early(u)' = Early(u)
  PROVE  Pending'
<1> /\ enqueue_pos \in Nat /\ dequeue_pos \in Nat /\ made \in Nat /\ ran \in [Tasks -> Nat]
    /\ dequeue_pos <= enqueue_pos
  BY DEF MpmcType, Order, Laps
<1> NoTask \notin Tasks /\ \A x \in Tasks : x \in Nat
  BY DEF NoTask, Tasks
<1>1. CASE Stays(t)
  BY <1>1, ZenonT(30) DEF Stays, Pending, NotYetRun, ItemsStay, Queued
<1>2. CASE Puts(t)
  <2>1. Queued' = Queued \cup {enqueue_pos}
    BY <1>2 DEF Puts, Queued
  <2> QED
    BY <1>2, <2>1 DEF Puts, Pending, NotYetRun, ItemsStay
<1>3. CASE Takes(t)
  <2>1. Queued' = Queued \ {dequeue_pos} /\ dequeue_pos \in Queued
    BY <1>3 DEF Takes, Queued
  <2> QED
    BY <1>3, <2>1 DEF Takes, Pending, NotYetRun, ItemsStay
<1>4. ASSUME Fresh(t), ran' = ran \/ (made + 1 \in Tasks => ran'[made + 1] = ran[made + 1])
      PROVE  Early(t)' = made + 1 /\ (Early(t)' \in Tasks => ran'[made + 1] = 0)
  BY <1>4 DEF Fresh, Pending
<1>5. CASE Offers(t)
  BY <1>4, <1>5 DEF Offers, Fresh, Pending, NotYetRun, ItemsStay, Queued
<1>6. CASE Runs(t)
  <2>1. /\ Hand(t) \in Tasks /\ item[t] = Hand(t) /\ Hand(t) <= made /\ ran[Hand(t)] = 0
        /\ UNCHANGED Queued
    BY <1>6, Held, Zenon DEF Runs, Pending, NotYetRun, Queued
  <2>2. \A x \in Tasks : ran'[x] = IF x = Hand(t) THEN 1 ELSE ran[x]
    BY <1>6, <2>1 DEF Runs
  <2>3. \A x \in Tasks : ran'[x] \in {0, 1} /\ (ran'[x] = 1 => x <= made)
    BY <2>1, <2>2, Zenon DEF Pending
  <2>4. made' \in Nat /\ made <= made'
    BY <1>6 DEF Runs, Fresh
  <2>5. ASSUME NEW p \in Queued PROVE NotYetRun(ItemAt(p))'
    BY SMTT(15), <2>1, <2>2, <2>4 DEF Pending, NotYetRun, OnePlace, ItemsStay
  <2>6. ASSUME NEW u \in Threads, u # t PROVE NotYetRun(Hand(u))' /\ NotYetRun(Early(u))'
    BY <2>1, <2>2, <2>4, <2>6 DEF Pending, NotYetRun, OnePlace
  <2>7. NotYetRun(Hand(t))' /\ NotYetRun(Early(t))'
    <3>1. NotYetRun(Hand(t))'
      BY <1>6, Zenon DEF Runs, NotYetRun
    <3>2. CASE Fresh(t)
      BY <2>1, <2>2, <3>1, <3>2 DEF Fresh, Pending, NotYetRun
    <3> QED
      BY <1>6, <3>1, <3>2, Zenon DEF Runs, NotYetRun
  <2> QED
    BY <2>1, <2>3, <2>4, <2>5, <2>6, <2>7 DEF Pending
<1> QED
  BY <1>1, <1>2, <1>3, <1>5, <1>6, Zenon

-----------------------------------------------------------------------------
(* What was accepted is where it is expected                               *)

(* submit() accepts a task when it is in its cell.                         *)
LEMMA AcceptedGrows ==
  ASSUME NEW t \in Threads,
         \/ Push(t) \/ Pop(t) \/ Submit(t) \/ WorkerLoop(t) \/ RunTask(t) \/ CountTask(t)
  PROVE  \/ UNCHANGED accepted
         \/ PushStore(t) /\ pc[t] = "push_store" /\ accepted' = accepted \cup {item[t]}
BY Zenon DEF Push, PushLoad, PushSeq, PushCas, PushCasFails, PushWrite, PushStore, PushReturns, Goto,
             Pop, PopLoad, PopSeq, PopCas, PopCasFails, PopRead, PopStore, Submit, WorkerLoop, RunTask,
             CountTask, taskVars

(* The task of a producer that has filled its cell is in the queue.        *)
LEMMA StoredItem ==
  ASSUME MpmcType, Order, Contents, NEW t \in Threads, pc[t] = "push_store"
  PROVE  pos[t] \in Queued /\ ItemAt(pos[t]) = item[t]
<1>1. /\ pos[t] \in Nat /\ enqueue_pos \in Nat /\ dequeue_pos \in Nat
      /\ dequeue_pos <= pos[t] /\ pos[t] < enqueue_pos
  BY Zenon DEF MpmcType, Order, Claims, Writer
<1>2. \A u \in Threads : ~ (pc[u] = "push_write" /\ pos[u] = pos[t])
  BY Zenon DEF Order, Claims, Writer
<1>3. ItemAt(pos[t]) = data[At(pos[t])]
  BY <1>1, <1>2, ItemInCell, Zenon
<1> QED
  BY <1>1, <1>3 DEF Queued, Contents

(* What is filled was accepted.                                            *)
LEMMA FilledStep ==
  ASSUME MpmcType, Order, Order', Contents, ItemsStay, NEW t \in Threads,
         \/ Push(t) \/ Pop(t) \/ Submit(t) \/ WorkerLoop(t) \/ RunTask(t) \/ CountTask(t),
         NEW p \in Queued', sequence'[At(p)] = p + 1
  PROVE  ItemAt(p)' \in accepted'
<1> /\ enqueue_pos \in Nat /\ dequeue_pos \in Nat /\ Capacity \in Nat /\ pos[t] \in Nat
    /\ dequeue_pos <= enqueue_pos /\ enqueue_pos <= dequeue_pos + Capacity
    /\ sequence \in [Cells -> Nat] /\ accepted \subseteq accepted'
  BY CapacityType, AcceptedGrows, Zenon DEF MpmcType, Order, Laps
<1>1. CASE UNCHANGED <<enqueue_pos, dequeue_pos, sequence>>
  BY <1>1, Zenon DEF Queued, ItemsStay, Contents
<1>2. CASE PushCas(t)
  <2>1. /\ enqueue_pos' = enqueue_pos + 1 /\ pos'[t] = enqueue_pos /\ pc'[t] = "push_write"
        /\ UNCHANGED <<dequeue_pos, sequence>>
    BY <1>2, Zenon DEF PushCas, Goto, MpmcType
  <2>2. sequence'[At(enqueue_pos)] = enqueue_pos
    BY <2>1, Zenon DEF Order, Claims, Writer
  <2>3. enqueue_pos + 1 # enqueue_pos
    OBVIOUS
  <2>4. p # enqueue_pos
    BY <2>2, <2>3, Zenon
  <2>5. p \in Queued
    BY SMTT(15), <2>1, <2>4 DEF Queued
  <2> QED
    BY <2>1, <2>5, Zenon DEF ItemsStay, Contents
<1>3. CASE PopCas(t)
  BY <1>3 DEF PopCas, Queued, ItemsStay, Contents
<1>4. CASE PushStore(t)
  <2>1. /\ pc[t] = "push_store" /\ UNCHANGED <<enqueue_pos, dequeue_pos>>
        /\ sequence' = [sequence EXCEPT ![At(pos[t])] = pos[t] + 1]
        /\ accepted' = accepted \cup {item[t]}
    BY <1>4, CellAt, Zenon DEF PushStore, PushReturns, Goto
  <2>2. p \in Nat /\ p \in Queued /\ ItemAt(p)' = ItemAt(p)
    BY <2>1 DEF Queued, ItemsStay
  <2>3. CASE p = pos[t]
    BY <2>1, <2>2, <2>3, StoredItem, Zenon
  <2>4. CASE p # pos[t]
    <3>1. At(p) # At(pos[t])
      BY <2>1, <2>2, <2>4, StoredItem, SameCell DEF Queued
    <3>2. sequence[At(p)] = p + 1
      BY <2>1, <2>2, <3>1, AtType, Zenon
    <3> QED
      BY <2>2, <3>2, Zenon DEF Contents
  <2> QED
    BY <2>3, <2>4, Zenon
<1>5. CASE PopStore(t)
  <2>1. /\ pc[t] = "pop_store" /\ UNCHANGED <<enqueue_pos, dequeue_pos>>
        /\ sequence' = [sequence EXCEPT ![At(pos[t])] = pos[t] + Capacity]
    BY <1>5, CellAt, Zenon DEF PopStore, Goto
  <2>2. p \in Nat /\ p \in Queued /\ ItemAt(p)' = ItemAt(p)
    BY <2>1 DEF Queued, ItemsStay
  <2>3. pos[t] < dequeue_pos /\ enqueue_pos <= pos[t] + Capacity
    BY <2>1, Zenon DEF Order, Claims, Reader
  <2>4. At(p) # At(pos[t])
    BY <2>2, <2>3, SameCell DEF Queued
  <2>5. sequence[At(p)] = p + 1
    BY <2>1, <2>2, <2>4, AtType, Zenon
  <2> QED
    BY <2>2, <2>5, Zenon DEF Contents
<1>6. \/ PushCas(t) \/ PopCas(t) \/ PushStore(t) \/ PopStore(t)
      \/ UNCHANGED <<enqueue_pos, dequeue_pos, sequence>>
  BY Zenon DEF Push, PushLoad, PushSeq, PushCasFails, PushWrite, Pop, PopLoad, PopSeq, PopCasFails,
     PopRead,
               Submit, WorkerLoop, RunTask, CountTask, queueVars
<1> QED
  BY <1>1, <1>2, <1>3, <1>4, <1>5, <1>6, Zenon

(* What a step leaves of the other threads' tasks,                         *)
LEMMA OthersContents ==
  ASSUME MpmcType, Order, Contents, NEW t \in Threads, NEW u \in Threads \ {t},
         \/ Push(t) \/ Pop(t) \/ Submit(t) \/ WorkerLoop(t) \/ RunTask(t) \/ CountTask(t)
  PROVE  /\ pc'[u] \in Pushing => item'[u] \in Tasks
         /\ pc'[u] = "push_store" => data'[At(pos'[u])] = item'[u]
         /\ Reader(u)' \/ pc'[u] = "run" => Hand(u)' \in accepted'
<1>1. /\ pc'[u] = pc[u] /\ pos'[u] = pos[u] /\ item'[u] = item[u] /\ Hand(u)' = Hand(u)
      /\ accepted \subseteq accepted'
  BY OnlyOne, OthersStay, AcceptedGrows, Zenon DEF Only
<1>2. pc[u] = "push_store" => data'[At(pos[u])] = data[At(pos[u])]
  BY CellKept, Zenon
<1> QED
  BY <1>1, <1>2, Zenon DEF Contents, Reader

(* and what it does to those of its own.                                   *)
LEMMA OwnContents ==
  ASSUME MpmcType, Order, Order', Contents, NEW t \in Threads,
         \/ Push(t) \/ Pop(t) \/ Submit(t) \/ WorkerLoop(t) \/ RunTask(t) \/ CountTask(t)
  PROVE  /\ pc'[t] \in Pushing => item'[t] \in Tasks
         /\ pc'[t] = "push_store" => data'[At(pos'[t])] = item'[t]
         /\ Reader(t)' \/ pc'[t] = "run" => Hand(t)' \in accepted'
<1> /\ pc \in [Threads -> MpmcPc] /\ pos \in [Threads -> Nat] /\ data \in [Cells -> Tasks \cup {NoTask}]
    /\ item \in [Threads -> Tasks \cup {NoTask}] /\ made \in 0..MaxTasks
  BY Zenon DEF MpmcType
<1>1. CASE PushLoad(t) \/ PushSeq(t) \/ PushCas(t) \/ PushCasFails(t)
  BY <1>1, Zenon DEF PushLoad, PushSeq, PushReturns, PushCas, PushCasFails, Goto, Contents, Pushing,
     Reader
<1>2. CASE PushWrite(t) \/ PushStore(t)
  BY <1>2, CellAt, AtType DEF PushWrite, PushStore, PushReturns, Goto, Contents, Pushing, Reader
<1>3. CASE PopLoad(t) \/ PopSeq(t) \/ PopCasFails(t) \/ WorkerLoop(t) \/ CountTask(t)
  BY <1>3, Zenon DEF PopLoad, PopSeq, PopFails, PopCasFails, WorkerLoop, CountTask, Goto, Pushing,
     Reader
<1>4. CASE PopCas(t)
  <2>1. /\ pos[t] = dequeue_pos /\ pc[t] = "pop_cas" /\ pc'[t] = "pop_read" /\ UNCHANGED accepted
    BY <1>4, Zenon DEF PopCas, Goto, taskVars
  <2>2. Hand(t)' = ItemAt(dequeue_pos) /\ sequence[At(dequeue_pos)] = dequeue_pos + 1
        /\ dequeue_pos \in Queued
    <3>1. Takes(t)
      <4>1. dequeue_pos' # dequeue_pos
        BY <1>4 DEF PopCas, MpmcType
      <4> QED
        BY <1>4, <4>1, OwnStep, Zenon DEF Pop, Stays, Puts, Offers, Runs
    <3> QED
      BY <3>1 DEF Takes, Queued, MpmcType
  <2> QED
    BY <2>1, <2>2, Zenon DEF Contents, Pushing
<1>5. CASE PopRead(t) \/ PopStore(t)
  <2>1. /\ Reader(t) /\ pc'[t] \in {"pop_store", "run"} /\ UNCHANGED accepted
    BY <1>5, Zenon DEF PopRead, PopStore, Goto, taskVars, Reader
  <2>2. Hand(t)' = Hand(t)
    BY <1>5, HandIs, HandWillBe, CellAt, Zenon DEF PopRead, PopStore, Goto
  <2> QED
    BY <2>1, <2>2, Zenon DEF Contents, Pushing
<1>6. CASE Submit(t) \/ RunTask(t)
  <2>1. pc'[t] \in {"count", "push_load"} /\ (pc'[t] = "push_load" => made < MaxTasks /\ item'[t] = made + 1)
    BY <1>6, Zenon DEF Submit, RunTask, Goto
  <2> QED
    BY <2>1, MpmcAssumption DEF Reader, Pushing, Tasks
<1> QED
  BY <1>1, <1>2, <1>3, <1>4, <1>5, <1>6, Zenon DEF Push, Pop

(* Every step of a thread leaves the tasks where they are expected.        *)
LEMMA ContentsStep ==
  ASSUME MpmcType, Order, Order', Contents, ItemsStay, NEW t \in Threads,
         \/ Push(t) \/ Pop(t) \/ Submit(t) \/ WorkerLoop(t) \/ RunTask(t) \/ CountTask(t)
  PROVE  Contents'
<1>1. ASSUME NEW p \in Queued' PROVE ItemAt(p)' \in Tasks
  <2> enqueue_pos \in Nat /\ dequeue_pos \in Nat
    BY Zenon DEF MpmcType
  <2>1. CASE Puts(t)
    <3>1. Early(t) \in Tasks
      BY <2>1, Held, Zenon DEF Puts
    <3>2. p \in Queued \/ p = enqueue_pos
      BY <1>1, <2>1 DEF Puts, Queued
    <3> QED
      BY <2>1, <3>1, <3>2, Zenon DEF Puts, ItemsStay, Contents
  <2>2. CASE p \in Queued
    BY <2>2, Zenon DEF ItemsStay, Contents
  <2>3. Stays(t) \/ Takes(t) \/ Offers(t) \/ Runs(t) => p \in Queued
    BY <1>1 DEF Stays, Takes, Offers, Runs, Queued
  <2> QED
    BY <2>1, <2>2, <2>3, OwnStep, Zenon
<1> QED
  BY <1>1, FilledStep, OthersContents, OwnContents, Zenon DEF Contents

(* No step of a thread takes an accepted task out of sight.                *)
LEMMA NoneLostStep ==
  ASSUME MpmcType, Order, Order', Contents, Pending, NoneLost, ItemsStay, NEW t \in Threads,
         \/ Push(t) \/ Pop(t) \/ Submit(t) \/ WorkerLoop(t) \/ RunTask(t) \/ CountTask(t)
  PROVE  NoneLost'
<1> /\ enqueue_pos \in Nat /\ dequeue_pos \in Nat /\ accepted \subseteq Tasks /\ ran \in [Tasks -> Nat]
  BY Zenon DEF MpmcType
<1>0. NoTask \notin Tasks
  BY DEF NoTask, Tasks
<1>1. Stays(t) \/ Puts(t) \/ Takes(t) \/ Offers(t) \/ Runs(t)
  BY OwnStep, Zenon
<1>2. \A u \in Threads \ {t} : Hand(u)' = Hand(u)
  BY OthersStay, Zenon
<1>3. accepted \subseteq accepted'
  BY AcceptedGrows, Zenon
<1>4. ASSUME Runs(t)
      PROVE  /\ Hand(t) \in accepted
             /\ \A x \in Tasks : ran'[x] = IF x = Hand(t) THEN ran[x] + 1 ELSE ran[x]
  BY <1>4, Zenon DEF Runs, Contents
<1>5. ASSUME NEW x \in Tasks, ran'[x] # 0 PROVE x \in accepted'
  <2>1. CASE Runs(t)
    BY <1>3, <1>4, <1>5, <2>1, Zenon DEF NoneLost
  <2>2. CASE ran' = ran
    BY <1>3, <1>5, <2>2, Zenon DEF NoneLost
  <2> QED
    BY <1>1, <2>1, <2>2, Zenon DEF Stays, Puts, Takes, Offers
<1> DEFINE Kept(x) == \/ ran'[x] # 0
                      \/ \E p \in Queued' : ItemAt(p)' = x
                      \/ \E u \in Threads : Hand(u)' = x
<1>6. ASSUME NEW x \in accepted PROVE Kept(x)
  <2>1. CASE ran[x] # 0
    BY <1>1, <1>4, <2>1 DEF Stays, Puts, Takes, Offers
  <2>2. ASSUME NEW p \in Queued, ItemAt(p) = x PROVE Kept(x)
    <3>1. CASE Takes(t) /\ p = dequeue_pos
      BY <2>2, <3>1, Zenon DEF Takes
    <3>2. CASE ~ (Takes(t) /\ p = dequeue_pos)
      <4>1. /\ enqueue_pos' = enqueue_pos \/ enqueue_pos' = enqueue_pos + 1
            /\ dequeue_pos' = dequeue_pos \/ (p # dequeue_pos /\ dequeue_pos' = dequeue_pos + 1)
        BY <1>1, <3>2, Zenon DEF Stays, Puts, Takes, Offers, Runs
      <4>2. p \in Queued'
        BY <4>1 DEF Queued
      <4> QED
        BY <2>2, <4>2, ZenonT(30) DEF ItemsStay
    <3> QED
      BY <3>1, <3>2, Zenon
  <2>3. ASSUME NEW u \in Threads, Hand(u) = x PROVE Kept(x)
    <3>1. CASE u # t
      BY <1>2, <2>3, <3>1, Zenon
    <3>2. CASE Runs(t) /\ u = t
      BY <1>4, <2>3, <3>2
    <3>3. CASE Hand(t)' = Hand(t) /\ u = t
      BY <2>3, <3>3, Zenon
    <3>4. Takes(t) => u # t
      BY <1>0, <2>3, Zenon DEF Takes
    <3> QED
      BY <1>1, <3>1, <3>2, <3>3, <3>4, Zenon DEF Stays, Puts, Offers
  <2> QED
    BY <2>1, <2>2, <2>3, Zenon DEF NoneLost
<1>7. ASSUME NEW x \in accepted', x \notin accepted PROVE Kept(x)
  <2>1. x = item[t] /\ PushStore(t) /\ pc[t] = "push_store"
    BY <1>7, AcceptedGrows, Zenon
  <2>2. pos[t] \in Queued /\ ItemAt(pos[t]) = x
    BY <2>1, StoredItem, Zenon
  <2>3. Queued' = Queued
    BY <2>1, Zenon DEF PushStore, Queued
  <2> QED
    BY <2>2, <2>3, Zenon DEF ItemsStay
<1> QED
  BY <1>5, <1>6, <1>7, Zenon DEF NoneLost

(* A worker leaves only when it has found nothing to pop, and the last one *)
(* to leave finds no producer at work either.                              *)
LEMMA LastOneOut ==
  ASSUME MpmcType, Order, Ending, NEW w \in Workers, PopSeq(w), pc'[w] = "exit",
         \A v \in Workers \ {w} : pc[v] = "exit"
  PROVE  dequeue_pos = enqueue_pos
<1> /\ enqueue_pos \in Nat /\ dequeue_pos \in Nat /\ w \in Threads /\ pos[w] \in Nat
    /\ pc \in [Threads -> MpmcPc] /\ sequence \in [Cells -> Nat] /\ At(pos[w]) \in Cells
  BY AtType, Zenon DEF MpmcType, Threads
<1>1. pc[w] = "pop_seq" /\ w \in draining /\ sequence[At(pos[w])] < pos[w] + 1
  BY CellAt DEF PopSeq, PopFails, Goto
<1>2. pos[w] = dequeue_pos
  BY <1>1 DEF Order, Laps, Attempts, Attempt
<1>3. \A t \in Threads : ~ Writer(t)
  BY <1>1, Zenon DEF Ending, Threads, Writer
<1> QED
  BY <1>1, <1>2, <1>3 DEF Order, Laps

(* Every step keeps what is known once the destructor has begun.           *)
LEMMA EndingStep == ASSUME MpmcType, Order, Ending, [Next]_vars PROVE Ending'
<1> pc \in [Threads -> MpmcPc] /\ stopping \in BOOLEAN /\ draining \subseteq Workers
  BY Zenon DEF MpmcType
<1>1. CASE UNCHANGED vars
  BY <1>1, Zenon DEF vars, queueVars, poolVars, Ending, Joined
<1>2. CASE Stop
  BY <1>2, Zenon DEF Stop, queueVars, Ending, Joined
<1>3. ASSUME NEW t \in Threads,
             \/ t \in Workers /\ Work(t)
             \/ Submit(t) \/ Push(t)
      PROVE  Ending'
  <2>0. Only(t)
    BY <1>3, OnlyOne, Zenon DEF Work
  <2>1. /\ pc[t] # "exit"
        /\ pc[t] = "idle" => ~ stopping
        /\ t \in Workers => pc'[t] # "idle"
        /\ pc'[t] = "exit" => PopSeq(t) /\ t \in Workers /\ t \in draining
    <3>1. CASE Push(t)
      BY <3>1, Zenon DEF Push, PushLoad, PushSeq, PushCas, PushCasFails, PushWrite, PushStore,
         PushReturns, Goto
    <3>2. CASE t \in Workers /\ Pop(t)
      BY <3>2, Zenon DEF Pop, PopLoad, PopSeq, PopFails, PopCas, PopCasFails, PopRead, PopStore, Goto
    <3>3. CASE Submit(t) \/ (t \in Workers /\ (WorkerLoop(t) \/ RunTask(t) \/ CountTask(t)))
      BY <3>3, Zenon DEF Submit, WorkerLoop, RunTask, CountTask, Goto
    <3> QED
      BY <1>3, <3>1, <3>2, <3>3, Zenon DEF Work
  <2>2. /\ stopping' = stopping
        /\ draining' = draining \/ (t \in Workers /\ stopping /\ draining' = draining \cup {t})
    BY <1>3, Zenon DEF Work, Push, PushLoad, PushSeq, PushCas, PushCasFails, PushWrite, PushStore,
                       Pop, PopLoad, PopSeq, PopCas, PopCasFails, PopRead, PopStore, Submit, WorkerLoop,
                       RunTask, CountTask, poolVars
  <2>3. \A w \in Workers : pc'[w] # "idle" /\ (pc'[w] = "exit" => w \in draining')
    BY <2>0, <2>1, <2>2 DEF Ending, Only, Threads
  <2>4. stopping => \A c \in Clients : pc'[c] = "idle"
    BY <2>0, <2>1, Zenon DEF Ending, Only, Threads
  <2>5. ASSUME Workers # {}, Joined' PROVE dequeue_pos' = enqueue_pos'
    <3>1. t \in Workers
      <4> SUFFICES ASSUME t \notin Workers PROVE FALSE
        BY Zenon
      <4>1. Joined
        BY <2>0, <2>5, Zenon DEF Joined, Only, Threads
      <4>2. stopping /\ t \in Clients
        BY <2>5, <4>1, Zenon DEF Joined, Ending, Threads
      <4> QED
        BY <2>1, <4>2, Zenon DEF Ending
    <3>2. PopSeq(t) /\ pc'[t] = "exit"
      BY <2>1, <2>5, <3>1, Zenon DEF Joined
    <3>3. dequeue_pos = enqueue_pos
      BY <2>0, <2>5, <3>1, <3>2, LastOneOut, Zenon DEF Joined, Only, Threads
    <3> QED
      BY <3>2, <3>3, Zenon DEF PopSeq, queueVars
  <2> QED
    BY <2>2, <2>3, <2>4, <2>5, Zenon DEF Ending
<1> QED
  BY <1>1, <1>2, <1>3, Zenon DEF Next, Threads

-----------------------------------------------------------------------------
(* The queue implements BoundedQueue                                       *)

(* A function on 1..n is a sequence;                                       *)
LEMMA FunctionSeq ==
  ASSUME NEW S, NEW n \in Nat, NEW f \in [1..n -> S]
  PROVE  f \in Seq(S) /\ Len(f) = n
OBVIOUS

(* one with one more element is an Append,                                 *)
LEMMA IsAppend ==
  ASSUME NEW S, NEW n \in Nat, NEW f \in [1..n -> S], NEW g \in [1..n + 1 -> S],
         \A i \in 1..n : g[i] = f[i]
  PROVE  g = Append(f, g[n + 1])
<1>1. f \in Seq(S) /\ Len(f) = n /\ g \in Seq(S) /\ Len(g) = n + 1
  BY FunctionSeq
<1> QED
  BY <1>1

(* and one without the first is a Tail.                                    *)
LEMMA IsTail ==
  ASSUME NEW S, NEW n \in Nat, NEW f \in [1..n + 1 -> S], NEW g \in [1..n -> S],
         \A i \in 1..n : g[i] = f[i + 1]
  PROVE  f # <<>> /\ f[1] = Head(f) /\ g = Tail(f)
<1>1. f \in Seq(S) /\ Len(f) = n + 1 /\ g \in Seq(S) /\ Len(g) = n
  BY FunctionSeq
<1> QED
  BY <1>1

(* Counting from the head stays among the queued positions.                *)
LEMMA Offset ==
  ASSUME NEW d \in Nat, NEW e \in Nat
  PROVE  \A i \in 1..e - d : d + i - 1 \in d..e - 1
OBVIOUS

(* The length of the queue is a number up to the capacity.                 *)
LEMMA Distance ==
  ASSUME NEW d \in Nat, NEW e \in Nat, NEW c \in Nat, d <= e, e <= d + c
  PROVE  e - d \in Nat /\ e - d <= c
OBVIOUS

(* What BoundedQueue sees.                                                 *)
View == [i \in 1..enqueue_pos - dequeue_pos |-> ItemAt(dequeue_pos + i - 1)]
Hands == [t \in Threads |-> Hand(t)]

(* The abstract queue is a sequence of tasks, no longer than the capacity. *)
LEMMA ViewType ==
  ASSUME MpmcType, Order, Contents
  PROVE  /\ enqueue_pos - dequeue_pos \in Nat /\ enqueue_pos - dequeue_pos <= Capacity
         /\ View \in [1..enqueue_pos - dequeue_pos -> Tasks]
         /\ \A i \in 1..enqueue_pos - dequeue_pos : View[i] = ItemAt(dequeue_pos + i - 1)
<1>1. /\ enqueue_pos \in Nat /\ dequeue_pos \in Nat /\ dequeue_pos <= enqueue_pos
      /\ enqueue_pos <= dequeue_pos + Capacity
  BY Zenon DEF MpmcType, Order, Laps
<1>2. \A i \in 1..enqueue_pos - dequeue_pos : dequeue_pos + i - 1 \in Queued
  BY <1>1, Offset, Zenon DEF Queued
<1>3. View \in [1..enqueue_pos - dequeue_pos -> Tasks]
  BY <1>2, Zenon DEF View, Contents
<1>4. \A i \in 1..enqueue_pos - dequeue_pos : View[i] = ItemAt(dequeue_pos + i - 1)
  BY Zenon DEF View
<1> QED
  BY <1>1, <1>3, <1>4, CapacityType

(* The same of the next state.                                             *)
LEMMA ViewNext ==
  ASSUME MpmcType', Order', Contents', ItemsStay
  PROVE  /\ enqueue_pos' - dequeue_pos' \in Nat /\ enqueue_pos' - dequeue_pos' <= Capacity
         /\ View' \in [1..enqueue_pos' - dequeue_pos' -> Tasks]
         /\ \A i \in 1..enqueue_pos' - dequeue_pos' :
              dequeue_pos' + i - 1 \in Queued => View'[i] = ItemAt(dequeue_pos' + i - 1)
<1>1. /\ enqueue_pos' \in Nat /\ dequeue_pos' \in Nat /\ dequeue_pos' <= enqueue_pos'
      /\ enqueue_pos' <= dequeue_pos' + Capacity
  BY Zenon DEF MpmcType, Order, Laps
<1>2. \A i \in 1..enqueue_pos' - dequeue_pos' : dequeue_pos' + i - 1 \in Queued'
  BY <1>1, Offset, Zenon DEF Queued
<1>3. \A i \in 1..enqueue_pos' - dequeue_pos' :
        /\ View'[i] = ItemAt(dequeue_pos + i - 1)'
        /\ \A p \in {dequeue_pos' + i - 1} : View'[i] = ItemAt(p)'
  BY Zenon DEF View
<1>4. View' \in [1..enqueue_pos' - dequeue_pos' -> Tasks]
  BY <1>2, Zenon DEF View, Contents
<1>5. ASSUME NEW i \in 1..enqueue_pos' - dequeue_pos', dequeue_pos' + i - 1 \in Queued
      PROVE  View'[i] = ItemAt(dequeue_pos' + i - 1)
  BY <1>3, <1>5, Zenon DEF ItemsStay
<1>6. enqueue_pos' - dequeue_pos' \in Nat /\ enqueue_pos' - dequeue_pos' <= Capacity
  BY <1>1, CapacityType, Distance, Zenon
<1> QED
  BY <1>4, <1>5, <1>6, Zenon

Views == MpmcType /\ Order /\ Contents

(* While the positions stay, so does the abstract queue;                   *)
LEMMA ViewSame ==
  ASSUME Views, Views', ItemsStay, UNCHANGED <<enqueue_pos, dequeue_pos>>
  PROVE  View' = View
<1> DEFINE D == 1..enqueue_pos - dequeue_pos
<1>1. \A i \in D : dequeue_pos + i - 1 \in Queued
  BY Offset, Zenon DEF Views, MpmcType, Queued
<1>2. View \in [D -> Tasks] /\ \A i \in D : View[i] = ItemAt(dequeue_pos + i - 1)
  BY ViewType, Zenon DEF Views
<1>3. View' \in [D -> Tasks] /\ \A i \in D : View'[i] = ItemAt(dequeue_pos + i - 1)
  BY <1>1, ViewNext, Zenon DEF Views
<1> HIDE DEF D
<1>4. View' \in [D -> Tasks] /\ View \in [D -> Tasks] /\ \A i \in D : View'[i] = View[i]
  BY <1>2, <1>3, Zenon
<1> QED
  BY <1>4

(* claiming a position to push appends a task,                             *)
LEMMA ViewPut ==
  ASSUME Views, Views', ItemsStay, enqueue_pos' = enqueue_pos + 1, dequeue_pos' = dequeue_pos
  PROVE  Len(View) < Capacity /\ \E x \in Tasks : View' = Append(View, x)
<1> DEFINE n == enqueue_pos - dequeue_pos
<1>1. enqueue_pos \in Nat /\ dequeue_pos \in Nat /\ enqueue_pos' - dequeue_pos' = n + 1
  BY DEF Views, MpmcType
<1>2. \A i \in 1..n : dequeue_pos + i - 1 \in Queued
  BY <1>1, Offset, Zenon DEF Queued
<1>3. n \in Nat /\ View \in [1..n -> Tasks] /\ \A i \in 1..n : View[i] = ItemAt(dequeue_pos + i - 1)
  BY ViewType, Zenon DEF Views
<1>4. /\ n + 1 <= Capacity /\ View' \in [1..n + 1 -> Tasks]
      /\ \A i \in 1..n + 1 : dequeue_pos + i - 1 \in Queued => View'[i] = ItemAt(dequeue_pos + i - 1)
  BY <1>1, ViewNext, Zenon DEF Views
<1> HIDE DEF n
<1>5. \A i \in 1..n : View'[i] = View[i]
  BY <1>2, <1>3, <1>4
<1>6. View' = Append(View, View'[n + 1]) /\ Len(View) = n /\ View'[n + 1] \in Tasks
  BY <1>3, <1>4, <1>5, IsAppend, FunctionSeq
<1> QED
  BY <1>3, <1>4, <1>6, CapacityType

(* and claiming one to pop takes the head.                                 *)
LEMMA ViewTake ==
  ASSUME Views, Views', ItemsStay, enqueue_pos' = enqueue_pos, dequeue_pos' = dequeue_pos + 1,
         dequeue_pos < enqueue_pos
  PROVE  View # <<>> /\ ItemAt(dequeue_pos) = Head(View) /\ View' = Tail(View)
<1> DEFINE n == enqueue_pos - dequeue_pos - 1
<1>1. /\ enqueue_pos \in Nat /\ dequeue_pos \in Nat /\ enqueue_pos' - dequeue_pos' = n
      /\ enqueue_pos - dequeue_pos = n + 1 /\ n \in Nat
  BY DEF Views, MpmcType
<1>2. \A i \in 1..n : dequeue_pos + i \in Queued
  BY <1>1 DEF Queued
<1>3. View \in [1..n + 1 -> Tasks] /\ \A i \in 1..n + 1 : View[i] = ItemAt(dequeue_pos + i - 1)
  BY <1>1, ViewType, Zenon DEF Views
<1>4. /\ View' \in [1..n -> Tasks]
      /\ \A i \in 1..n : dequeue_pos' + i - 1 \in Queued => View'[i] = ItemAt(dequeue_pos' + i - 1)
  BY <1>1, ViewNext, Zenon DEF Views
<1> HIDE DEF n
<1>5. ASSUME NEW i \in 1..n PROVE View'[i] = View[i + 1]
  <2>1. /\ i + 1 \in 1..n + 1 /\ dequeue_pos' + i - 1 = dequeue_pos + i
        /\ dequeue_pos + (i + 1) - 1 = dequeue_pos + i
    BY <1>1
  <2> QED
    BY <1>2, <1>3, <1>4, <2>1, Zenon
<1>6. View # <<>> /\ View[1] = Head(View) /\ View' = Tail(View)
  BY <1>1, <1>3, <1>4, <1>5, IsTail
<1>7. 1 \in 1..n + 1 /\ dequeue_pos + 1 - 1 = dequeue_pos
  BY <1>1
<1> QED
  BY <1>3, <1>6, <1>7, Zenon

(* A step of t changes what t has in hand only.                            *)
LEMMA HandsStep ==
  ASSUME NEW t \in Threads, \A u \in Threads \ {t} : Hand(u)' = Hand(u)
  PROVE  /\ Hands' = [Hands EXCEPT ![t] = Hand(t)'] /\ Hands[t] = Hand(t)
         /\ Hand(t)' = Hand(t) => Hands' = Hands
BY Zenon DEF Hands

(* The five things a step may do, as steps of the abstract queue.          *)
LEMMA ViewStep ==
  ASSUME Views, Views', ItemsStay, NEW t \in Threads,
         Stays(t) \/ Puts(t) \/ Takes(t) \/ Offers(t) \/ Runs(t),
         \A u \in Threads \ {t} : Hand(u)' = Hand(u)
  PROVE  \/ View' = View /\ Hands' = Hands
         \/ \E x \in Tasks : Len(View) < Capacity /\ View' = Append(View, x) /\ Hands' = Hands
         \/ /\ View # <<>> /\ Hands[t] = NoTask
            /\ Hands' = [Hands EXCEPT ![t] = Head(View)] /\ View' = Tail(View)
         \/ /\ Hands[t] # NoTask
            /\ Hands' = [Hands EXCEPT ![t] = NoTask] /\ View' = View
<1>1. CASE Stays(t) \/ Offers(t)
  BY <1>1, ViewSame, HandsStep, Zenon DEF Stays, Offers
<1>2. CASE Puts(t)
  BY <1>2, ViewPut, HandsStep, Zenon DEF Puts
<1>3. CASE Takes(t)
  BY <1>3, ViewTake, HandsStep, Zenon DEF Takes
<1>4. CASE Runs(t)
  <2>1. Hand(t) \in Tasks
    BY <1>4, Held, Zenon DEF Runs, Views
  <2>2. Hand(t) # NoTask
    BY <2>1 DEF Tasks, NoTask
  <2> QED
    BY <1>4, <2>2, ViewSame, HandsStep, Zenon DEF Runs
<1> QED
  BY <1>1, <1>2, <1>3, <1>4, Zenon

-----------------------------------------------------------------------------
(* How many tasks have run                                                 *)

INSTANCE FiniteSetTheorems

(* Every step keeps the count of finished tasks.                           *)
LEMMA CountedStep ==
  ASSUME MpmcType, Contents, Pending, Ending, Counted, [Next]_vars PROVE Counted'
<1> /\ completed \in Nat /\ pc \in [Threads -> MpmcPc] /\ ran \in [Tasks -> Nat]
  BY Zenon DEF MpmcType
<1>1. CASE Counting' = Counting /\ ran' = ran /\ completed' = completed
  BY <1>1, Zenon DEF Counted, Ran
<1> DEFINE Open(k) == k \in Pushing \cup {"count"}
<1>2. ASSUME NEW t \in Threads, Only(t), t \in Workers => (Open(pc'[t]) <=> Open(pc[t]))
      PROVE  Counting' = Counting
  BY <1>2, Zenon DEF Counting, Only, Threads
<1>3. ASSUME NEW t \in Threads, Push(t) \/ Pop(t)
      PROVE  Counting' = Counting /\ ran' = ran /\ completed' = completed
  <2>1. CASE Push(t)
    <3>1. ran' = ran /\ completed' = completed
      BY <2>1, ZenonT(30) DEF Push, PushLoad, PushSeq, PushCas, PushCasFails, PushWrite, PushStore, poolVars,
                         taskVars
    <3>2. t \in Workers => Open(pc'[t]) /\ Open(pc[t])
      BY <2>1 DEF Push, PushLoad, PushSeq, PushCas, PushCasFails, PushWrite, PushStore, PushReturns,
         Goto,
                  Pushing
    <3> QED
      BY <1>2, <2>1, <3>1, <3>2, OnlyOne, Zenon
  <2>2. CASE Pop(t)
    <3>1. ran' = ran /\ completed' = completed
      BY <2>2, Zenon DEF Pop, PopLoad, PopSeq, PopCas, PopCasFails, PopRead, PopStore, poolVars,
         taskVars
    <3>2. ~ Open(pc'[t]) /\ ~ Open(pc[t])
      BY <2>2, Zenon DEF Pop, PopLoad, PopSeq, PopFails, PopCas, PopCasFails, PopRead, PopStore,
         Goto, Pushing
    <3> QED
      BY <1>2, <2>2, <3>1, <3>2, OnlyOne, Zenon
  <2> QED
    BY <1>3, <2>1, <2>2, Zenon
<1>4. ASSUME NEW t \in Threads, Submit(t) \/ WorkerLoop(t)
      PROVE  Counting' = Counting /\ ran' = ran /\ completed' = completed
  <2>1. ran' = ran /\ completed' = completed
    BY <1>4, Zenon DEF Submit, WorkerLoop, poolVars, taskVars
  <2>2. t \in Workers => ~ Open(pc'[t]) /\ ~ Open(pc[t])
    BY <1>4, Zenon DEF Submit, WorkerLoop, Goto, Pushing, Ending
  <2> QED
    BY <1>2, <1>4, <2>1, <2>2, OnlyOne, Zenon
<1>5. ASSUME Stop \/ UNCHANGED vars PROVE Counting' = Counting /\ ran' = ran /\ completed' = completed
  BY <1>5, Zenon DEF Stop, vars, poolVars, taskVars, Counting
<1>6. IsFiniteSet(Counting) /\ Cardinality(Counting) \in Nat
  BY FS_CardinalityType, Zenon DEF Counted
<1>7. ASSUME NEW w \in Workers, RunTask(w) PROVE Counted'
  <2>0. w \in Threads
    BY Zenon DEF Threads
  <2>1. /\ pc[w] = "run" /\ pc'[w] \in {"count", "push_load"}
        /\ \A u \in Threads \ {w} : pc'[u] = pc[u]
        /\ ran' = [ran EXCEPT ![item[w]] = @ + 1] /\ completed' = completed
    BY <1>7, <2>0, Zenon DEF RunTask, Goto, poolVars
  <2>2. Counting' = Counting \cup {w} /\ w \notin Counting
    BY <2>0, <2>1, Zenon DEF Counting, Pushing, Threads
  <2>3. item[w] = Hand(w) /\ Hand(w) \in Tasks /\ ran[Hand(w)] = 0
    BY <2>0, <2>1, Held, HandIs, Zenon DEF Pending, NotYetRun
  <2>4. Ran' = Ran \cup {item[w]} /\ item[w] \notin Ran
    BY <2>1, <2>3 DEF Ran
  <2>5. IsFiniteSet(Ran)
    BY FS_Interval, FS_Subset, MpmcAssumption DEF Ran, Tasks
  <2>6. Cardinality(Ran') = Cardinality(Ran) + 1
    BY <2>4, <2>5, FS_AddElement, Zenon
  <2>7. IsFiniteSet(Counting') /\ Cardinality(Counting') = Cardinality(Counting) + 1
    BY <1>6, <2>2, FS_AddElement, Zenon
  <2> QED
    BY <1>6, <2>1, <2>6, <2>7 DEF Counted
<1>8. ASSUME NEW w \in Workers, CountTask(w) PROVE Counted'
  <2>0. w \in Threads
    BY Zenon DEF Threads
  <2>1. /\ pc[w] = "count" /\ pc'[w] \in {"pop_load", "loop"}
        /\ \A u \in Threads \ {w} : pc'[u] = pc[u]
        /\ ran' = ran /\ completed' = completed + 1
    BY <1>8, <2>0, Zenon DEF CountTask, Goto, taskVars
  <2>2. Counting' = Counting \ {w} /\ w \in Counting
    BY <2>0, <2>1, Zenon DEF Counting, Pushing, Threads
  <2>3. IsFiniteSet(Counting') /\ Cardinality(Counting') = Cardinality(Counting) - 1
    BY <1>6, <2>2, FS_RemoveElement, Zenon
  <2> QED
    BY <1>6, <2>1, <2>3 DEF Counted, Ran
<1> QED
  BY <1>1, <1>3, <1>4, <1>5, <1>7, <1>8, Zenon DEF Next, Work, Threads

-----------------------------------------------------------------------------
(* The pool for every number of threads and tasks                          *)

MpmcInv ==
  MpmcType /\ Order /\ Contents /\ OnePlace /\ Pending /\ NoneLost /\ Counted /\ Ending

(* The new pool satisfies the invariant,                                   *)
LEMMA InitInv == Init => MpmcInv
<1> SUFFICES ASSUME Init PROVE MpmcInv
  BY Zenon
<1>1. MpmcType /\ Order
  BY InitOrder, Zenon
<1>2. Queued = {} /\ \A t \in Threads : Hand(t) = NoTask /\ Early(t) = NoTask
  BY HandIs DEF Init, Queued, Early
<1>3. Contents
  BY <1>2, Zenon DEF Init, Contents, Pushing, Reader
<1>4. OnePlace /\ Pending /\ NoneLost
  BY <1>2 DEF Init, OnePlace, Pending, NotYetRun, NoneLost, Tasks, NoTask
<1>5. Counting = {} /\ Ran = {}
  BY Zenon DEF Init, Counting, Pushing, Ran, Threads
<1>6. Counted
  BY <1>5, FS_EmptySet DEF Init, Counted
<1>7. Ending
  BY Zenon DEF Init, Ending, Joined, Threads
<1> QED
  BY <1>1, <1>3, <1>4, <1>6, <1>7, Zenon DEF MpmcInv

(* and every step keeps it.                                                *)
LEMMA InvStep == ASSUME MpmcInv, [Next]_vars PROVE MpmcInv'
<1> USE DEF MpmcInv
<1>1. Order' /\ MpmcType' /\ Counted' /\ Ending'
  BY OrderStep, TypeStep, CountedStep, EndingStep, Zenon
<1>2. ItemsStay
  BY <1>1, ItemsStayStep, Zenon
<1>3. ASSUME NEW t \in Threads,
             \/ Push(t) \/ Pop(t) \/ Submit(t) \/ WorkerLoop(t) \/ RunTask(t) \/ CountTask(t)
      PROVE  Contents' /\ OnePlace' /\ Pending' /\ NoneLost'
  <2>1. Stays(t) \/ Puts(t) \/ Takes(t) \/ Offers(t) \/ Runs(t)
    BY <1>1, <1>3, OwnStep, Zenon
  <2>2. \A u \in Threads \ {t} : Hand(u)' = Hand(u) /\ Early(u)' = Early(u)
    BY <1>3, OthersStay, Zenon
  <2>3. OnePlace' /\ Pending'
    BY <1>2, <2>1, <2>2, OnePlaceStep, PendingStep, Zenon
  <2>4. Contents' /\ NoneLost'
    BY <1>1, <1>2, <1>3, ContentsStep, NoneLostStep, Zenon
  <2> QED
    BY <2>3, <2>4, Zenon
<1>4. CASE Stop \/ UNCHANGED vars
  <2>1. UNCHANGED <<queueVars, pc, pos, item, taskVars>>
    BY <1>4, Zenon DEF Stop, vars
  <2>2. UNCHANGED <<Queued, taskVars>> /\ \A t \in Threads : Hand(t)' = Hand(t) /\ Early(t)' = Early(t)
    BY <2>1, HandIs, HandWillBe, Zenon DEF queueVars, Queued, Early
  <2>3. OnePlace' /\ Pending'
    BY <1>2, <2>2 DEF OnePlace, Pending, NotYetRun, ItemsStay, taskVars
  <2>4. NoneLost'
    BY <1>2, <2>2, Zenon DEF NoneLost, ItemsStay, taskVars
  <2>5. Contents'
    BY <1>2, <2>1, <2>2, Zenon DEF Contents, ItemsStay, taskVars, queueVars, Reader
  <2> QED
    BY <1>1, <2>3, <2>4, <2>5, Zenon
<1> HIDE DEF MpmcInv
<1> QED
  BY <1>1, <1>3, <1>4, Zenon DEF Next, Work, Threads, MpmcInv

(* What the pool promises follows.                                         *)
LEMMA InvAccepted == ASSUME Workers # {}, MpmcInv PROVE AcceptedRun
<1> USE DEF MpmcInv
<1>1. \A x \in Tasks : ran[x] <= 1
  BY DEF Pending
<1>2. ASSUME Joined PROVE (\A x \in accepted : ran[x] = 1) /\ completed = Cardinality(accepted)
  <2>1. /\ dequeue_pos = enqueue_pos
        /\ \A t \in Threads : pc[t] \in {"exit", "idle"}
    BY <1>2, Zenon DEF Ending, Joined, Threads
  <2>2. Queued = {} /\ \A t \in Threads : Hand(t) = NoTask
    BY <2>1, HandIs DEF Queued, MpmcType
  <2>3. accepted = Ran /\ \A x \in accepted : ran[x] = 1
    <3>1. accepted \subseteq Tasks /\ NoTask \notin Tasks
      BY DEF MpmcType, Tasks, NoTask
    <3>2. \A x \in accepted : ran[x] # 0
      BY <2>2, <3>1, Zenon DEF NoneLost
    <3> QED
      BY <3>1, <3>2, Zenon DEF NoneLost, Pending, Ran
  <2>4. Counting = {}
    BY <2>1, Zenon DEF Counting, Pushing, Threads
  <2>5. Cardinality(Counting) = 0
    BY <2>4, FS_EmptySet, Zenon
  <2> QED
    BY <2>3, <2>5 DEF Counted, MpmcType
<1> QED
  BY <1>1, <1>2, Zenon DEF AcceptedRun

(* With at least one worker, no task runs twice, and when the destructor   *)
(* has joined the workers every task that submit() accepted has run and    *)
(* been counted, whatever the threads, the capacity and the interleaving.  *)
THEOREM AcceptedTasksRun == ASSUME Workers # {} PROVE Spec => []AcceptedRun
<1>1. MpmcInv => AcceptedRun
  BY InvAccepted, Zenon
<1> QED
  BY <1>1, InitInv, InvStep, PTL DEF Spec

(* Every step is one of the abstract queue, or does not show in it.        *)
LEMMA QueueStep == ASSUME MpmcInv, MpmcInv', [Next]_vars PROVE [Abstract!Next]_(Abstract!vars)
<1>1. ItemsStay /\ Views /\ Views'
  BY ItemsStayStep, Zenon DEF MpmcInv, Views
<1>2. ASSUME NEW t \in Threads,
             \/ Push(t) \/ Pop(t) \/ Submit(t) \/ WorkerLoop(t) \/ RunTask(t) \/ CountTask(t)
      PROVE  [Abstract!Next]_(Abstract!vars)
  <2>1. Stays(t) \/ Puts(t) \/ Takes(t) \/ Offers(t) \/ Runs(t)
    BY <1>1, <1>2, OwnStep, Zenon DEF Views
  <2>2. \A u \in Threads \ {t} : Hand(u)' = Hand(u)
    BY <1>1, <1>2, OthersStay, Zenon DEF Views
  <2> QED
    BY <1>1, <2>1, <2>2, ViewStep, Zenon
    DEF Abstract!Next, Abstract!vars, Abstract!Put, Abstract!Take, Abstract!Use, View, Hands
<1>3. CASE Stop \/ UNCHANGED vars
  <2>1. UNCHANGED <<queueVars, pc, pos, item, taskVars>>
    BY <1>3, Zenon DEF Stop, vars
  <2>2. View' = View
    BY <1>1, <2>1, ViewSame, Zenon DEF queueVars
  <2>3. \A t \in Threads : Hand(t)' = Hand(t)
    BY <2>1, HandIs, HandWillBe, Zenon DEF queueVars
  <2>4. Hands' = Hands
    BY <2>3, Zenon DEF Hands
  <2> QED
    BY <2>2, <2>4, Zenon DEF Abstract!vars, View, Hands
<1> QED
  BY <1>2, <1>3, Zenon DEF Next, Work, Threads

(* try_push() and try_pop() implement a bounded FIFO queue, whatever the   *)
(* number of threads inside them and the capacity.                         *)
THEOREM QueueRefined == Spec => QueueContract
<1>1. Init => Abstract!Init
  BY HandIs DEF Init, Abstract!Init
<1>2. MpmcInv /\ MpmcInv' /\ [Next]_vars => [Abstract!Next]_(Abstract!vars)
  BY QueueStep, Zenon
<1> QED
  BY <1>1, <1>2, InitInv, InvStep, PTL DEF Spec, QueueContract, Abstract!Spec
=============================================================================
