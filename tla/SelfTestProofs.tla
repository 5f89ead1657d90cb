--------------------------- MODULE SelfTestProofs ---------------------------
(***************************************************************************)
(* Proofs about SelfTest for any number of commands per test, of device    *)
(* slots and of user commands, with or without failing allocations and     *)
(* timeouts: every way out gives everything back, the handler never reads  *)
(* a freed ring, and the device writes only to allocated buffers.          *)
(***************************************************************************)
EXTENDS SelfTest, TLAPS

(* probe() is in a self-test that has its buffers.                         *)
Running == {"submit", "status", "retrigger", "wait", "check", "reset", "reinit", "drain", "reap"}

(* It has handed the device over, or is on its way out.                    *)
After == {"register", "live", "fini", "free_irq", "removed", "failed"}
Places == Running \cup After \cup
          {"probe", "request", "start", "rejections", "queue_init", "activate"}

(* What is acquired, and which test it may be, at each place of probe()    *)
(* and remove().                                                           *)
HeldInv ==
  /\ stage \in Tests /\ pc \in Places
  /\ pc \in {"probe", "failed", "removed"} => held = {}
  /\ pc = "request" => held = {"vectors"}
  /\ pc \in {"queue_init", "rejections", "free_irq"} => held = {"vectors", "irq"}
  /\ pc \in {"activate", "register", "fini"} => held = {"vectors", "irq", "rings"}
  /\ pc = "live" => held = {"vectors", "irq", "rings", "misc"}
  /\ pc \in Running \cup {"start"} =>
       held = IF stage \in QueueTests THEN {"vectors", "irq", "rings"} ELSE {"vectors", "irq"}
  /\ pc \in Running => stage \in bufs
  /\ pc \notin Running \cup {"start"} => bufs = {}
  /\ pc \in {"probe", "request", "rejections", "queue_init", "status", "retrigger"} =>
       stage \in {"m3", "m4"}
  /\ pc = "retrigger" => stage = "m4"
  /\ pc \in {"reset", "reinit", "drain", "reap"} => stage \in QueueTests
  /\ pc \in {"activate", "register", "live"} => stage = "rec"
  /\ isr_pc # "idle" => "irq" \in held

(* An error leads out; only M4 notes one and still waits.                  *)
ErrorInv ==
  /\ ret \in {"ok", "error"}
  /\ ret = "error" =>
       \/ pc \in {"fini", "free_irq", "failed"}
       \/ stage = "m4" /\ pc \in {"wait", "check"}

(* The command registers are busy only in a test that uses them.           *)
LegacyInv ==
  ret = "ok" /\ reg.busy = TRUE =>
    stage \in {"m3", "m4"} /\ pc \in {"status", "retrigger", "wait", "check"}

Names == (Tests \cup {"user"}) \X Nat
Entries == [cmd : Names, status : {"ok", "aborted"}]

QueueType ==
  /\ outstanding \in Seq(Names) /\ cq \in Seq(Entries)
  /\ cq_head \in 0..Len(cq)
  /\ sent \in Nat
  /\ inflight \in Int /\ issued \in 0..MaxUser
  /\ stage \notin QueueTests => outstanding = <<>> /\ cq = <<>>

(* The completions not yet reaped, and the commands the test has sent.     *)
Posted == (cq_head + 1)..Len(cq)
Mine == {stage} \X (1..sent)

(* A command of the test in progress is on the device, posted or reaped,   *)
(* and it is so once.                                                      *)
OnceInv ==
  /\ \A i \in 1..Len(outstanding) : outstanding[i] \in Mine
  /\ \A i \in Posted : cq[i].cmd \in Mine
  /\ \A c \in reaped : c.cmd \in Mine
  /\ \A i, j \in 1..Len(outstanding) : outstanding[i] = outstanding[j] => i = j
  /\ \A i, j \in Posted : cq[i].cmd = cq[j].cmd => i = j
  /\ \A c, d \in reaped : c.cmd = d.cmd => c = d
  /\ \A i \in 1..Len(outstanding), j \in Posted : outstanding[i] # cq[j].cmd
  /\ \A i \in 1..Len(outstanding), c \in reaped : outstanding[i] # c.cmd
  /\ \A j \in Posted, c \in reaped : cq[j].cmd # c.cmd

(* A test that uses the rings finds them quiet, and keeps count.           *)
TestInv ==
  /\ pc \in {"start", "activate"} => outstanding = <<>> /\ cq_head = Len(cq)
  /\ stage \in QueueTests /\ pc \in Running =>
       /\ sent <= Count(stage) /\ (pc = "submit" => sent < Count(stage))
       /\ pc = "reap" => tail \in cq_head..Len(cq)
       /\ OnceInv

(* The rings belong to user space, or the handler is still in its loop.    *)
HandedOver == uapi_active = TRUE \/ isr_pc \in {"loop", "advance"}

(* From then on inflight counts what is on the device or not yet routed,   *)
(* and while the device is not open there is nothing.                      *)
UserInv ==
  /\ HandedOver =>
       /\ pc \in After
       /\ inflight = Len(outstanding) + (Len(cq) - cq_head) - (IF isr_pc = "advance" THEN 1 ELSE 0)
       /\ \A i \in 1..Len(outstanding) : outstanding[i] \in UserCmds
       /\ \A i \in Posted : cq[i].cmd \in UserCmds
  /\ isr_pc = "loop" => isr_tail \in cq_head..Len(cq)
  /\ isr_pc = "advance" => isr_tail \in (cq_head + 1)..Len(cq)
  /\ pc \in After /\ ret = "ok" => uapi_active = TRUE
  /\ pc = "register" => isr_pc # "advance"
  /\ fd = TRUE => pc = "live"
  /\ fd # TRUE => inflight = 0

-----------------------------------------------------------------------------
(* What is held where                                                      *)

USE DEF Goto, IsrGoto

(* Before probe() nothing is held and nothing has failed.                  *)
LEMMA InitHeld == Init => HeldInv /\ ErrorInv /\ LegacyInv
BY DEF Init, HeldInv, ErrorInv, LegacyInv, Tests, Running, Places, After, Idle

(* A failing test unwinds from what it holds.                              *)
LEMMA FailHeld ==
  ASSUME HeldInv, pc \in Running \cup {"start", "rejections", "queue_init", "register"}, Fail,
         UNCHANGED <<held, isr_pc>>
  PROVE  HeldInv'
BY Zenon DEF HeldInv, Fail, Running, Places, After, QueueTests

(* Every step acquires and gives back in the order of the code.            *)
LEMMA HeldStep == HeldInv /\ [Next]_vars => HeldInv'
<1> SUFFICES ASSUME HeldInv, [Next]_vars PROVE HeldInv'
  BY Zenon
<1> USE DEF resVars, testVars, isrVars
<1>1. CASE AllocVectors \/ RequestIrq
  BY <1>1, Zenon DEF HeldInv, AllocVectors, RequestIrq, Running, Places, After, QueueTests
<1>2. CASE QueueInit
  <2>1. CASE pc' = "start" /\ stage' = "m6"
    BY <1>2, <2>1, Zenon DEF HeldInv, QueueInit, Fail, Running, Places, After, QueueTests, Tests
  <2>2. CASE Fail /\ UNCHANGED held
    BY <1>2, <2>2, FailHeld, Zenon DEF QueueInit
  <2> QED BY <1>2, <2>1, <2>2, Zenon DEF QueueInit
<1>3. CASE Activate \/ RemoveDriver \/ QueueFini
  BY <1>3 DEF HeldInv, Activate, RemoveDriver, QueueFini, Running, Places, After, QueueTests
<1>4. CASE MiscRegister
  <2>1. CASE pc' = "live"
    BY <1>4, <2>1, Zenon DEF HeldInv, MiscRegister, Fail, Running, Places, After, QueueTests, Tests
  <2>2. CASE Fail /\ UNCHANGED held
    BY <1>4, <2>2, FailHeld, Zenon DEF MiscRegister
  <2> QED BY <1>4, <2>1, <2>2, Zenon DEF MiscRegister
<1>5. CASE FreeIrq
  BY <1>5, Zenon DEF HeldInv, FreeIrq, Running, Places, After, QueueTests
<1>6. CASE StartTest
  <2>1. CASE pc' = "submit"
    BY <1>6, <2>1, Zenon DEF HeldInv, StartTest, Fail, Running, Places, After, QueueTests, Tests
  <2>2. CASE Fail
    BY <1>6, <2>2, FailHeld, Zenon DEF StartTest
  <2> QED BY <1>6, <2>1, <2>2, Zenon DEF StartTest
<1>7. CASE SubmitLegacy \/ CopyStatus
  BY <1>7, Zenon DEF HeldInv, SubmitLegacy, CopyStatus, Running, Places, After, QueueTests
<1>8. CASE Retrigger \/ RejectStatus
  BY <1>8, Zenon DEF HeldInv, Retrigger, RejectStatus, Running, Places, After, QueueTests
<1>9. CASE CheckLegacy
  <2>1. CASE Pass("m4", IF stage = "m3" THEN "start" ELSE "rejections")
    BY <1>9, <2>1, Zenon DEF HeldInv, CheckLegacy, Pass, Running, Places, After, QueueTests, Tests
  <2>2. CASE Fail
    BY <1>9, <2>2, FailHeld, Zenon DEF CheckLegacy, Running
  <2> QED BY <1>9, <2>1, <2>2, Zenon DEF CheckLegacy
<1>10. CASE M4Rejections
  <2>1. CASE pc' = "queue_init"
    BY <1>10, <2>1, Zenon DEF HeldInv, M4Rejections, Fail, Running, Places, After, QueueTests
  <2>2. CASE Fail
    BY <1>10, <2>2, FailHeld, Zenon DEF M4Rejections
  <2> QED BY <1>10, <2>1, <2>2, Zenon DEF M4Rejections
<1>11. CASE SubmitNext \/ Reset
  BY <1>11, Zenon DEF HeldInv, SubmitNext, Reset, Running, Places, After, QueueTests, Tests
<1>12. CASE Wait
  BY <1>12, Zenon DEF HeldInv, Wait, Running, Places, After, QueueTests, Tests
<1>13. CASE WaitTimeout
  <2>1. CASE pc' = "check" /\ UNCHANGED <<ret, bufs, stage>>
    BY <1>13, <2>1, Zenon DEF HeldInv, WaitTimeout, Running, Places, After, QueueTests, Tests
  <2>2. CASE Fail
    BY <1>13, <2>2, FailHeld, Zenon DEF WaitTimeout, Running
  <2> QED BY <1>13, <2>1, <2>2, Zenon DEF WaitTimeout
<1>14. CASE Reinit \/ ReadTail \/ Reap
  BY <1>14, Zenon DEF HeldInv, Reinit, ReadTail, Reap, Running, Places, After, QueueTests
<1>15. CASE CheckQueue
  <2>1. CASE TestPassed
    BY <1>15, <2>1, Zenon DEF HeldInv, CheckQueue, Pass, Running, Places, After, QueueTests, Tests
  <2>2. CASE Fail
    BY <1>15, <2>2, FailHeld, Zenon DEF CheckQueue, Running
  <2> QED BY <1>15, <2>1, <2>2, Zenon DEF CheckQueue
<1>16. CASE DeviceStep \/ Open \/ UserSubmit \/ Close
  <2>1. UNCHANGED <<stage, pc, held, bufs, isr_pc>>
    BY <1>16, Zenon DEF DeviceStep, FinishLegacy, Finish, Open, UserSubmit, Close, resVars,
       testVars, isrVars
  <2> QED BY <2>1 DEF HeldInv
<1>17. CASE IsrStep
  BY <1>17 DEF HeldInv, IsrStep, IsrEnter, IsrAck, IsrSignal, IsrReadTail, IsrRoute, IsrAdvance, IsrExit
<1>18. CASE UNCHANGED vars
  BY <1>18 DEF HeldInv, vars
<1> QED BY <1>1, <1>2, <1>3, <1>4, <1>5, <1>6, <1>7, <1>8, <1>9, <1>10, <1>11, <1>12, <1>13, <1>14,
           <1>15, <1>16, <1>17, <1>18, Zenon DEF Next, ProbeStep, UserStep

(* Every way out of probe() and remove(), with any allocation and any wait *)
(* failing, gives back what was acquired, with no handler left running.    *)
THEOREM EveryExitUnwinds == Spec => []Unwound
<1>1. Init => HeldInv
  BY InitHeld, Zenon
<1>2. HeldInv => Unwound
  BY Zenon DEF HeldInv, Unwound, Running, Places, After
<1> QED BY <1>1, <1>2, HeldStep, PTL DEF Spec

-----------------------------------------------------------------------------
(* Errors and the command registers                                        *)

(* No step goes on after an error.                                         *)
LEMMA ErrorStep == HeldInv /\ ErrorInv /\ [Next]_vars => ErrorInv'
<1> SUFFICES ASSUME HeldInv, ErrorInv, [Next]_vars PROVE ErrorInv'
  BY Zenon
<1> USE DEF testVars
<1>1. ASSUME Fail PROVE ErrorInv'
  BY <1>1, Zenon DEF Fail, ErrorInv
<1>2. CASE AllocVectors \/ RequestIrq \/ Activate \/ RemoveDriver \/ QueueFini \/ FreeIrq
  BY <1>2, Zenon DEF ErrorInv, AllocVectors, RequestIrq, Activate, RemoveDriver, QueueFini, FreeIrq
<1>3. CASE QueueInit \/ MiscRegister \/ StartTest \/ M4Rejections
  BY <1>1, <1>3, Zenon DEF ErrorInv, QueueInit, MiscRegister, StartTest, M4Rejections
<1>4. CASE SubmitLegacy \/ CopyStatus \/ Retrigger \/ RejectStatus
  BY <1>4, Zenon DEF ErrorInv, SubmitLegacy, CopyStatus, Retrigger, RejectStatus
<1>5. CASE CheckLegacy
  BY <1>1, <1>5, Zenon DEF ErrorInv, CheckLegacy, Pass
<1>6. CASE SubmitNext \/ Reset \/ Reinit \/ ReadTail
  BY <1>6, Zenon DEF ErrorInv, SubmitNext, Reset, Reinit, ReadTail
<1>7. CASE Wait \/ WaitTimeout
  BY <1>1, <1>7, Zenon DEF ErrorInv, Wait, WaitTimeout
<1>8. CASE Reap
  BY <1>8, Zenon DEF ErrorInv, Reap, HeldInv, QueueTests
<1>9. CASE CheckQueue
  BY <1>1, <1>9, Zenon DEF ErrorInv, CheckQueue, Pass, QueueTests
<1>10. CASE DeviceStep \/ IsrStep \/ Open \/ UserSubmit \/ Close \/ UNCHANGED vars
  <2>1. UNCHANGED <<pc, stage, ret>>
    BY <1>10, Zenon DEF DeviceStep, FinishLegacy, Finish, IsrStep, IsrEnter, IsrAck, IsrSignal,
       IsrReadTail,
                 IsrRoute, IsrAdvance, IsrExit, Open, UserSubmit, Close, vars
  <2> QED BY <2>1, Zenon DEF ErrorInv
<1> QED BY <1>2, <1>3, <1>4, <1>5, <1>6, <1>7, <1>8, <1>9, <1>10, Zenon DEF Next, ProbeStep, UserStep

(* A test of the command registers that ends well leaves them idle.        *)
LEMMA LegacyStep == HeldInv /\ ErrorInv /\ LegacyInv /\ [Next]_vars => LegacyInv'
<1> SUFFICES ASSUME HeldInv, ErrorInv, LegacyInv, [Next]_vars PROVE LegacyInv'
  BY Zenon
<1> USE DEF testVars
<1>1. ASSUME Fail PROVE LegacyInv'
  BY <1>1, Zenon DEF Fail, LegacyInv
<1>2. CASE AllocVectors \/ RequestIrq \/ Activate \/ RemoveDriver \/ QueueFini \/ FreeIrq
  BY <1>2, Zenon DEF LegacyInv, AllocVectors, RequestIrq, Activate, RemoveDriver, QueueFini, FreeIrq
<1>3. CASE QueueInit \/ MiscRegister \/ StartTest
  BY <1>1, <1>3, Zenon DEF LegacyInv, QueueInit, MiscRegister, StartTest
<1>4. CASE M4Rejections \/ Reset
  BY <1>4 DEF LegacyInv, M4Rejections, Reset, Idle
<1>5. CASE SubmitLegacy \/ Retrigger
  BY <1>5, Zenon DEF LegacyInv, HeldInv, SubmitLegacy, Retrigger
<1>6. CASE CopyStatus \/ RejectStatus
  BY <1>6, Zenon DEF LegacyInv, ErrorInv, CopyStatus, RejectStatus
<1>7. CASE CheckLegacy
  <2>1. CASE reg = Idle
    <3>1. reg'.busy = FALSE
      BY <1>7, <2>1, Zenon DEF CheckLegacy, Idle
    <3> QED BY <3>1, Zenon DEF LegacyInv
  <2>2. CASE reg # Idle
    BY <1>1, <1>7, <2>2, Zenon DEF CheckLegacy
  <2> QED BY <2>1, <2>2, Zenon
<1>8. CASE SubmitNext \/ Reinit \/ ReadTail \/ Reap
  BY <1>8, Zenon DEF LegacyInv, SubmitNext, Reinit, ReadTail, Reap
<1>9. CASE Wait \/ WaitTimeout
  BY <1>1, <1>9, Zenon DEF LegacyInv, Wait, WaitTimeout
<1>10. CASE CheckQueue
  BY <1>1, <1>10, Zenon DEF LegacyInv, CheckQueue, Pass, QueueTests
<1>11. CASE FinishLegacy
  BY <1>11, Zenon DEF LegacyInv, FinishLegacy, Idle
<1>12. CASE Finish \/ IsrStep \/ Open \/ UserSubmit \/ Close \/ UNCHANGED vars
  <2>1. UNCHANGED <<pc, stage, ret, reg>>
    BY <1>12, Zenon DEF Finish, IsrStep, IsrEnter, IsrAck, IsrSignal, IsrReadTail,
                 IsrRoute, IsrAdvance, IsrExit, Open, UserSubmit, Close, vars
  <2> QED BY <2>1, Zenon DEF LegacyInv
<1> QED BY <1>2, <1>3, <1>4, <1>5, <1>6, <1>7, <1>8, <1>9, <1>10, <1>11, <1>12, Zenon
           DEF Next, ProbeStep, DeviceStep, UserStep

-----------------------------------------------------------------------------
(* Sequences                                                               *)

Cat(a, b) == a \o b

(* c is a followed by b.                                                   *)
Joined(S, a, b, c) ==
  /\ c \in Seq(S) /\ Len(c) = Len(a) + Len(b)
  /\ \A j \in 1..Len(a) : c[j] = a[j]
  /\ \A j \in 1..Len(b) : c[Len(a) + j] = b[j]

(* The sequence q without its i-th element.                                *)
Without(q, i) == Cat(SubSeq(q, 1, i - 1), SubSeq(q, i + 1, Len(q)))

(* Two sequences joined.                                                   *)
LEMMA Concat ==
  ASSUME NEW S, NEW a \in Seq(S), NEW b \in Seq(S)
  PROVE  Joined(S, a, b, Cat(a, b))
<1> DEFINE c == a \o b
<1>1. c \in Seq(S) /\ Len(c) = Len(a) + Len(b) /\ Len(a) \in Nat /\ Len(b) \in Nat
  OBVIOUS
<1>2. \A j \in 1..(Len(a) + Len(b)) : c[j] = IF j <= Len(a) THEN a[j] ELSE b[j - Len(a)]
  OBVIOUS
<1>0. Cat(a, b) = c
  BY Zenon DEF Cat
<1> HIDE DEF c
<1>3. ASSUME NEW j \in 1..Len(a) PROVE c[j] = a[j]
  <2>1. j \in 1..(Len(a) + Len(b)) /\ j <= Len(a)
    BY <1>1
  <2> QED BY <1>2, <2>1, Zenon
<1>4. ASSUME NEW j \in 1..Len(b) PROVE c[Len(a) + j] = b[j]
  <2>1. Len(a) + j \in 1..(Len(a) + Len(b)) /\ ~ (Len(a) + j <= Len(a)) /\ (Len(a) + j) - Len(a) = j
    BY <1>1
  <2>2. c[Len(a) + j] = b[(Len(a) + j) - Len(a)]
    BY <1>2, <2>1, Zenon
  <2> QED BY <2>1, <2>2, Zenon
<1> QED BY <1>0, <1>1, <1>3, <1>4, Zenon DEF Joined

(* A descriptor finishes out of order.                                     *)
LEMMA Removed ==
  ASSUME NEW S, NEW q \in Seq(S), NEW i \in 1..Len(q)
  PROVE  /\ Without(q, i) \in Seq(S) /\ Len(Without(q, i)) = Len(q) - 1
         /\ \A j \in 1..(Len(q) - 1) : Without(q, i)[j] = q[IF j < i THEN j ELSE j + 1]
<1> DEFINE l == Len(q)
           a == SubSeq(q, 1, i - 1)
           b == SubSeq(q, i + 1, l)
           c == Cat(a, b)
<1>1. l \in Nat /\ i \in Nat /\ 1 <= i /\ i <= l
  OBVIOUS
<1>2. a \in Seq(S) /\ Len(a) = i - 1 /\ \A j \in 1..(i - 1) : a[j] = q[j]
  <2> DEFINE m == i - 1
  <2>1. m \in 0..l
    BY <1>1
  <2> HIDE DEF m
  <2>2. /\ SubSeq(q, 1, m) \in Seq(S) /\ Len(SubSeq(q, 1, m)) = m
        /\ \A j \in 1..m : SubSeq(q, 1, m)[j] = q[j]
    BY <1>1, <2>1
  <2> QED BY <2>2, Zenon DEF m
<1>3. b \in Seq(S) /\ Len(b) = l - i /\ \A j \in 1..(l - i) : b[j] = q[i + j]
  <2> DEFINE m == i + 1
  <2>1. m \in 1..(l + 1) /\ l - m + 1 = l - i /\ \A j \in 1..(l - i) : m + j - 1 = i + j
    BY <1>1
  <2>2. /\ SubSeq(q, m, l) \in Seq(S) /\ Len(SubSeq(q, m, l)) = l - m + 1
        /\ \A j \in 1..(l - m + 1) : SubSeq(q, m, l)[j] = q[m + j - 1]
    <3>1. m \in 1..(l + 1) BY <2>1
    <3> HIDE DEF m
    <3> QED BY <1>1, <3>1
  <2> QED BY <2>1, <2>2, Zenon
<1>4. Without(q, i) = c
  BY Zenon DEF Without
<1> HIDE DEF a, b
<1>6. /\ c \in Seq(S) /\ Len(c) = l - 1
      /\ \A j \in 1..(i - 1) : c[j] = q[j]
      /\ \A j \in 1..(l - i) : c[(i - 1) + j] = q[i + j]
  <2>1. /\ c \in Seq(S) /\ Len(c) = Len(a) + Len(b)
        /\ \A j \in 1..Len(a) : c[j] = a[j]
        /\ \A j \in 1..Len(b) : c[Len(a) + j] = b[j]
    <3>1. a \in Seq(S) /\ b \in Seq(S)
      BY <1>2, <1>3, Zenon
    <3>2. Joined(S, a, b, c)
      BY <3>1, Concat, Zenon
    <3> QED BY <3>2, Zenon DEF Joined
  <2> HIDE DEF c
  <2>2. Len(a) = i - 1 /\ Len(b) = l - i /\ (i - 1) + (l - i) = l - 1
    BY <1>1, <1>2, <1>3
  <2>3. /\ c \in Seq(S) /\ Len(c) = l - 1
        /\ \A j \in 1..(i - 1) : c[j] = a[j]
        /\ \A j \in 1..(l - i) : c[(i - 1) + j] = b[j]
    BY <2>1, <2>2, Zenon
  <2> QED BY <1>2, <1>3, <2>3, Zenon
<1> HIDE DEF c
<1>5. ASSUME NEW j \in 1..(l - 1) PROVE c[j] = q[IF j < i THEN j ELSE j + 1]
  <2>1. CASE j < i
    BY <1>1, <1>6, <2>1
  <2>2. CASE ~ (j < i)
    <3>1. j - (i - 1) \in 1..(l - i) /\ i + (j - (i - 1)) = j + 1 /\ (i - 1) + (j - (i - 1)) = j
      BY <1>1, <2>2
    <3>2. c[(i - 1) + (j - (i - 1))] = q[i + (j - (i - 1))]
      BY <1>6, <3>1, Zenon
    <3> QED BY <2>2, <3>1, <3>2, Zenon
  <2> QED BY <2>1, <2>2, Zenon
<1> QED BY <1>4, <1>5, <1>6, Zenon DEF l

(* What finishing descriptor i does to the queues.                         *)
LEMMA FinishQueues ==
  ASSUME QueueType, Finish
  PROVE  \E i \in 1..Len(outstanding) :
           /\ outstanding' \in Seq(Names) /\ Len(outstanding') = Len(outstanding) - 1
           /\ \A j \in 1..Len(outstanding') :
                \E k \in 1..Len(outstanding) : k # i /\ outstanding'[j] = outstanding[k]
           /\ \A j, k \in 1..Len(outstanding') :
                (\A m, n \in 1..Len(outstanding) : outstanding[m] = outstanding[n] => m = n) =>
                  (outstanding'[j] = outstanding'[k] => j = k)
           /\ cq' \in Seq(Entries) /\ Len(cq') = Len(cq) + 1
           /\ \A j \in 1..Len(cq) : cq'[j] = cq[j]
           /\ cq'[Len(cq) + 1].cmd = outstanding[i]
<1>1. PICK i \in 1..Len(outstanding) :
        /\ outstanding' = Without(outstanding, i)
        /\ cq' = Append(cq, [cmd |-> outstanding[i], status |-> "ok"])
  BY Zenon DEF Finish, Without, Cat
<1>2. outstanding \in Seq(Names) /\ cq \in Seq(Entries)
  BY Zenon DEF QueueType
<1>3. /\ outstanding' \in Seq(Names) /\ Len(outstanding') = Len(outstanding) - 1
      /\ \A j \in 1..(Len(outstanding) - 1) : outstanding'[j] = outstanding[IF j < i THEN j ELSE j + 1]
  BY <1>1, <1>2, Removed, Zenon
<1>4. Len(outstanding) \in Nat /\ Len(cq) \in Nat
  BY <1>2
<1>5. ASSUME NEW j \in 1..Len(outstanding')
      PROVE  \E k \in 1..Len(outstanding) : k # i /\ outstanding'[j] = outstanding[k]
  <2>1. (IF j < i THEN j ELSE j + 1) \in 1..Len(outstanding) /\ (IF j < i THEN j ELSE j + 1) # i
    BY <1>3, <1>4
  <2> QED BY <1>3, <2>1, Zenon
<1>6. ASSUME NEW j \in 1..Len(outstanding'), NEW k \in 1..Len(outstanding'),
             \A m, n \in 1..Len(outstanding) : outstanding[m] = outstanding[n] => m = n,
             outstanding'[j] = outstanding'[k]
      PROVE  j = k
  <2> DEFINE at(x) == IF x < i THEN x ELSE x + 1
  <2>1. at(j) \in 1..Len(outstanding) /\ at(k) \in 1..Len(outstanding) /\ (at(j) = at(k) => j = k)
    BY <1>3, <1>4
  <2>2. outstanding[at(j)] = outstanding[at(k)]
    BY <1>3, <1>6, Zenon
  <2> HIDE DEF at
  <2> QED BY <1>6, <2>1, <2>2, Zenon
<1>7. /\ cq' \in Seq(Entries) /\ Len(cq') = Len(cq) + 1
      /\ \A j \in 1..Len(cq) : cq'[j] = cq[j]
      /\ cq'[Len(cq) + 1].cmd = outstanding[i]
  <2> DEFINE e == [cmd |-> outstanding[i], status |-> "ok"]
  <2>1. e \in Entries /\ e.cmd = outstanding[i]
    BY <1>2 DEF Entries
  <2> HIDE DEF e
  <2>2. cq' = Append(cq, e)
    BY <1>1, Zenon DEF e
  <2> QED BY <1>2, <1>4, <2>1, <2>2
<1> QED BY <1>3, <1>5, <1>6, <1>7, Zenon

(* What RESET does to the queues.                                          *)
LEMMA ResetQueues ==
  ASSUME QueueType, Reset
  PROVE  /\ outstanding' = <<>>
         /\ cq' \in Seq(Entries) /\ Len(cq') = Len(cq) + Len(outstanding)
         /\ \A j \in 1..Len(cq) : cq'[j] = cq[j]
         /\ \A j \in 1..Len(outstanding) : cq'[Len(cq) + j].cmd = outstanding[j]
<1> DEFINE b == [i \in 1..Len(outstanding) |-> [cmd |-> outstanding[i], status |-> "aborted"]]
<1>1. outstanding \in Seq(Names) /\ cq \in Seq(Entries) /\ Len(outstanding) \in Nat /\ Len(cq) \in Nat
  BY DEF QueueType
<1>2. \A i \in 1..Len(outstanding) : [cmd |-> outstanding[i], status |-> "aborted"] \in Entries
  BY <1>1 DEF Entries
<1>3. b \in Seq(Entries) /\ Len(b) = Len(outstanding)
  BY <1>1, <1>2
<1>4. \A i \in 1..Len(outstanding) : b[i].cmd = outstanding[i]
  BY Zenon
<1>5. cq' = Cat(cq, b) /\ outstanding' = <<>>
  BY Zenon DEF Reset, Cat
<1> HIDE DEF b
<1>6. /\ cq' \in Seq(Entries) /\ Len(cq') = Len(cq) + Len(b)
      /\ \A j \in 1..Len(cq) : cq'[j] = cq[j]
      /\ \A j \in 1..Len(b) : cq'[Len(cq) + j] = b[j]
  <2>1. Joined(Entries, cq, b, Cat(cq, b))
    BY <1>1, <1>3, Concat, Zenon
  <2> QED BY <1>5, <2>1, Zenon DEF Joined
<1> QED BY <1>3, <1>4, <1>5, <1>6, Zenon

-----------------------------------------------------------------------------
(* The queues                                                              *)

(* Before probe() the rings are empty.                                     *)
LEMMA InitQueues == Init => QueueType /\ TestInv /\ UserInv
<1> SUFFICES ASSUME Init PROVE QueueType /\ TestInv /\ UserInv
  BY Zenon
<1>1. QueueType
  BY SelfTestAssumption DEF Init, QueueType
<1>2. TestInv /\ UserInv
  BY Zenon DEF Init, TestInv, UserInv, HandedOver, QueueTests, Running, After
<1> QED BY <1>1, <1>2, Zenon

(* The steps that leave the rings alone.                                   *)
LEMMA SameQueues ==
  ASSUME QueueType, UNCHANGED <<outstanding, cq, cq_head, inflight, issued>>, sent' \in Nat,
         stage' \notin QueueTests => stage \notin QueueTests
  PROVE  QueueType'
BY Zenon DEF QueueType

(* Every step keeps the types, and CQ_HEAD within what is posted.          *)
LEMMA QueueTypeStep ==
  ASSUME HeldInv, QueueType, TestInv, UserInv, [Next]_vars
  PROVE  QueueType'
<1> USE DEF testVars, queueVars, userVars
<1>0. sent \in Nat
  BY Zenon DEF QueueType
<1>1. CASE QueueInit
  <2>1. stage \notin QueueTests /\ cq = <<>> /\ outstanding = <<>>
    BY <1>1, Zenon DEF HeldInv, QueueInit, QueueType, QueueTests
  <2>2. cq_head' \in 0..Len(cq) /\ UNCHANGED <<outstanding, cq, inflight, issued, sent>>
    BY <1>1, <2>1 DEF QueueInit, QueueType
  <2> QED BY <2>1, <2>2, Zenon DEF QueueType
<1>2. CASE \/ AllocVectors \/ RequestIrq \/ Activate \/ MiscRegister \/ RemoveDriver \/ QueueFini
           \/ FreeIrq \/ SubmitLegacy \/ CopyStatus \/ Retrigger \/ RejectStatus \/ M4Rejections
           \/ Wait \/ WaitTimeout \/ Reinit \/ ReadTail \/ FinishLegacy \/ Open \/ Close
  <2>1. UNCHANGED <<outstanding, cq, cq_head, inflight, issued, sent>>
    BY <1>2, Zenon DEF AllocVectors, RequestIrq, Activate, MiscRegister, RemoveDriver, QueueFini,
       FreeIrq,
                SubmitLegacy, CopyStatus, Retrigger, RejectStatus, M4Rejections, Wait, WaitTimeout,
                Reinit, ReadTail, FinishLegacy, Open, Close
  <2>2. stage' = stage
    BY <1>2, Zenon DEF AllocVectors, RequestIrq, Activate, MiscRegister, RemoveDriver, QueueFini,
       FreeIrq,
                SubmitLegacy, CopyStatus, Retrigger, RejectStatus, M4Rejections, Wait, WaitTimeout,
                Reinit, ReadTail, FinishLegacy, Open, Close, Fail
  <2> QED BY <1>0, <2>1, <2>2, SameQueues, Zenon
<1>3. CASE StartTest
  <2>1. UNCHANGED <<outstanding, cq, cq_head, inflight, issued, stage>> /\ sent' = 0
    BY <1>3, Zenon DEF StartTest, Fail
  <2> QED BY <2>1, SameQueues, Zenon
<1>4. CASE CheckLegacy \/ CheckQueue
  <2>1. UNCHANGED <<outstanding, cq, cq_head, inflight, issued, sent>>
    BY <1>4, Zenon DEF CheckLegacy, CheckQueue
  <2>2. stage' \notin QueueTests => stage \notin QueueTests
    BY <1>4, Zenon DEF CheckLegacy, CheckQueue, Pass, Fail, QueueTests
  <2> QED BY <1>0, <2>1, <2>2, SameQueues, Zenon
<1>5. CASE SubmitNext
  <2>1. /\ outstanding' = Append(outstanding, <<stage, sent + 1>>) /\ sent' = sent + 1
        /\ stage \in QueueTests
        /\ UNCHANGED <<cq, cq_head, inflight, issued, stage>>
    BY <1>5, Zenon DEF SubmitNext
  <2>2. <<stage, sent + 1>> \in Names
    BY <1>0 DEF HeldInv, Names
  <2>3. outstanding' \in Seq(Names)
    BY <2>1, <2>2 DEF QueueType
  <2> QED BY <1>0, <2>1, <2>3 DEF QueueType
<1>6. CASE Reset
  <2>1. /\ outstanding' = <<>> /\ cq' \in Seq(Entries) /\ Len(cq') = Len(cq) + Len(outstanding)
    BY <1>6, ResetQueues, Zenon
  <2>2. stage \in QueueTests /\ UNCHANGED <<cq_head, inflight, issued, stage, sent>>
    BY <1>6, Zenon DEF HeldInv, Reset
  <2>3. Len(cq) \in Nat /\ Len(outstanding) \in Nat
    BY DEF QueueType
  <2> QED BY <2>1, <2>2, <2>3 DEF QueueType
<1>7. CASE Reap
  <2>1. pc = "reap" /\ cq_head' = tail /\ UNCHANGED <<outstanding, cq, inflight, issued, stage, sent>>
    BY <1>7, Zenon DEF Reap
  <2>2. tail \in cq_head..Len(cq)
    BY <2>1, Zenon DEF HeldInv, TestInv, Running
  <2>3. cq_head' \in 0..Len(cq)
    BY <2>1, <2>2 DEF QueueType
  <2> QED BY <2>1, <2>3, Zenon DEF QueueType
<1>8. CASE Finish
  <2>1. PICK i \in 1..Len(outstanding) :
          outstanding' \in Seq(Names) /\ cq' \in Seq(Entries) /\ Len(cq') = Len(cq) + 1
    BY <1>8, FinishQueues, Zenon
  <2>2. UNCHANGED <<cq_head, inflight, issued, stage, sent>>
    BY <1>8, Zenon DEF Finish
  <2>3. stage \in QueueTests
    BY DEF QueueType
  <2>4. cq_head' \in 0..Len(cq')
    BY <2>1, <2>2 DEF QueueType
  <2> QED BY <2>1, <2>2, <2>3, <2>4, Zenon DEF QueueType
<1>9. CASE UserSubmit
  <2>1. /\ fd = TRUE /\ outstanding' = Append(outstanding, <<"user", issued + 1>>)
        /\ issued < MaxUser /\ issued' = issued + 1 /\ inflight' = inflight + 1
        /\ UNCHANGED <<cq, cq_head, stage, sent>>
    BY <1>9, Zenon DEF UserSubmit
  <2>2. stage \in QueueTests
    BY <2>1, Zenon DEF UserInv, HeldInv, QueueTests
  <2>3. issued \in Nat /\ issued' \in 0..MaxUser /\ inflight' \in Int
    BY <2>1, SelfTestAssumption DEF QueueType
  <2>4. <<"user", issued + 1>> \in Names
    BY <2>3 DEF Names
  <2>5. outstanding' \in Seq(Names)
    BY <2>1, <2>4 DEF QueueType
  <2> QED BY <2>1, <2>2, <2>3, <2>5, Zenon DEF QueueType
<1>10. CASE IsrEnter \/ IsrAck \/ IsrSignal \/ IsrReadTail \/ IsrExit \/ UNCHANGED vars
  <2>1. UNCHANGED <<outstanding, cq, cq_head, inflight, issued, stage, sent>>
    BY <1>10, Zenon DEF IsrEnter, IsrAck, IsrSignal, IsrReadTail, IsrExit, vars
  <2> QED BY <1>0, <2>1, SameQueues, Zenon
<1>11. CASE IsrRoute
  <2>1. UNCHANGED <<outstanding, cq, cq_head, issued, stage, sent>> /\ inflight' \in Int
    BY <1>11 DEF IsrRoute, QueueType
  <2> QED BY <2>1, Zenon DEF QueueType
<1>12. CASE IsrAdvance
  <2>1. /\ isr_pc = "advance" /\ cq_head' = cq_head + 1
        /\ UNCHANGED <<outstanding, cq, inflight, issued, stage, sent>>
    BY <1>12, Zenon DEF IsrAdvance
  <2>2. cq_head' \in 0..Len(cq)
    BY <2>1 DEF UserInv, QueueType
  <2> QED BY <2>1, <2>2, Zenon DEF QueueType
<1> QED BY <1>1, <1>2, <1>3, <1>4, <1>5, <1>6, <1>7, <1>8, <1>9, <1>10, <1>11, <1>12, Zenon
           DEF Next, ProbeStep, DeviceStep, IsrStep, UserStep

-----------------------------------------------------------------------------
(* A command is in one place                                               *)

(* Submitting sends a new command;                                         *)
LEMMA OnceSubmit ==
  ASSUME QueueType, OnceInv, SubmitNext
  PROVE  OnceInv'
<1> DEFINE n == <<stage, sent + 1>>
           l == Len(outstanding) + 1
<1>1. sent \in Nat /\ outstanding \in Seq(Names) /\ Len(outstanding) \in Nat
  BY DEF QueueType
<1>2. outstanding' = Append(outstanding, n) /\ sent' = sent + 1 /\ UNCHANGED <<cq, cq_head, reaped, stage>>
  BY Zenon DEF SubmitNext
<1>3. n \notin Mine /\ n \in Mine' /\ Mine \subseteq Mine'
  BY <1>1, <1>2 DEF Mine
<1>4. l \notin 1..Len(outstanding) /\ \A i : i \in 1..l <=> i \in 1..Len(outstanding) \/ i = l
  BY <1>1
<1>5. Len(outstanding') = l /\ outstanding'[l] = n /\ \A i \in 1..Len(outstanding) : outstanding'[i] = outstanding[i]
  <2> HIDE DEF n
  <2> QED BY <1>1, <1>2
<1>6. Posted' = Posted
  BY <1>2, Zenon DEF Posted
<1> HIDE DEF n, l
<1>7. /\ \A i \in 1..l : outstanding'[i] \in Mine'
      /\ \A i \in Posted' : cq'[i].cmd \in Mine'
      /\ \A c \in reaped' : c.cmd \in Mine'
  BY <1>2, <1>3, <1>4, <1>5, <1>6 DEF OnceInv
<1>8. \A i, j \in 1..l : outstanding'[i] = outstanding'[j] => i = j
  <2>1. \A i \in 1..Len(outstanding) : outstanding'[i] # n
    BY <1>3, <1>5, Zenon DEF OnceInv
  <2>2. \A i, j \in 1..Len(outstanding) : outstanding'[i] = outstanding'[j] => i = j
    BY <1>5, Zenon DEF OnceInv
  <2> QED BY <1>4, <1>5, <2>1, <2>2, Zenon
<1>9. /\ \A i \in 1..l, j \in Posted' : outstanding'[i] # cq'[j].cmd
      /\ \A i \in 1..l, c \in reaped' : outstanding'[i] # c.cmd
  <2>1. \A j \in Posted : cq[j].cmd # n
    BY <1>3, Zenon DEF OnceInv
  <2>2. \A c \in reaped : c.cmd # n
    BY <1>3, Zenon DEF OnceInv
  <2>3. cq' = cq /\ reaped' = reaped
    BY <1>2, Zenon
  <2>4. /\ \A i \in 1..Len(outstanding), j \in Posted : outstanding'[i] # cq[j].cmd
        /\ \A i \in 1..Len(outstanding), c \in reaped : outstanding'[i] # c.cmd
    BY <1>5 DEF OnceInv
  <2>5. ASSUME NEW i \in 1..l, NEW j \in Posted PROVE outstanding'[i] # cq[j].cmd
    BY <1>4, <1>5, <2>1, <2>4, Zenon
  <2>6. ASSUME NEW i \in 1..l, NEW c \in reaped PROVE outstanding'[i] # c.cmd
    BY <1>4, <1>5, <2>2, <2>4, Zenon
  <2> QED BY <1>6, <2>3, <2>5, <2>6, Zenon
<1>10. /\ \A i, j \in Posted' : cq'[i].cmd = cq'[j].cmd => i = j
       /\ \A c, d \in reaped' : c.cmd = d.cmd => c = d
       /\ \A j \in Posted', c \in reaped' : cq'[j].cmd # c.cmd
  BY <1>2, <1>6, Zenon DEF OnceInv
<1> QED BY <1>5, <1>7, <1>8, <1>9, <1>10, Zenon DEF OnceInv

(* finishing one moves it from the device to the CQ ring;                  *)
LEMMA OnceFinish ==
  ASSUME QueueType, OnceInv, Finish
  PROVE  OnceInv'
<1>1. PICK i \in 1..Len(outstanding) :
        /\ \A j \in 1..Len(outstanding') :
             \E k \in 1..Len(outstanding) : k # i /\ outstanding'[j] = outstanding[k]
        /\ \A j, k \in 1..Len(outstanding') :
             (\A m, n \in 1..Len(outstanding) : outstanding[m] = outstanding[n] => m = n) =>
               (outstanding'[j] = outstanding'[k] => j = k)
        /\ Len(cq') = Len(cq) + 1
        /\ \A j \in 1..Len(cq) : cq'[j] = cq[j]
        /\ cq'[Len(cq) + 1].cmd = outstanding[i]
  BY FinishQueues, Zenon
<1>2. UNCHANGED <<cq_head, reaped, stage, sent>>
  BY Zenon DEF Finish, testVars
<1> DEFINE l == Len(cq) + 1
<1>3. cq_head \in 0..Len(cq) /\ Len(cq) \in Nat
  BY DEF QueueType
<1>4. /\ \A j : j \in Posted' <=> j \in Posted \/ j = l
      /\ \A j \in Posted : j \in 1..Len(cq)
      /\ l \notin Posted
  BY <1>1, <1>2, <1>3 DEF Posted
<1>5. Mine' = Mine
  BY <1>2, Zenon DEF Mine
<1>6. cq'[l].cmd = outstanding[i] /\ \A j \in Posted : cq'[j] = cq[j]
  BY <1>1, <1>4, Zenon
<1> HIDE DEF l
<1>7. \A j \in 1..Len(outstanding') : outstanding'[j] \in Mine'
  BY <1>1, <1>5, Zenon DEF OnceInv
<1>8. \A j \in Posted' : cq'[j].cmd \in Mine'
  BY <1>4, <1>5, <1>6, Zenon DEF OnceInv
<1>9. \A c \in reaped' : c.cmd \in Mine'
  BY <1>2, <1>5, Zenon DEF OnceInv
<1>10. \A j, k \in 1..Len(outstanding') : outstanding'[j] = outstanding'[k] => j = k
  BY <1>1, Zenon DEF OnceInv
<1>11. \A j, k \in Posted' : cq'[j].cmd = cq'[k].cmd => j = k
  <2>1. \A j \in Posted : cq'[j].cmd # outstanding[i]
    BY <1>6, Zenon DEF OnceInv
  <2>2. \A j, k \in Posted : cq'[j].cmd = cq'[k].cmd => j = k
    BY <1>6 DEF OnceInv
  <2> QED BY <1>4, <1>6, <2>1, <2>2, Zenon
<1>12. \A c, d \in reaped' : c.cmd = d.cmd => c = d
  BY <1>2, Zenon DEF OnceInv
<1>13. ASSUME NEW j \in 1..Len(outstanding'), NEW k \in Posted' PROVE outstanding'[j] # cq'[k].cmd
  <2>1. PICK m \in 1..Len(outstanding) : m # i /\ outstanding'[j] = outstanding[m]
    BY <1>1, Zenon
  <2>2. CASE k = l
    BY <1>6, <2>1, <2>2 DEF OnceInv
  <2>3. CASE k \in Posted
    BY <1>6, <2>1, <2>3 DEF OnceInv
  <2> QED BY <1>4, <2>2, <2>3, Zenon
<1>14. \A j \in 1..Len(outstanding'), c \in reaped' : outstanding'[j] # c.cmd
  BY <1>1, <1>2 DEF OnceInv
<1>15. \A j \in Posted', c \in reaped' : cq'[j].cmd # c.cmd
  BY <1>2, <1>4, <1>6 DEF OnceInv
<1> QED BY <1>7, <1>8, <1>9, <1>10, <1>11, <1>12, <1>13, <1>14, <1>15, Zenon DEF OnceInv

(* RESET moves all of them there;                                          *)
LEMMA OnceReset ==
  ASSUME QueueType, OnceInv, Reset
  PROVE  OnceInv'
<1>1. /\ outstanding' = <<>> /\ Len(cq') = Len(cq) + Len(outstanding)
      /\ \A j \in 1..Len(cq) : cq'[j] = cq[j]
      /\ \A j \in 1..Len(outstanding) : cq'[Len(cq) + j].cmd = outstanding[j]
  BY ResetQueues, Zenon
<1>2. UNCHANGED <<cq_head, reaped, stage, sent>>
  BY Zenon DEF Reset, testVars
<1>3. cq_head \in 0..Len(cq) /\ Len(cq) \in Nat /\ Len(outstanding) \in Nat
  BY DEF QueueType
<1>4. Mine' = Mine
  BY <1>2, Zenon DEF Mine
<1>5. ASSUME NEW j \in Posted'
      PROVE  \/ j \in Posted /\ cq'[j] = cq[j]
             \/ \E k \in 1..Len(outstanding) : j = Len(cq) + k /\ cq'[j].cmd = outstanding[k]
  <2>1. CASE j <= Len(cq)
    <3>1. j \in Posted /\ j \in 1..Len(cq)
      BY <1>1, <1>2, <1>3, <2>1 DEF Posted
    <3> QED BY <1>1, <3>1, Zenon
  <2>2. CASE ~ (j <= Len(cq))
    <3>1. j - Len(cq) \in 1..Len(outstanding) /\ j = Len(cq) + (j - Len(cq))
      BY <1>1, <1>2, <1>3, <2>2 DEF Posted
    <3>2. cq'[Len(cq) + (j - Len(cq))].cmd = outstanding[j - Len(cq)]
      BY <1>1, <3>1, Zenon
    <3> QED BY <3>1, <3>2, Zenon
  <2> QED BY <2>1, <2>2, Zenon
<1>6. 1..Len(outstanding') = {}
  BY <1>1
<1>7. \A j \in Posted' : cq'[j].cmd \in Mine'
  BY <1>4, <1>5, Zenon DEF OnceInv
<1>8. \A c \in reaped' : c.cmd \in Mine'
  BY <1>2, <1>4, Zenon DEF OnceInv
<1>9. \A j, k \in Posted' : cq'[j].cmd = cq'[k].cmd => j = k
  BY <1>5 DEF OnceInv
<1>10. \A c, d \in reaped' : c.cmd = d.cmd => c = d
  BY <1>2, Zenon DEF OnceInv
<1>11. \A j \in Posted', c \in reaped' : cq'[j].cmd # c.cmd
  BY <1>2, <1>5 DEF OnceInv
<1> QED BY <1>6, <1>7, <1>8, <1>9, <1>10, <1>11, Zenon DEF OnceInv

(* and reaping moves what is posted up to the tail that was read.          *)
LEMMA OnceReap ==
  ASSUME QueueType, OnceInv, Reap, tail \in cq_head..Len(cq)
  PROVE  OnceInv'
<1> DEFINE s == SubSeq(cq, cq_head + 1, tail)
           new == {c \in Range(s) : c.cmd \in CmdsOf(stage)}
<1>1. /\ cq_head' = tail /\ reaped' = reaped \cup new
      /\ UNCHANGED <<outstanding, cq, stage, sent>>
  BY Zenon DEF Reap, queueVars
<1>2. cq_head \in 0..Len(cq) /\ Len(cq) \in Nat /\ tail \in Nat /\ cq \in Seq(Entries)
  BY DEF QueueType
<1>3. ASSUME NEW c \in new PROVE \E j \in (cq_head + 1)..tail : c = cq[j]
  <2> DEFINE m == cq_head + 1
  <2>1. m \in 1..(Len(cq) + 1) /\ tail \in (m - 1)..Len(cq)
    BY <1>2
  <2>2. DOMAIN s = 1..(tail - m + 1) /\ \A i \in 1..(tail - m + 1) : s[i] = cq[m + i - 1]
    <3> HIDE DEF m
    <3>1. /\ DOMAIN SubSeq(cq, m, tail) = 1..(tail - m + 1)
          /\ \A i \in 1..(tail - m + 1) : SubSeq(cq, m, tail)[i] = cq[m + i - 1]
      BY <1>2, <2>1
    <3> QED BY <3>1, Zenon DEF m
  <2>3. PICK i \in DOMAIN s : c = s[i]
    BY Zenon DEF Range
  <2>4. m + i - 1 \in m..tail /\ c = cq[m + i - 1]
    BY <1>2, <2>1, <2>2, <2>3
  <2> QED BY <2>4, Zenon
<1> HIDE DEF new
<1>4. /\ \A j \in (cq_head + 1)..tail : j \in Posted /\ j \notin Posted'
      /\ \A j \in Posted' : j \in Posted
  BY <1>1, <1>2 DEF Posted
<1>5. \A c \in new : \E j \in Posted : j \notin Posted' /\ c = cq[j]
  BY <1>3, <1>4, Zenon
<1>6. Mine' = Mine /\ cq' = cq /\ outstanding' = outstanding
  BY <1>1, Zenon DEF Mine
<1>7. \A c \in reaped' : c \in reaped \/ c \in new
  BY <1>1, Zenon
<1>8. /\ \A i \in 1..Len(outstanding') : outstanding'[i] \in Mine'
      /\ \A i \in Posted' : cq'[i].cmd \in Mine'
      /\ \A i, j \in 1..Len(outstanding') : outstanding'[i] = outstanding'[j] => i = j
      /\ \A i, j \in Posted' : cq'[i].cmd = cq'[j].cmd => i = j
      /\ \A i \in 1..Len(outstanding'), j \in Posted' : outstanding'[i] # cq'[j].cmd
  BY <1>4, <1>6 DEF OnceInv
<1>9. \A c \in reaped' : c.cmd \in Mine'
  BY <1>5, <1>6, <1>7, Zenon DEF OnceInv
<1>10. ASSUME NEW c \in reaped', NEW d \in reaped', c.cmd = d.cmd PROVE c = d
  BY <1>5, <1>7, <1>10 DEF OnceInv
<1>11. \A i \in 1..Len(outstanding'), c \in reaped' : outstanding'[i] # c.cmd
  BY <1>5, <1>6, <1>7 DEF OnceInv
<1>12. ASSUME NEW j \in Posted', NEW c \in reaped' PROVE cq'[j].cmd # c.cmd
  BY <1>4, <1>5, <1>6, <1>7 DEF OnceInv
<1> QED BY <1>8, <1>9, <1>10, <1>11, <1>12, Zenon DEF OnceInv

-----------------------------------------------------------------------------
(* A test that has collected all its completions leaves the device quiet   *)

INSTANCE FiniteSetTheorems

(* A test that has reaped as many completions as it wanted has reaped one  *)
(* of every command it sent, so none is left.                              *)
LEMMA AllDone ==
  ASSUME QueueType, OnceInv, sent <= Count(stage), Cardinality(reaped) = Count(stage)
  PROVE  outstanding = <<>> /\ cq_head = Len(cq)
<1> DEFINE n == Count(stage)
           f == [c \in reaped |-> c.cmd[2]]
<1>1. n \in Nat /\ sent \in Nat /\ sent <= n
  BY SelfTestAssumption, Zenon DEF QueueType, Count
<1>2. \A c : c \in Mine => c[2] \in 1..n /\ c = <<stage, c[2]>>
  BY <1>1 DEF Mine
<1> HIDE DEF n
<1>3. \A c \in reaped : c.cmd[2] \in 1..n /\ c.cmd = <<stage, c.cmd[2]>>
  BY <1>2, Zenon DEF OnceInv
<1>4. f \in [reaped -> 1..n]
  BY <1>3, Zenon
<1>5. \A c, d \in reaped : f[c] = f[d] => c = d
  BY <1>3 DEF OnceInv
<1>6. IsFiniteSet(1..n) /\ Cardinality(1..n) = n
  BY <1>1, FS_Interval
<1>7. ASSUME NEW x, x \in Mine PROVE \E c \in reaped : c.cmd = x
  <2>1. x[2] \in 1..n /\ x = <<stage, x[2]>>
    BY <1>2, <1>7, Zenon
  <2>2. \E c \in reaped : f[c] = x[2]
    <3>1. f \in Injection(reaped, 1..n)
      BY <1>4, <1>5, Zenon DEF Injection, IsInjective
    <3>2. f \in Surjection(reaped, 1..n)
      BY <1>6, <3>1, FS_Injection, Zenon DEF n
    <3> QED BY <2>1, <3>2, Zenon DEF Surjection
  <2> QED BY <1>3, <2>1, <2>2, Zenon
<1>8. Len(outstanding) \in Nat /\ Len(cq) \in Nat /\ cq_head \in 0..Len(cq) /\ outstanding \in Seq(Names)
  BY DEF QueueType
<1>9. 1 \notin 1..Len(outstanding)
  BY <1>7, Zenon DEF OnceInv
<1>10. Len(cq) \notin Posted
  BY <1>7, Zenon DEF OnceInv
<1>11. cq_head = Len(cq)
  BY <1>8, <1>10 DEF Posted
<1> QED BY <1>8, <1>9, <1>11

(* A step that touches none of this keeps it.                              *)
LEMMA OnceSame ==
  ASSUME OnceInv, UNCHANGED <<outstanding, cq, cq_head, reaped, stage, sent>>
  PROVE  OnceInv'
BY DEF OnceInv, Posted, Mine

(* Every step keeps the account of the test, and a test that passes leaves *)
(* the rings quiet.                                                        *)
LEMMA TestStep ==
  ASSUME HeldInv, ErrorInv, QueueType, TestInv, UserInv, [Next]_vars
  PROVE  TestInv'
<1> USE DEF testVars, queueVars
<1> DEFINE T == /\ sent <= Count(stage) /\ (pc = "submit" => sent < Count(stage))
                /\ pc = "reap" => tail \in cq_head..Len(cq)
                /\ OnceInv
<1>1. /\ pc \in {"start", "activate"} => outstanding = <<>> /\ cq_head = Len(cq)
      /\ stage \in QueueTests /\ pc \in Running => T
  BY Zenon DEF TestInv
<1>2. ASSUME pc' \notin Running \cup {"start", "activate"} PROVE TestInv'
  BY <1>2, Zenon DEF TestInv
<1>3. ASSUME stage' \notin QueueTests, UNCHANGED <<outstanding, cq, cq_head>>,
             stage \notin QueueTests
      PROVE  TestInv'
  <2>1. outstanding' = <<>> /\ cq_head' = Len(cq')
    BY <1>3 DEF QueueType
  <2> QED BY <1>3, <2>1, Zenon DEF TestInv
<1>4. ASSUME Fail PROVE TestInv'
  BY <1>2, <1>4, Zenon DEF Fail, Running
<1>5. CASE \/ AllocVectors \/ Activate \/ MiscRegister \/ RemoveDriver \/ QueueFini \/ FreeIrq
           \/ M4Rejections
  BY <1>2, <1>4, <1>5, Zenon DEF AllocVectors, Activate, MiscRegister, RemoveDriver, QueueFini,
                           FreeIrq, M4Rejections, Running
<1>6. CASE RequestIrq \/ SubmitLegacy \/ CopyStatus \/ Retrigger \/ RejectStatus
  <2>1. UNCHANGED <<outstanding, cq, cq_head, stage>>
    BY <1>6, Zenon DEF RequestIrq, SubmitLegacy, CopyStatus, Retrigger, RejectStatus
  <2>2. stage \notin QueueTests
    BY <1>6, Zenon DEF RequestIrq, SubmitLegacy, CopyStatus, Retrigger, RejectStatus, HeldInv,
       QueueTests
  <2> QED BY <1>3, <2>1, <2>2, Zenon
<1>7. CASE CheckLegacy
  <2>1. CASE Fail
    BY <1>4, <2>1, Zenon
  <2>2. CASE stage' = "m4"
    <3>1. UNCHANGED <<outstanding, cq, cq_head>> /\ stage \notin QueueTests /\ stage' \notin QueueTests
      BY <1>7, <2>2, Zenon DEF CheckLegacy, QueueTests
    <3> QED BY <1>3, <3>1, Zenon
  <2> QED BY <1>7, <2>1, <2>2, Zenon DEF CheckLegacy, Pass
<1>8. CASE QueueInit
  <2>1. CASE Fail
    BY <1>4, <2>1, Zenon
  <2>2. CASE pc' = "start" /\ cq_head' = 0
    <3>1. outstanding' = <<>> /\ cq' = <<>>
      BY <1>8, Zenon DEF QueueInit, HeldInv, QueueType, QueueTests
    <3> QED BY <2>2, <3>1, Zenon DEF TestInv, Running
  <2> QED BY <1>8, <2>1, <2>2, Zenon DEF QueueInit
<1>9. CASE StartTest
  <2>1. CASE Fail
    BY <1>4, <2>1, Zenon
  <2>2. CASE pc' = "submit" /\ stage' = stage
    <3>1. /\ sent' = 0 /\ reaped' = {} /\ outstanding' = <<>> /\ cq_head' = Len(cq')
      BY <1>1, <1>9, Zenon DEF StartTest
    <3>2. OnceInv'
      <4>1. 1..Len(outstanding') = {} /\ Posted' = {} /\ reaped' = {}
        <5>1. Len(cq') \in Nat
          BY <1>9 DEF StartTest, QueueType
        <5>2. Posted' = (cq_head' + 1)..Len(cq')
          BY Zenon DEF Posted
        <5> QED BY <3>1, <5>1, <5>2
      <4> QED BY <4>1, Zenon DEF OnceInv
    <3>3. sent' <= Count(stage)' /\ sent' < Count(stage)'
      BY <3>1, SelfTestAssumption DEF Count
    <3>4. pc' # "reap" /\ pc' \notin {"start", "activate"}
      BY <2>2, Zenon
    <3> QED BY <3>2, <3>3, <3>4, Zenon DEF TestInv
  <2> QED BY <1>9, <2>1, <2>2, Zenon DEF StartTest
<1>10. CASE Wait \/ Reinit \/ WaitTimeout
  <2>1. CASE Fail
    BY <1>4, <2>1, Zenon
  <2>2. CASE pc' \in {"check", "drain", "reinit"} /\ stage' = stage
    <3>1. UNCHANGED <<outstanding, cq, cq_head, reaped, stage, sent>> /\ pc \in Running
      BY <1>10, <2>2, Zenon DEF Wait, Reinit, WaitTimeout, Running
    <3>2. ASSUME stage \in QueueTests PROVE OnceInv' /\ sent' <= Count(stage)'
      BY <1>1, <3>1, <3>2, OnceSame, Zenon DEF Count
    <3> QED BY <2>2, <3>1, <3>2, Zenon DEF TestInv
  <2>3. Fail \/ (pc' \in {"check", "drain", "reinit"} /\ stage' = stage)
    BY <1>10, Zenon DEF Wait, Reinit, WaitTimeout
  <2> QED BY <2>1, <2>2, <2>3, Zenon
<1>11. CASE ReadTail
  <2>1. /\ pc = "drain" /\ pc' = "reap" /\ tail' = Len(cq)
        /\ UNCHANGED <<outstanding, cq, cq_head, reaped, stage, sent>>
    BY <1>11, Zenon DEF ReadTail
  <2>2. stage \in QueueTests /\ pc \in Running
    BY <2>1, Zenon DEF HeldInv, Running
  <2>3. OnceInv' /\ sent' <= Count(stage)'
    BY <1>1, <2>1, <2>2, OnceSame, Zenon DEF Count
  <2>4. tail' \in cq_head'..Len(cq')
    BY <2>1 DEF QueueType
  <2> QED BY <2>1, <2>3, <2>4, Zenon DEF TestInv
<1>12. CASE SubmitNext
  <2>1. /\ pc = "submit" /\ stage \in QueueTests /\ sent' = sent + 1 /\ stage' = stage
        /\ pc' \in {"submit", "reset", "wait"} /\ (pc' = "submit" => sent + 1 < Count(stage))
    BY <1>12, Zenon DEF SubmitNext
  <2>2. OnceInv /\ sent < Count(stage) /\ sent \in Nat /\ Count(stage) \in Nat
    BY <1>1, <2>1, SelfTestAssumption, Zenon DEF Running, QueueType, Count
  <2>3. OnceInv'
    BY <1>12, <2>2, OnceSubmit, Zenon
  <2>4. Count(stage)' = Count(stage)
    BY <2>1, Zenon DEF Count
  <2>5. sent' <= Count(stage)' /\ (pc' = "submit" => sent' < Count(stage)')
    BY <2>1, <2>2, <2>4
  <2> QED BY <2>1, <2>3, <2>5, Zenon DEF TestInv
<1>13. CASE Reset
  <2>1. pc = "reset" /\ pc' = "wait" /\ UNCHANGED <<stage, sent>>
    BY <1>13, Zenon DEF Reset
  <2>2. OnceInv /\ sent <= Count(stage)
    BY <1>1, <2>1, Zenon DEF HeldInv, Running
  <2>3. OnceInv'
    BY <1>13, <2>2, OnceReset, Zenon
  <2>4. sent' <= Count(stage)'
    BY <2>1, <2>2, Zenon DEF Count
  <2> QED BY <2>1, <2>3, <2>4, Zenon DEF TestInv
<1>14. CASE Reap
  <2>1. pc = "reap" /\ pc' \in {"wait", "check"} /\ UNCHANGED <<stage, sent>>
    BY <1>14, Zenon DEF Reap
  <2>2. OnceInv /\ sent <= Count(stage) /\ tail \in cq_head..Len(cq)
    BY <1>1, <2>1, Zenon DEF HeldInv, Running
  <2>3. OnceInv'
    BY <1>14, <2>2, OnceReap, Zenon
  <2>4. sent' <= Count(stage)'
    BY <2>1, <2>2, Zenon DEF Count
  <2> QED BY <2>1, <2>3, <2>4, Zenon DEF TestInv
<1>15. CASE CheckQueue
  <2>1. CASE Fail
    BY <1>4, <2>1, Zenon
  <2>2. CASE TestPassed
    <3>1. pc = "check" /\ stage \in QueueTests /\ UNCHANGED <<outstanding, cq, cq_head>>
      BY <1>15, Zenon DEF CheckQueue
    <3>2. OnceInv /\ sent <= Count(stage)
      BY <1>1, <3>1, Zenon DEF Running
    <3>3. outstanding = <<>> /\ cq_head = Len(cq)
      BY <2>2, <3>2, AllDone, Zenon DEF TestPassed
    <3>4. pc' \in {"start", "activate"}
      BY <1>15, <2>2, Zenon DEF CheckQueue, Pass, QueueTests
    <3> QED BY <3>1, <3>3, <3>4, Zenon DEF TestInv, Running
  <2> QED BY <1>15, <2>1, <2>2, Zenon DEF CheckQueue
<1>16. CASE Finish
  <2>1. UNCHANGED <<pc, stage, sent, tail, cq_head>>
    BY <1>16, Zenon DEF Finish
  <2>2. PICK i \in 1..Len(outstanding) : Len(cq') = Len(cq) + 1
    BY <1>16, FinishQueues, Zenon
  <2>3. pc \notin {"start", "activate"}
    BY <1>1, <2>2
  <2>4. ASSUME stage \in QueueTests, pc \in Running PROVE OnceInv'
    BY <1>1, <1>16, <2>4, OnceFinish, Zenon
  <2>5. tail \in cq_head..Len(cq) => tail' \in cq_head'..Len(cq')
    BY <2>1, <2>2 DEF QueueType
  <2>6. Count(stage)' = Count(stage)
    BY <2>1, Zenon DEF Count
  <2> QED BY <1>1, <2>1, <2>3, <2>4, <2>5, <2>6, Zenon DEF TestInv
<1>17. CASE UserSubmit \/ IsrAdvance
  <2>1. pc' = pc /\ (fd = TRUE \/ isr_pc = "advance")
    BY <1>17, Zenon DEF UserSubmit, IsrAdvance
  <2>2. pc \notin Running \cup {"start", "activate"}
    BY <2>1, Zenon DEF UserInv, HandedOver, Running, After
  <2> QED BY <1>2, <2>1, <2>2, Zenon
<1>18. CASE \/ FinishLegacy \/ Open \/ Close \/ IsrEnter \/ IsrAck \/ IsrSignal \/ IsrReadTail
            \/ IsrRoute \/ IsrExit \/ UNCHANGED vars
  <2>1. UNCHANGED <<pc, outstanding, cq, cq_head, reaped, stage, sent, tail>>
    BY <1>18, Zenon DEF FinishLegacy, Open, Close, IsrEnter, IsrAck, IsrSignal, IsrReadTail, IsrRoute,
                 IsrExit, vars
  <2>2. OnceInv => OnceInv'
    BY <2>1, OnceSame, Zenon
  <2>3. Count(stage)' = Count(stage)
    BY <2>1, Zenon DEF Count
  <2> QED BY <1>1, <2>1, <2>2, <2>3, Zenon DEF TestInv
<1> QED BY <1>5, <1>6, <1>7, <1>8, <1>9, <1>10, <1>11, <1>12, <1>13, <1>14, <1>15, <1>16, <1>17, <1>18,
           Zenon DEF Next, ProbeStep, DeviceStep, IsrStep, UserStep

-----------------------------------------------------------------------------
(* From the hand-over on                                                   *)

(* What the count means while user space has the rings.                    *)
LEMMA InflightCounts ==
  ASSUME QueueType, UserInv, HandedOver
  PROVE  /\ Len(outstanding) \in Nat /\ Len(cq) \in Nat /\ cq_head \in 0..Len(cq) /\ inflight \in Int
         /\ inflight = Len(outstanding) + (Len(cq) - cq_head) - (IF isr_pc = "advance" THEN 1 ELSE 0)
         /\ isr_pc = "advance" => cq_head < Len(cq)
         /\ inflight >= 0
<1>1. /\ Len(outstanding) \in Nat /\ Len(cq) \in Nat /\ cq_head \in 0..Len(cq) /\ inflight \in Int
  BY DEF QueueType
<1>2. inflight = Len(outstanding) + (Len(cq) - cq_head) - (IF isr_pc = "advance" THEN 1 ELSE 0)
  BY Zenon DEF UserInv
<1>3. isr_pc = "advance" => cq_head < Len(cq)
  BY <1>1 DEF UserInv
<1> QED BY <1>1, <1>2, <1>3

(* Before the hand-over nothing of this changes.                           *)
LEMMA UserBefore ==
  ASSUME UserInv, ~ HandedOver, fd # TRUE,
         UNCHANGED <<uapi_active, isr_pc, isr_tail, fd, inflight>>,
         pc' \in After => ret' = "error"
  PROVE  UserInv'
<1>1. ~ HandedOver'
  BY Zenon DEF HandedOver
<1>2. isr_pc' \notin {"loop", "advance"}
  BY Zenon DEF HandedOver
<1>3. inflight' = 0 /\ fd' # TRUE
  BY Zenon DEF UserInv
<1>4. ~ (pc' \in After /\ ret' = "ok")
  BY Zenon
<1> QED BY <1>1, <1>2, <1>3, <1>4, Zenon DEF UserInv

(* The steps that leave the rings and the handler alone.                   *)
LEMMA UserSame ==
  ASSUME UserInv, UNCHANGED <<outstanding, cq, cq_head, uapi_active, isr_pc, isr_tail, fd, inflight>>,
         pc \in After => pc' \in After,
         pc' \in After /\ ret' = "ok" => uapi_active = TRUE,
         pc' = "register" => pc = "register",
         fd = TRUE => pc' = "live"
  PROVE  UserInv'
<1>1. Posted' = Posted /\ HandedOver' = HandedOver
  BY Zenon DEF Posted, HandedOver
<1>2. HandedOver' =>
       /\ pc' \in After
       /\ inflight' = Len(outstanding') + (Len(cq') - cq_head') - (IF isr_pc' = "advance" THEN 1 ELSE 0)
       /\ \A i \in 1..Len(outstanding') : outstanding'[i] \in UserCmds
       /\ \A i \in Posted' : cq'[i].cmd \in UserCmds
  BY <1>1, Zenon DEF UserInv
<1> QED BY <1>2, Zenon DEF UserInv

(* Every step keeps inflight counting what is on the device or not yet     *)
(* routed.                                                                 *)
LEMMA UserStepInv ==
  ASSUME HeldInv, ErrorInv, QueueType, TestInv, UserInv, [Next]_vars
  PROVE  UserInv'
<1> USE DEF testVars, queueVars, isrVars, userVars
<1>0. pc \notin After => ~ HandedOver /\ fd # TRUE
  BY Zenon DEF UserInv, After
<1>1. CASE \/ AllocVectors \/ RequestIrq \/ QueueInit \/ StartTest \/ SubmitLegacy \/ CopyStatus
           \/ Retrigger \/ RejectStatus \/ CheckLegacy \/ M4Rejections \/ SubmitNext \/ Reset \/ Wait
           \/ WaitTimeout \/ Reinit \/ ReadTail \/ Reap \/ CheckQueue
  <2>1. pc \notin After /\ UNCHANGED <<uapi_active, isr_pc, isr_tail, fd, inflight>>
    BY <1>1, Zenon DEF AllocVectors, RequestIrq, QueueInit, StartTest, SubmitLegacy, CopyStatus,
       Retrigger,
                RejectStatus, CheckLegacy, M4Rejections, SubmitNext, Reset, Wait, WaitTimeout, Reinit,
                ReadTail, Reap, CheckQueue, After
  <2>2. Fail => ret' = "error"
    BY Zenon DEF Fail
  <2>3. CASE AllocVectors \/ RequestIrq \/ QueueInit \/ StartTest \/ SubmitLegacy
    <3>1. pc' \in After => ret' = "error"
      BY SMTT(15), <2>2, <2>3 DEF AllocVectors, RequestIrq, QueueInit, StartTest, SubmitLegacy, After
    <3> QED BY <1>0, <2>1, <3>1, UserBefore, Zenon
  <2>6. CASE CopyStatus \/ Retrigger \/ RejectStatus \/ CheckLegacy \/ M4Rejections
    <3>1. pc' \in After => ret' = "error"
      BY SMTT(15), <2>2, <2>6 DEF CopyStatus, Retrigger, RejectStatus, CheckLegacy, M4Rejections,
         Pass, After
    <3> QED BY <1>0, <2>1, <3>1, UserBefore, Zenon
  <2>4. CASE SubmitNext \/ Reset \/ Wait \/ WaitTimeout \/ Reinit \/ ReadTail \/ Reap
    <3>1. pc' \in After => ret' = "error"
      BY <2>2, <2>4 DEF SubmitNext, Reset, Wait, WaitTimeout, Reinit, ReadTail, Reap, After
    <3> QED BY <1>0, <2>1, <3>1, UserBefore, Zenon
  <2>5. CASE CheckQueue
    <3>1. pc' \in After => ret' = "error"
      BY <2>2, <2>5, Zenon DEF CheckQueue, Pass, After, QueueTests
    <3> QED BY <1>0, <2>1, <3>1, UserBefore, Zenon
  <2> QED BY <1>1, <2>3, <2>4, <2>5, <2>6, Zenon
<1>2. CASE Activate
  <2>1. /\ pc = "activate" /\ pc' = "register" /\ uapi_active' = TRUE
        /\ UNCHANGED <<outstanding, cq, cq_head, isr_pc, isr_tail, fd, inflight>>
    BY <1>2, Zenon DEF Activate
  <2>2. isr_pc \notin {"loop", "advance"} /\ fd # TRUE /\ inflight = 0
    BY <1>0, <2>1, Zenon DEF UserInv, HandedOver, After
  <2>3. outstanding = <<>> /\ cq_head = Len(cq) /\ Len(cq) \in Nat
    BY <2>1 DEF TestInv, QueueType
  <2>4. Posted' = {} /\ 1..Len(outstanding') = {}
    BY <2>1, <2>3 DEF Posted
  <2>5. inflight' = Len(outstanding') + (Len(cq') - cq_head') - (IF isr_pc' = "advance" THEN 1 ELSE 0)
    BY <2>1, <2>2, <2>3
  <2> QED BY <2>1, <2>2, <2>4, <2>5, Zenon DEF UserInv, After
<1>3. CASE MiscRegister
  <2>1. /\ pc = "register"
        /\ \/ pc' = "live" /\ uapi_active' = uapi_active /\ ret' = ret
           \/ pc' \in {"fini", "free_irq"} /\ ret' = "error" /\ uapi_active' = FALSE
        /\ UNCHANGED <<outstanding, cq, cq_head, isr_pc, isr_tail, fd, inflight>>
    BY <1>3, Zenon DEF MiscRegister, Fail
  <2>2. Posted' = Posted /\ (HandedOver' => HandedOver) /\ pc' \in After /\ fd # TRUE
    BY <2>1, Zenon DEF Posted, HandedOver, After, UserInv
  <2>3. HandedOver' =>
         /\ inflight' = Len(outstanding') + (Len(cq') - cq_head') - (IF isr_pc' = "advance" THEN 1 ELSE 0)
         /\ \A i \in 1..Len(outstanding') : outstanding'[i] \in UserCmds
         /\ \A i \in Posted' : cq'[i].cmd \in UserCmds
    BY <2>1, <2>2, Zenon DEF UserInv
  <2>4. pc' \in After /\ ret' = "ok" => uapi_active' = TRUE
    BY <2>1, Zenon DEF UserInv, After
  <2> QED BY <2>1, <2>2, <2>3, <2>4, Zenon DEF UserInv
<1>4. CASE RemoveDriver \/ QueueFini \/ FreeIrq
  <2>1. /\ UNCHANGED <<outstanding, cq, cq_head, uapi_active, isr_pc, isr_tail, fd, inflight, ret>>
        /\ pc \in After /\ pc' \in After /\ pc' # "register"
    BY <1>4, Zenon DEF RemoveDriver, QueueFini, FreeIrq, After
  <2>2. fd # TRUE
    BY <1>4, Zenon DEF RemoveDriver, QueueFini, FreeIrq, UserInv
  <2>3. ret' = "ok" => uapi_active = TRUE
    BY <2>1, Zenon DEF UserInv
  <2> QED BY <2>1, <2>2, <2>3, UserSame, Zenon
<1>5. CASE FinishLegacy \/ IsrEnter \/ IsrAck \/ IsrSignal \/ IsrExit \/ UNCHANGED vars
  <2>1. UNCHANGED <<pc, ret, outstanding, cq, cq_head, uapi_active, fd, inflight>>
    BY <1>5, Zenon DEF FinishLegacy, IsrEnter, IsrAck, IsrSignal, IsrExit, vars
  <2>2. \/ isr_pc' \notin {"loop", "advance"} /\ isr_pc # "advance"
        \/ UNCHANGED <<isr_pc, isr_tail>>
    BY <1>5, Zenon DEF FinishLegacy, IsrEnter, IsrAck, IsrSignal, IsrExit, vars
  <2>3. CASE UNCHANGED <<isr_pc, isr_tail>>
    BY <2>1, <2>3, UserSame, Zenon DEF UserInv
  <2>4. CASE isr_pc' \notin {"loop", "advance"} /\ isr_pc # "advance"
    <3>1. Posted' = Posted /\ (HandedOver' => HandedOver)
      BY <2>1, <2>4, Zenon DEF Posted, HandedOver
    <3>2. HandedOver' =>
           /\ pc' \in After
           /\ inflight' = Len(outstanding') + (Len(cq') - cq_head') - (IF isr_pc' = "advance" THEN 1 ELSE 0)
           /\ \A i \in 1..Len(outstanding') : outstanding'[i] \in UserCmds
           /\ \A i \in Posted' : cq'[i].cmd \in UserCmds
      BY <2>1, <2>4, <3>1, Zenon DEF UserInv
    <3> QED BY <2>1, <2>4, <3>2, Zenon DEF UserInv
  <2> QED BY <2>2, <2>3, <2>4, Zenon
<1>6. CASE Finish
  <2>1. UNCHANGED <<pc, ret, cq_head, uapi_active, isr_pc, isr_tail, fd, inflight>>
    BY <1>6, Zenon DEF Finish
  <2>2. PICK i \in 1..Len(outstanding) :
          /\ Len(outstanding') = Len(outstanding) - 1
          /\ \A j \in 1..Len(outstanding') :
               \E k \in 1..Len(outstanding) : k # i /\ outstanding'[j] = outstanding[k]
          /\ Len(cq') = Len(cq) + 1
          /\ \A j \in 1..Len(cq) : cq'[j] = cq[j]
          /\ cq'[Len(cq) + 1].cmd = outstanding[i]
    BY <1>6, FinishQueues, Zenon
  <2>3. HandedOver' = HandedOver
    BY <2>1, Zenon DEF HandedOver
  <2>4. cq_head \in 0..Len(cq) /\ Len(cq) \in Nat
    BY DEF QueueType
  <2>5. \A j \in Posted' : (j \in Posted /\ j \in 1..Len(cq)) \/ j = Len(cq) + 1
    BY <2>1, <2>2, <2>4 DEF Posted
  <2>6. ASSUME HandedOver
        PROVE  /\ pc' \in After
               /\ inflight' = Len(outstanding') + (Len(cq') - cq_head') - (IF isr_pc' = "advance" THEN 1 ELSE 0)
               /\ \A j \in 1..Len(outstanding') : outstanding'[j] \in UserCmds
               /\ \A j \in Posted' : cq'[j].cmd \in UserCmds
    <3>1. /\ \A j \in 1..Len(outstanding) : outstanding[j] \in UserCmds
          /\ \A j \in Posted : cq[j].cmd \in UserCmds
          /\ pc' \in After
      BY <2>1, <2>6, Zenon DEF UserInv
    <3>2. inflight' = Len(outstanding') + (Len(cq') - cq_head') - (IF isr_pc' = "advance" THEN 1 ELSE 0)
      BY <2>1, <2>2, <2>6, InflightCounts
    <3>3. \A j \in 1..Len(outstanding') : outstanding'[j] \in UserCmds
      BY <2>2, <3>1, Zenon
    <3>4. \A j \in Posted' : cq'[j].cmd \in UserCmds
      BY <2>2, <2>5, <3>1, Zenon
    <3> QED BY <3>1, <3>2, <3>3, <3>4, Zenon
  <2>7. /\ isr_pc' = "loop" => isr_tail' \in cq_head'..Len(cq')
        /\ isr_pc' = "advance" => isr_tail' \in (cq_head' + 1)..Len(cq')
    BY <2>1, <2>2, <2>4 DEF UserInv
  <2> QED BY <2>1, <2>3, <2>6, <2>7, Zenon DEF UserInv
<1>7. CASE IsrReadTail
  <2>1. /\ isr_pc = "act" /\ isr_pc' = "loop" /\ uapi_active = TRUE /\ isr_tail' = Len(cq)
        /\ UNCHANGED <<pc, ret, outstanding, cq, cq_head, uapi_active, fd, inflight>>
    BY <1>7, Zenon DEF IsrReadTail
  <2>2. HandedOver /\ Posted' = Posted
    BY <2>1, Zenon DEF HandedOver, Posted
  <2>3. isr_tail' \in cq_head'..Len(cq')
    BY <2>1 DEF QueueType
  <2>4. /\ pc' \in After
        /\ inflight' = Len(outstanding') + (Len(cq') - cq_head') - (IF isr_pc' = "advance" THEN 1 ELSE 0)
        /\ \A j \in 1..Len(outstanding') : outstanding'[j] \in UserCmds
        /\ \A j \in Posted' : cq'[j].cmd \in UserCmds
    BY <2>1, <2>2, Zenon DEF UserInv
  <2> QED BY <2>1, <2>3, <2>4, Zenon DEF UserInv
<1>8. CASE IsrRoute
  <2>1. /\ isr_pc = "loop" /\ isr_pc' = "advance" /\ cq_head # isr_tail
        /\ inflight' = IF cq[cq_head + 1].cmd \in UserCmds THEN inflight - 1 ELSE inflight
        /\ UNCHANGED <<pc, ret, outstanding, cq, cq_head, uapi_active, fd, isr_tail>>
    BY <1>8, Zenon DEF IsrRoute
  <2>2. HandedOver /\ Posted' = Posted
    BY <2>1, Zenon DEF HandedOver, Posted
  <2>3. /\ Len(outstanding) \in Nat /\ Len(cq) \in Nat /\ cq_head \in 0..Len(cq) /\ inflight \in Int
        /\ inflight = Len(outstanding) + (Len(cq) - cq_head)
    BY <2>1, <2>2, InflightCounts
  <2>4. isr_tail \in cq_head..Len(cq)
    BY <2>1, Zenon DEF UserInv
  <2>5. isr_tail \in (cq_head + 1)..Len(cq) /\ cq_head + 1 \in Posted /\ inflight > 0
    BY <2>1, <2>3, <2>4 DEF Posted
  <2>6. inflight' = inflight - 1
    BY <2>1, <2>2, <2>5, Zenon DEF UserInv
  <2>7. fd = TRUE /\ pc = "live"
    <3>1. inflight # 0
      BY <2>3, <2>5
    <3>2. fd = TRUE
      BY <3>1, Zenon DEF UserInv
    <3> QED BY <3>2, Zenon DEF UserInv
  <2>8. /\ pc' \in After
        /\ \A j \in 1..Len(outstanding') : outstanding'[j] \in UserCmds
        /\ \A j \in Posted' : cq'[j].cmd \in UserCmds
    BY <2>1, <2>2, Zenon DEF UserInv
  <2>9. inflight' = Len(outstanding') + (Len(cq') - cq_head') - (IF isr_pc' = "advance" THEN 1 ELSE 0)
    BY <2>1, <2>3, <2>6
  <2>10. isr_tail' \in (cq_head' + 1)..Len(cq')
    BY <2>1, <2>5, Zenon
  <2> QED BY <2>1, <2>7, <2>8, <2>9, <2>10, Zenon DEF UserInv
<1>9. CASE IsrAdvance
  <2>1. /\ isr_pc = "advance" /\ isr_pc' = "loop" /\ cq_head' = cq_head + 1
        /\ UNCHANGED <<pc, ret, outstanding, cq, uapi_active, fd, isr_tail, inflight>>
    BY <1>9, Zenon DEF IsrAdvance
  <2>2. HandedOver
    BY <2>1, Zenon DEF HandedOver
  <2>3. /\ Len(outstanding) \in Nat /\ Len(cq) \in Nat /\ cq_head \in 0..Len(cq) /\ inflight \in Int
        /\ inflight = Len(outstanding) + (Len(cq) - cq_head) - 1
    BY <2>1, <2>2, InflightCounts, Zenon
  <2>4. isr_tail \in (cq_head + 1)..Len(cq)
    BY <2>1, Zenon DEF UserInv
  <2>5. \A j \in Posted' : j \in Posted
    BY <2>1, <2>3 DEF Posted
  <2>6. /\ pc' \in After
        /\ \A j \in 1..Len(outstanding') : outstanding'[j] \in UserCmds
        /\ \A j \in Posted' : cq'[j].cmd \in UserCmds
    BY <2>1, <2>2, <2>5, Zenon DEF UserInv
  <2>7. inflight' = Len(outstanding') + (Len(cq') - cq_head') - (IF isr_pc' = "advance" THEN 1 ELSE 0)
    BY <2>1, <2>3
  <2>8. isr_tail' \in cq_head'..Len(cq')
    BY <2>1, <2>4, Zenon
  <2> QED BY <2>1, <2>6, <2>7, <2>8, Zenon DEF UserInv
<1>10. CASE Open \/ Close
  <2>1. UNCHANGED <<pc, ret, outstanding, cq, cq_head, uapi_active, isr_pc, isr_tail, inflight>>
    BY <1>10, Zenon DEF Open, Close
  <2>2. pc = "live"
    <3>1. CASE Open
      BY <3>1 DEF Open, HeldInv, Running, Places, After
    <3>2. CASE Close
      BY <3>2, Zenon DEF Close, UserInv
    <3> QED BY <1>10, <3>1, <3>2, Zenon
  <2>3. HandedOver
    BY <2>2, Zenon DEF UserInv, HandedOver, ErrorInv, After
  <2>4. Close => inflight = 0
    BY <2>3, InflightCounts DEF Close
  <2>5. fd' # TRUE => inflight' = 0
    BY <1>10, <2>1, <2>4, Zenon DEF Open
  <2>6. Posted' = Posted
    BY <2>1, Zenon DEF Posted
  <2>7. /\ pc' \in After
        /\ inflight' = Len(outstanding') + (Len(cq') - cq_head') - (IF isr_pc' = "advance" THEN 1 ELSE 0)
        /\ \A j \in 1..Len(outstanding') : outstanding'[j] \in UserCmds
        /\ \A j \in Posted' : cq'[j].cmd \in UserCmds
    BY <2>1, <2>3, <2>6, Zenon DEF UserInv
  <2> QED BY <2>1, <2>2, <2>5, <2>7, Zenon DEF UserInv
<1>11. CASE UserSubmit
  <2>1. /\ fd = TRUE /\ outstanding' = Append(outstanding, <<"user", issued + 1>>)
        /\ issued < MaxUser /\ inflight' = inflight + 1
        /\ UNCHANGED <<pc, ret, cq, cq_head, uapi_active, isr_pc, isr_tail, fd>>
    BY <1>11, Zenon DEF UserSubmit
  <2>2. pc = "live"
    BY <2>1, Zenon DEF UserInv
  <2>3. HandedOver
    BY <2>2, Zenon DEF UserInv, HandedOver, ErrorInv, After
  <2> DEFINE n == <<"user", issued + 1>>
  <2>4. n \in UserCmds
    BY <2>1, SelfTestAssumption DEF QueueType, UserCmds
  <2> HIDE DEF n
  <2>5. outstanding' = Append(outstanding, n) /\ outstanding \in Seq(Names)
    BY <2>1, Zenon DEF n, QueueType
  <2>6. /\ Len(outstanding') = Len(outstanding) + 1
        /\ \A j \in 1..Len(outstanding') : outstanding'[j] = n \/ (j \in 1..Len(outstanding) /\ outstanding'[j] = outstanding[j])
    BY <2>5
  <2>7. inflight' = Len(outstanding') + (Len(cq') - cq_head') - (IF isr_pc' = "advance" THEN 1 ELSE 0)
    BY <2>1, <2>3, <2>6, InflightCounts
  <2>8. Posted' = Posted
    BY <2>1, Zenon DEF Posted
  <2>9. \A j \in 1..Len(outstanding) : outstanding[j] \in UserCmds
    BY <2>3, Zenon DEF UserInv
  <2>10. \A j \in 1..Len(outstanding') : outstanding'[j] \in UserCmds
    BY <2>4, <2>6, <2>9, Zenon
  <2>11. pc' \in After /\ \A j \in Posted' : cq'[j].cmd \in UserCmds
    BY <2>1, <2>3, <2>8, Zenon DEF UserInv
  <2> QED BY <2>1, <2>2, <2>7, <2>10, <2>11, Zenon DEF UserInv
<1> QED BY <1>1, <1>2, <1>3, <1>4, <1>5, <1>6, <1>7, <1>8, <1>9, <1>10, <1>11, Zenon
           DEF Next, ProbeStep, DeviceStep, IsrStep, UserStep

-----------------------------------------------------------------------------
(* The theorems                                                            *)

SelfInv == HeldInv /\ ErrorInv /\ LegacyInv /\ QueueType /\ TestInv /\ UserInv

(* All of this holds in every reachable state: what is held at each place  *)
(* of probe() and remove(), where an error leads, where the commands of a  *)
(* test are, and what inflight counts.                                     *)
THEOREM SelfTestConsistent == Spec => []SelfInv
<1>1. Init => SelfInv
  BY InitHeld, InitQueues, Zenon DEF SelfInv
<1>2. SelfInv /\ [Next]_vars => SelfInv'
  BY HeldStep, ErrorStep, LegacyStep, QueueTypeStep, TestStep, UserStepInv, Zenon DEF SelfInv
<1> QED BY <1>1, <1>2, PTL DEF Spec

(* The handler never reads an entry of a freed CQ ring, neither when       *)
(* probe() fails to register the device nor between queue_fini() and       *)
(* free_irq() in remove(): rmmod needs the device closed, release() waits  *)
(* for the commands in flight, and those are all there is to route.        *)
THEOREM IsrRingsAllocated == Spec => []RingsOutliveIsr
<1>1. SelfInv => RingsOutliveIsr
  <2> SUFFICES ASSUME SelfInv, isr_pc = "loop", cq_head # isr_tail PROVE "rings" \in held
    BY Zenon DEF RingsOutliveIsr
  <2>1. HandedOver
    BY Zenon DEF HandedOver
  <2>2. inflight = Len(outstanding) + (Len(cq) - cq_head) /\ Len(outstanding) \in Nat /\ Len(cq) \in Nat
    BY <2>1, InflightCounts DEF SelfInv
  <2>3. isr_tail \in cq_head..Len(cq) /\ cq_head \in Nat
    BY DEF SelfInv, UserInv, QueueType
  <2>4. inflight # 0
    BY <2>2, <2>3
  <2>5. pc = "live"
    BY <2>4, Zenon DEF SelfInv, UserInv
  <2> QED BY <2>5, Zenon DEF SelfInv, HeldInv
<1> QED BY <1>1, SelfTestConsistent, PTL

(* While no test has failed the device writes only to allocated buffers,   *)
(* and it is quiet when it is handed over: a test that passes has          *)
(* collected a completion of every command it sent.                        *)
THEOREM DmaBuffersAllocated == Spec => []BuffersOutliveDma
<1>1. SelfInv => BuffersOutliveDma
  <2> SUFFICES ASSUME SelfInv PROVE BuffersOutliveDma
    BY Zenon
  <2>1. ASSUME ret = "ok", reg.busy PROVE stage \in bufs
    BY <2>1, Zenon DEF SelfInv, LegacyInv, HeldInv, Running
  <2>2. ASSUME ret = "ok", NEW c \in Range(outstanding) PROVE c[1] \in bufs \cup {"user"}
    <3>1. PICK i \in 1..Len(outstanding) : c = outstanding[i]
      BY DEF SelfInv, QueueType, Range
    <3>2. stage \in QueueTests /\ pc \notin {"start", "activate"}
      BY <3>1 DEF SelfInv, QueueType, TestInv
    <3>3. CASE pc \in Running
      <4>1. c \in Mine
        BY <3>1, <3>2, <3>3, Zenon DEF SelfInv, TestInv, OnceInv
      <4>2. stage \in bufs
        BY <3>3, Zenon DEF SelfInv, HeldInv
      <4> QED BY <4>1, <4>2, Zenon DEF Mine
    <3>4. CASE pc \in After
      <4>1. HandedOver
        BY <2>2, <3>4, Zenon DEF SelfInv, UserInv, HandedOver
      <4>2. c \in UserCmds
        BY <3>1, <4>1, Zenon DEF SelfInv, UserInv
      <4> QED BY <4>2, Zenon DEF UserCmds
    <3>5. pc \in Running \cup After
      BY <3>2, Zenon DEF SelfInv, HeldInv, Places, QueueTests
    <3> QED BY <3>3, <3>4, <3>5, Zenon
  <2>3. ASSUME pc = "register" PROVE outstanding = <<>> /\ ~ reg.busy /\ cq_head = Len(cq) /\ bufs = {}
    <3>1. ret = "ok" /\ isr_pc # "advance" /\ inflight = 0 /\ bufs = {}
      BY <2>3, Zenon DEF SelfInv, ErrorInv, UserInv, HeldInv, Running
    <3>2. HandedOver
      BY <2>3, <3>1, Zenon DEF SelfInv, UserInv, HandedOver, After
    <3>3. /\ inflight = Len(outstanding) + (Len(cq) - cq_head) /\ Len(outstanding) \in Nat
          /\ Len(cq) \in Nat /\ cq_head \in 0..Len(cq)
      BY <3>1, <3>2, InflightCounts DEF SelfInv
    <3>4. Len(outstanding) = 0 /\ cq_head = Len(cq)
      BY <3>1, <3>3
    <3>5. outstanding = <<>>
      BY <3>4 DEF SelfInv, QueueType
    <3>6. ~ reg.busy
      BY <2>3, <3>1, Zenon DEF SelfInv, LegacyInv
    <3> QED BY <3>1, <3>4, <3>5, <3>6, Zenon
  <2> QED BY <2>1, <2>2, <2>3, Zenon DEF BuffersOutliveDma
<1> QED BY <1>1, SelfTestConsistent, PTL
=============================================================================
