------------------------------ MODULE SelfTest ------------------------------
(***************************************************************************)
(* probe() and remove() of the kernel driver: acquiring and unwinding      *)
(* resources, the self-tests M3 to M8 that probe() runs against the        *)
(* device, the interrupt handler in both of its modes, and the hand-over   *)
(* to user space.  Source: src/track-a/dma_accel_drv.c.                    *)
(*                                                                         *)
(* The self-tests run in the one thread of probe().  A test is a stage;    *)
(* "m3" and "m4" drive the command registers, the others the SQ/CQ rings,  *)
(* and "rec" is the recovery check that ends M8.  The device is external;  *)
(* it is healthy, and does what the self-tests require of it.              *)
(***************************************************************************)
EXTENDS Integers, Sequences, FiniteSets, Functions

CONSTANTS
  TestCount,     \* M7_TEST_COUNT and M8_TEST_COUNT (6)
  DevSlots,      \* DMA_ACCEL_MAX_INFLIGHT (4)
  Faults,        \* may allocations and registrations fail and waits time out?
  LatencyWindow, \* does the device's latency cover the windows M4 and M8 count on?
  MaxUser        \* bound: commands user space submits

ASSUME SelfTestAssumption ==
  /\ TestCount \in Nat \ {0}
  /\ DevSlots \in Nat \ {0}
  /\ Faults \in BOOLEAN
  /\ LatencyWindow \in BOOLEAN
  /\ MaxUser \in Nat

QueueTests == {"m6", "m7", "m8", "rec"}
Tests == {"m3", "m4"} \cup QueueTests

Count(test) == IF test \in {"m7", "m8"} THEN TestCount ELSE 1

(* A command is named by its test and its index; user commands are "user". *)
CmdsOf(test) == {test} \X (1..Count(test))
UserCmds == {"user"} \X (1..MaxUser)

VARIABLES
  stage,        \* the self-test in progress
  pc,           \* where probe() or remove() is
  ret,          \* "ok", or "error" once a test or an acquisition has failed
  held,         \* what has been acquired and not released: vectors, irq, rings, misc
  bufs,         \* the tests whose DMA buffers are allocated
  sent,         \* commands the test in progress has submitted
  reaped,       \* completions the test in progress has collected
  tail,         \* device_cq_tail of the drain in progress
  cq_head,      \* dev->cq_head
  irq_done,     \* dev->irq_done: completions signalled and not consumed
  uapi_active,  \* dev->uapi_active
  reg,          \* device: STATUS.BUSY, ERROR_CODE, and the test that owns the registers
  outstanding,  \* device: descriptors fetched from SQ and not completed, oldest first
  cq,           \* device: every completion posted to CQ
  copied,       \* device: the commands whose destination has been written
  irq_status,   \* device: REG_IRQ_STATUS is not zero
  irq_pending,  \* an interrupt has been raised and the handler not yet entered
  isr_pc,       \* interrupt handler: where it is
  isr_tail,     \* interrupt handler: device_cq_tail
  fd,           \* user space: is the device open?
  inflight,     \* user space: commands not yet routed to their session
  issued        \* user space: commands submitted so far

resVars == <<held, bufs>>
testVars == <<stage, ret, sent, reaped, tail>>
queueVars == <<outstanding, cq>>
irqVars == <<irq_status, irq_pending>>
isrVars == <<isr_pc, isr_tail>>
userVars == <<fd, inflight, issued>>

vars == <<pc, resVars, testVars, cq_head, irq_done, uapi_active, reg, queueVars, copied,
          irqVars, isrVars, userVars>>

Idle == [busy |-> FALSE, err |-> "none"]

Init ==
  /\ stage = "m3" /\ pc = "probe" /\ ret = "ok"
  /\ held = {} /\ bufs = {}
  /\ sent = 0 /\ reaped = {} /\ tail = 0
  /\ cq_head = 0 /\ irq_done = 0 /\ uapi_active = FALSE
  /\ reg = Idle /\ outstanding = <<>> /\ cq = <<>> /\ copied = {}
  /\ irq_status = FALSE /\ irq_pending = FALSE
  /\ isr_pc = "idle" /\ isr_tail = 0
  /\ fd = FALSE /\ inflight = 0 /\ issued = 0

Goto(from, to) == pc = from /\ pc' = to

-----------------------------------------------------------------------------
(* Acquiring and unwinding                                                 *)

(* BAR mapping and device enable are devres-managed and left out.          *)
AllocVectors ==
  /\ pc = "probe"
  /\ \/ pc' = "request" /\ held' = {"vectors"} /\ UNCHANGED ret
     \/ Faults /\ pc' = "failed" /\ ret' = "error" /\ UNCHANGED held
  /\ UNCHANGED <<bufs, stage, sent, reaped, tail, cq_head, irq_done, uapi_active, reg, queueVars,
                 copied, irqVars, isrVars, userVars>>

RequestIrq ==
  /\ pc = "request"
  /\ \/ pc' = "start" /\ held' = held \cup {"irq"} /\ UNCHANGED ret
     \/ Faults /\ pc' = "failed" /\ held' = held \ {"vectors"} /\ ret' = "error"
  /\ UNCHANGED <<bufs, stage, sent, reaped, tail, cq_head, irq_done, uapi_active, reg, queueVars,
                 copied, irqVars, isrVars, userVars>>

(* A failed test frees its buffers and probe() takes the goto that matches *)
(* what it holds; "rec" runs inside M8.                                    *)
Fail ==
  /\ ret' = "error"
  /\ bufs' = {}
  /\ pc' = IF "rings" \in held THEN "fini" ELSE "free_irq"
  /\ UNCHANGED stage

(* A failing allocation of the CQ ring frees the SQ ring again.            *)
QueueInit ==
  /\ pc = "queue_init"
  /\ \/ /\ pc' = "start" /\ stage' = "m6"
        /\ held' = held \cup {"rings"}
        /\ cq_head' = 0
        /\ UNCHANGED <<ret, bufs>>
     \/ Faults /\ Fail /\ UNCHANGED <<held, cq_head>>
  /\ UNCHANGED <<sent, reaped, tail, irq_done, uapi_active, reg, queueVars, copied,
                 irqVars, isrVars, userVars>>

Activate ==
  /\ Goto("activate", "register")
  /\ uapi_active' = TRUE
  /\ UNCHANGED <<resVars, testVars, cq_head, irq_done, reg, queueVars, copied,
                 irqVars, isrVars, userVars>>

MiscRegister ==
  /\ pc = "register"
  /\ \/ pc' = "live" /\ held' = held \cup {"misc"} /\ UNCHANGED <<ret, bufs, stage, uapi_active>>
     \/ Faults /\ Fail /\ uapi_active' = FALSE /\ UNCHANGED held
  /\ UNCHANGED <<sent, reaped, tail, cq_head, irq_done, reg, queueVars, copied,
                 irqVars, isrVars, userVars>>

(* rmmod is refused while the device is open (fops.owner = THIS_MODULE).   *)
RemoveDriver ==
  /\ Goto("live", "fini")
  /\ ~ fd
  /\ held' = held \ {"misc"}
  /\ UNCHANGED <<bufs, testVars, cq_head, irq_done, uapi_active, reg, queueVars, copied,
                 irqVars, isrVars, userVars>>

QueueFini ==
  /\ Goto("fini", "free_irq")
  /\ held' = held \ {"rings"}
  /\ UNCHANGED <<bufs, testVars, cq_head, irq_done, uapi_active, reg, queueVars, copied,
                 irqVars, isrVars, userVars>>

(* Mutant: the vectors are not given back.                                 *)
FreeIrqKeepsVectors ==
  /\ pc = "free_irq"
  /\ isr_pc = "idle"
  /\ pc' = IF ret = "ok" THEN "removed" ELSE "failed"
  /\ held' = held \ {"irq"}
  /\ UNCHANGED <<bufs, testVars, cq_head, irq_done, uapi_active, reg, queueVars, copied,
                 irqVars, isrVars, userVars>>

(* free_irq() waits for a running handler; then pci_free_irq_vectors().    *)
FreeIrq ==
  /\ pc = "free_irq"
  /\ isr_pc = "idle"
  /\ pc' = IF ret = "ok" THEN "removed" ELSE "failed"
  /\ held' = held \ {"irq", "vectors"}
  /\ UNCHANGED <<bufs, testVars, cq_head, irq_done, uapi_active, reg, queueVars, copied,
                 irqVars, isrVars, userVars>>

-----------------------------------------------------------------------------
(* The self-tests                                                          *)

(* Allocate the buffers and reinit_completion(&irq_done).  M8's buffers    *)
(* are still allocated in its recovery check.                              *)
StartTest ==
  /\ pc = "start"
  /\ \/ pc' = "submit" /\ bufs' = bufs \cup {stage} /\ irq_done' = 0 /\ UNCHANGED <<ret, stage>>
     \/ Faults /\ Fail /\ UNCHANGED irq_done
  /\ sent' = 0 /\ reaped' = {}
  /\ UNCHANGED <<held, tail, cq_head, uapi_active, reg, queueVars, copied, irqVars, isrVars, userVars>>

(* dma_accel_submit(): START is taken, or rejected because of BUSY.        *)
Start == reg' = IF reg.busy THEN [reg EXCEPT !.err = "busy"] ELSE [busy |-> TRUE, err |-> "none"]

SubmitLegacy ==
  /\ stage \in {"m3", "m4"}
  /\ Goto("submit", IF stage = "m3" THEN "status" ELSE "retrigger")
  /\ Start
  /\ UNCHANGED <<resVars, testVars, cq_head, irq_done, uapi_active, queueVars, copied,
                 irqVars, isrVars, userVars>>

(* dma_accel_do_copy() waits only if it still sees BUSY.                   *)
CopyStatus ==
  /\ stage = "m3"
  /\ Goto("status", IF reg.busy THEN "wait" ELSE "check")
  /\ UNCHANGED <<resVars, testVars, cq_head, irq_done, uapi_active, reg, queueVars, copied,
                 irqVars, isrVars, userVars>>

Retrigger ==
  /\ Goto("retrigger", "status")
  /\ Start
  /\ UNCHANGED <<resVars, testVars, cq_head, irq_done, uapi_active, queueVars, copied,
                 irqVars, isrVars, userVars>>

(* A START that was not rejected fails the test, which still waits.        *)
RejectStatus ==
  /\ stage = "m4"
  /\ Goto("status", "wait")
  /\ ret' = IF reg = [busy |-> TRUE, err |-> "busy"] THEN ret ELSE "error"
  /\ UNCHANGED <<resVars, stage, sent, reaped, tail, cq_head, irq_done, uapi_active, reg, queueVars,
                 copied, irqVars, isrVars, userVars>>

(* A passed test frees its buffers; probe() goes on to the next.           *)
Pass(next, to) ==
  /\ stage' = next
  /\ bufs' = {}
  /\ pc' = to
  /\ UNCHANGED ret

(* The two synchronous rejections that end M4 are in M4Rejections.         *)
CheckLegacy ==
  /\ stage \in {"m3", "m4"}
  /\ pc = "check"
  /\ IF ret = "ok" /\ reg = Idle /\ <<stage, 1>> \in copied
     THEN Pass("m4", IF stage = "m3" THEN "start" ELSE "rejections")
     ELSE Fail
  /\ UNCHANGED <<held, sent, reaped, tail, cq_head, irq_done, uapi_active, reg, queueVars, copied,
                 irqVars, isrVars, userVars>>

(* Each of the invalid LEN and the invalid OPCODE test resets the device,  *)
(* starts a command and reads its rejection back; RESET follows.  The      *)
(* device answers within the register write, and nothing else uses it.     *)
M4Rejections ==
  /\ pc = "rejections"
  /\ reg' = Idle
  /\ \/ pc' = "queue_init" /\ UNCHANGED <<ret, bufs, stage>>
     \/ Faults /\ Fail
  /\ UNCHANGED <<held, sent, reaped, tail, cq_head, irq_done, uapi_active, queueVars, copied,
                 irqVars, isrVars, userVars>>

SubmitNext ==
  /\ stage \in QueueTests
  /\ pc = "submit"
  /\ sent' = sent + 1
  /\ outstanding' = Append(outstanding, <<stage, sent + 1>>)
  /\ pc' = IF sent + 1 < Count(stage) THEN "submit" ELSE IF stage = "m8" THEN "reset" ELSE "wait"
  /\ UNCHANGED <<resVars, stage, ret, reaped, tail, cq_head, irq_done, uapi_active, reg, cq, copied,
                 irqVars, isrVars, userVars>>

(* RESET completes everything outstanding as ABORTED, in one write.        *)
Reset ==
  /\ Goto("reset", "wait")
  /\ reg' = Idle
  /\ cq' = cq \o [i \in 1..Len(outstanding) |-> [cmd |-> outstanding[i], status |-> "aborted"]]
  /\ outstanding' = <<>>
  /\ irq_status' = (irq_status \/ outstanding # <<>>)
  /\ irq_pending' = (irq_pending \/ outstanding # <<>>)
  /\ UNCHANGED <<resVars, testVars, cq_head, irq_done, uapi_active, copied, isrVars, userVars>>

(* wait_for_completion_timeout()                                           *)
Wait ==
  /\ Goto("wait", IF stage \in {"m3", "m4"} THEN "check"
                  ELSE IF stage \in {"m7", "m8"} THEN "reinit" ELSE "drain")
  /\ irq_done > 0
  /\ irq_done' = irq_done - 1
  /\ UNCHANGED <<resVars, testVars, cq_head, uapi_active, reg, queueVars, copied,
                 irqVars, isrVars, userVars>>

WaitTimeout ==
  /\ Faults
  /\ pc = "wait"
  /\ irq_done = 0
  /\ IF stage \in {"m6", "rec"} THEN Fail ELSE pc' = "check" /\ UNCHANGED <<ret, bufs, stage>>
  /\ UNCHANGED <<held, sent, reaped, tail, cq_head, irq_done, uapi_active, reg, queueVars, copied,
                 irqVars, isrVars, userVars>>

Reinit ==
  /\ Goto("reinit", "drain")
  /\ irq_done' = 0
  /\ UNCHANGED <<resVars, testVars, cq_head, uapi_active, reg, queueVars, copied,
                 irqVars, isrVars, userVars>>

ReadTail ==
  /\ Goto("drain", "reap")
  /\ tail' = Len(cq)
  /\ UNCHANGED <<resVars, stage, ret, sent, reaped, cq_head, irq_done, uapi_active, reg,
                 queueVars, copied, irqVars, isrVars, userVars>>

(* Mutant: reinit_completion() comes after CQ_TAIL has been read.          *)
ReapThenReinit ==
  /\ pc = "reap"
  /\ cq_head' = tail
  /\ reaped' = reaped \cup {c \in Range(SubSeq(cq, cq_head + 1, tail)) : c.cmd \in CmdsOf(stage)}
  /\ tail' = 0
  /\ irq_done' = 0
  /\ IF stage \in {"m7", "m8"} /\ Cardinality(reaped') < TestCount
     THEN pc' = "wait" \/ (Faults /\ pc' = "check")
     ELSE pc' = "check"
  /\ UNCHANGED <<resVars, stage, ret, sent, uapi_active, reg, queueVars, copied,
                 irqVars, isrVars, userVars>>

(* Reap up to device_cq_tail and write CQ_HEAD.  M7 and M8 wait again for  *)
(* what is missing, unless their deadline has passed.                      *)
Reap ==
  /\ pc = "reap"
  /\ cq_head' = tail
  /\ reaped' = reaped \cup {c \in Range(SubSeq(cq, cq_head + 1, tail)) : c.cmd \in CmdsOf(stage)}
  /\ tail' = 0
  /\ IF stage \in {"m7", "m8"} /\ Cardinality(reaped') < TestCount
     THEN pc' = "wait" \/ (Faults /\ pc' = "check")
     ELSE pc' = "check"
  /\ UNCHANGED <<resVars, stage, ret, sent, irq_done, uapi_active, reg, queueVars, copied,
                 irqVars, isrVars, userVars>>

(* M8 wants its commands aborted and their destinations untouched, the     *)
(* others want them done.                                                  *)
AsExpected(c) ==
  IF stage = "m8" THEN c.status = "aborted" /\ c.cmd \notin copied
                  ELSE c.status = "ok" /\ c.cmd \in copied

(* Mutant: missing completions are not noticed.                            *)
TestPassedPartly == \A c \in reaped : AsExpected(c)

TestPassed ==
  /\ Cardinality(reaped) = Count(stage)
  /\ \A c \in reaped : AsExpected(c)

CheckQueue ==
  /\ stage \in QueueTests
  /\ pc = "check"
  /\ IF TestPassed
     THEN CASE stage = "m6" -> Pass("m7", "start")
            [] stage = "m7" -> Pass("m8", "start")
            [] stage = "m8" -> stage' = "rec" /\ pc' = "start" /\ UNCHANGED <<ret, bufs>>
            [] stage = "rec" -> Pass("rec", "activate")
     ELSE Fail
  /\ UNCHANGED <<held, sent, reaped, tail, cq_head, irq_done, uapi_active, reg, queueVars, copied,
                 irqVars, isrVars, userVars>>

-----------------------------------------------------------------------------
(* The device (external)                                                   *)

Raise == irq_status' = TRUE /\ irq_pending' = TRUE

(* The code's "50ms window": M3 has not yet read STATUS back, M4 is        *)
(* between its two STARTs, M8 has doorbells to write before RESET.         *)
InWindow ==
  \/ stage = "m3" /\ pc = "status"
  \/ stage = "m4" /\ pc \in {"retrigger", "status"}
  \/ stage = "m8" /\ pc \in {"submit", "reset"}

FinishLegacy ==
  /\ reg.busy
  /\ LatencyWindow => ~ InWindow
  /\ reg' = Idle
  /\ copied' = copied \cup {<<stage, 1>>}
  /\ Raise
  /\ UNCHANGED <<pc, resVars, testVars, cq_head, irq_done, uapi_active, queueVars, isrVars, userVars>>

(* The oldest DevSlots descriptors run, and finish in any order.           *)
Finish ==
  /\ LatencyWindow => ~ InWindow
  /\ \E i \in 1..Len(outstanding) :
       /\ i <= DevSlots
       /\ outstanding' = SubSeq(outstanding, 1, i - 1) \o SubSeq(outstanding, i + 1, Len(outstanding))
       /\ copied' = copied \cup {outstanding[i]}
       /\ cq' = Append(cq, [cmd |-> outstanding[i], status |-> "ok"])
  /\ Raise
  /\ UNCHANGED <<pc, resVars, testVars, cq_head, irq_done, uapi_active, reg, isrVars, userVars>>

-----------------------------------------------------------------------------
(* dma_accel_irq_handler()                                                 *)

IsrGoto(from, to) == isr_pc = from /\ isr_pc' = to

IsrEnter ==
  /\ "irq" \in held
  /\ irq_pending
  /\ IsrGoto("idle", IF irq_status THEN "ack" ELSE "idle")
  /\ irq_pending' = FALSE
  /\ UNCHANGED <<pc, resVars, testVars, cq_head, irq_done, uapi_active, reg, queueVars, copied,
                 irq_status, isr_tail, userVars>>

IsrAck ==
  /\ IsrGoto("ack", "act")
  /\ irq_status' = FALSE
  /\ UNCHANGED <<pc, resVars, testVars, cq_head, irq_done, uapi_active, reg, queueVars, copied,
                 irq_pending, isr_tail, userVars>>

(* Before uapi_active the handler only signals irq_done.                   *)
IsrSignal ==
  /\ IsrGoto("act", "idle")
  /\ ~ uapi_active
  /\ irq_done' = irq_done + 1
  /\ UNCHANGED <<pc, resVars, testVars, cq_head, uapi_active, reg, queueVars, copied,
                 irqVars, isr_tail, userVars>>

IsrReadTail ==
  /\ IsrGoto("act", "loop")
  /\ uapi_active
  /\ isr_tail' = Len(cq)
  /\ UNCHANGED <<pc, resVars, testVars, cq_head, irq_done, uapi_active, reg, queueVars, copied,
                 irqVars, userVars>>

(* Copy the CQ entry and route it (CmdPath has the detail); then advance.  *)
IsrRoute ==
  /\ IsrGoto("loop", "advance")
  /\ cq_head # isr_tail
  /\ inflight' = IF cq[cq_head + 1].cmd \in UserCmds THEN inflight - 1 ELSE inflight
  /\ UNCHANGED <<pc, resVars, testVars, cq_head, irq_done, uapi_active, reg, queueVars, copied,
                 irqVars, isr_tail, fd, issued>>

IsrAdvance ==
  /\ IsrGoto("advance", "loop")
  /\ cq_head' = cq_head + 1
  /\ UNCHANGED <<pc, resVars, testVars, irq_done, uapi_active, reg, queueVars, copied,
                 irqVars, isr_tail, userVars>>

IsrExit ==
  /\ IsrGoto("loop", "idle")
  /\ cq_head = isr_tail
  /\ isr_tail' = 0
  /\ UNCHANGED <<pc, resVars, testVars, cq_head, irq_done, uapi_active, reg, queueVars, copied,
                 irqVars, userVars>>

-----------------------------------------------------------------------------
(* User space, once /dev/dma_accel0 exists                                 *)

Open ==
  /\ "misc" \in held
  /\ ~ fd
  /\ fd' = TRUE
  /\ UNCHANGED <<pc, resVars, testVars, cq_head, irq_done, uapi_active, reg, queueVars, copied,
                 irqVars, isrVars, inflight, issued>>

UserSubmit ==
  /\ fd
  /\ issued < MaxUser
  /\ issued' = issued + 1
  /\ inflight' = inflight + 1
  /\ outstanding' = Append(outstanding, <<"user", issued + 1>>)
  /\ UNCHANGED <<pc, resVars, testVars, cq_head, irq_done, uapi_active, reg, cq, copied,
                 irqVars, isrVars, fd>>

(* Mutant: release() does not wait for what is in flight.                  *)
CloseAtOnce ==
  /\ fd
  /\ fd' = FALSE
  /\ UNCHANGED <<pc, resVars, testVars, cq_head, irq_done, uapi_active, reg, queueVars, copied,
                 irqVars, isrVars, inflight, issued>>

Close ==
  /\ fd
  /\ ~ (inflight > 0)
  /\ fd' = FALSE
  /\ UNCHANGED <<pc, resVars, testVars, cq_head, irq_done, uapi_active, reg, queueVars, copied,
                 irqVars, isrVars, inflight, issued>>

-----------------------------------------------------------------------------
ProbeStep ==
  \/ AllocVectors \/ RequestIrq \/ QueueInit \/ Activate \/ MiscRegister
  \/ QueueFini \/ FreeIrq
  \/ StartTest \/ SubmitLegacy \/ CopyStatus \/ Retrigger \/ RejectStatus \/ CheckLegacy
  \/ M4Rejections \/ SubmitNext \/ Reset \/ Wait \/ Reinit \/ ReadTail \/ Reap
  \/ CheckQueue

DeviceStep == FinishLegacy \/ Finish

IsrStep ==
  IsrEnter \/ IsrAck \/ IsrSignal \/ IsrReadTail \/ IsrRoute \/ IsrAdvance \/ IsrExit

UserStep == Open \/ UserSubmit \/ Close \/ RemoveDriver

Next == ProbeStep \/ WaitTimeout \/ DeviceStep \/ IsrStep \/ UserStep

(* The probe thread is scheduled, the device finishes what it was given    *)
(* and interrupts are delivered.  No wait is assumed to time out, and      *)
(* users owe nothing.                                                      *)
Spec == Init /\ [][Next]_vars
FairSpec == Spec /\ WF_vars(ProbeStep) /\ WF_vars(DeviceStep) /\ WF_vars(IsrStep)

-----------------------------------------------------------------------------
(* Properties                                                              *)

(* As long as no test has failed, the device writes only to buffers that   *)
(* are still allocated.  (After a timeout it may not: the test frees its   *)
(* buffers and cannot recall the command.)  So the device is quiet when    *)
(* the driver turns it over to user space: probe() leaves no command, no   *)
(* unread completion and no test buffer behind.                            *)
BuffersOutliveDma ==
  /\ ret = "ok" =>
       /\ reg.busy => stage \in bufs
       /\ \A c \in Range(outstanding) : c[1] \in bufs \cup {"user"}
  /\ pc = "register" =>
       outstanding = <<>> /\ ~ reg.busy /\ cq_head = Len(cq) /\ bufs = {}

(* The handler never reads an entry of a CQ ring that has been freed, in   *)
(* particular not between queue_fini() and free_irq() in remove().         *)
RingsOutliveIsr ==
  isr_pc = "loop" /\ cq_head # isr_tail => "rings" \in held

(* Every way out of probe() and remove() has given back what was acquired. *)
Unwound ==
  pc \in {"failed", "removed"} => held = {} /\ bufs = {} /\ isr_pc = "idle"

(* probe() comes to an end, even if no wait ever times out: no signal of   *)
(* irq_done that a wait needs is wiped by reinit_completion().             *)
ProbeEnds == <>(pc \in {"live", "failed"})

(* On a healthy device, with no allocation failing and no wait timing out, *)
(* no self-test fails.                                                     *)
HealthyPasses == ~ Faults => ret = "ok"
=============================================================================
