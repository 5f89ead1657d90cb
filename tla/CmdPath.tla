------------------------------ MODULE CmdPath ------------------------------
(***************************************************************************)
(* The command path of the kernel driver once its character device is      *)
(* live: ioctl(SUBMIT), read(), poll(), open() and release() run by        *)
(* threads, the interrupt handler, and the device behind the SQ and CQ     *)
(* rings.  Source: src/track-a/dma_accel_drv.c.                            *)
(*                                                                         *)
(* Every shared access the code makes without a common lock is a step of   *)
(* its own; a critical section under cmd_lock or comp_lock is one step.    *)
(* The device is not in the repository: it is modelled from how the driver *)
(* uses it, and does as little as the driver relies on.                    *)
(***************************************************************************)
EXTENDS Integers, Sequences, FiniteSets

CONSTANTS
  Sessions,         \* struct dma_accel_session instances, one per open()
  Threads,          \* user threads that enter the driver
  Drives,           \* Drives[t]: the sessions whose fd thread t uses
  QueueDepth,       \* DMA_ACCEL_QUEUE_DEPTH (16): slots of SQ and of CQ
  CompRingSize,     \* COMP_RING_SIZE (64): slots of a session's comp_ring
  MaxInflightCmds,  \* MAX_INFLIGHT_CMDS (64): slots of cmd_table
  DevSlots,         \* DMA_ACCEL_MAX_INFLIGHT (4): commands the device runs at once
  DevHonoursCqHead, \* does the device hold back completions while CQ_HEAD says CQ is full?
  MaxCmds,          \* bound: cmd_ids handed out
  NoSession         \* the NULL session pointer

ASSUME CmdPathAssumption ==
  /\ IsFiniteSet(Threads)
  /\ Drives \in [Threads -> SUBSET Sessions]
  /\ QueueDepth \in Nat \ {0}
  /\ CompRingSize \in Nat \ {0}
  /\ MaxInflightCmds \in Nat \ {0}
  /\ DevSlots \in Nat \ {0}
  /\ DevHonoursCqHead \in BOOLEAN
  /\ MaxCmds \in Nat
  /\ NoSession \notin Sessions

(* next_cmd_id is set to 1 and incremented before it is used.              *)
Cmds == 2..MaxCmds + 1

(* 0 stands for what the self-tests left in a descriptor or completion     *)
(* slot: a cmd_id that ioctl(SUBMIT) has not handed out.                   *)
CmdOrNone == {0} \cup Cmds

VARIABLES
  sess_state,       \* [Sessions -> closed | open | releasing | freed]
  active_sessions,  \* dev->active_sessions
  inflight,         \* sess->inflight
  total_inflight,   \* dev->total_inflight
  next_cmd_id,      \* dev->next_cmd_id
  cmd_table,        \* dev->cmd_table as a map: cmd_id -> owning session, or NoSession
  comp_ring,        \* the unread part of sess->comp_ring, oldest first
  sq_tail,          \* dev->sq_tail
  cq_head,          \* dev->cq_head
  sq_buf,           \* the SQ ring in coherent memory: cmd_id and operands of each slot
  cq_buf,           \* the CQ ring in coherent memory
  reg_sq_tail,      \* device: REG_SQ_TAIL, the doorbell
  dev_sq_head,      \* device: next SQ position to dispatch
  running,          \* device: descriptors being executed
  reg_cq_tail,      \* device: REG_CQ_TAIL
  reg_cq_head,      \* device: REG_CQ_HEAD, the driver's acknowledgement
  irq_status,       \* device: REG_IRQ_STATUS is not zero
  irq_pending,      \* an interrupt has been raised and the handler not yet entered
  pc,               \* thread: where it is in the driver ("idle": in user space)
  t_sess,           \* thread: sess, of the call in progress
  t_cmd,            \* thread: req.cmd_id
  t_reg,            \* thread: its live local: quota, SQ index, sq_tail, or entries left to read
  isr_pc,           \* interrupt handler: where it is ("idle": not running)
  isr_tail,         \* interrupt handler: device_cq_tail
  isr_comp,         \* interrupt handler: comp.cmd_id
  isr_owner,        \* interrupt handler: owner
  issued_by,        \* history: the session whose ioctl drew each cmd_id
  reaped            \* history: the cmd_ids read() has handed to each session's user

sessVars == <<sess_state, active_sessions>>
countVars == <<inflight, total_inflight>>
routeVars == <<next_cmd_id, cmd_table, issued_by>>
compVars == <<comp_ring, reaped>>
sqVars == <<sq_tail, sq_buf, reg_sq_tail>>
devVars == <<dev_sq_head, running, reg_cq_tail, cq_buf, irq_status, irq_pending>>
callVars == <<t_sess, t_cmd, t_reg>>
isrVars == <<isr_pc, isr_tail, isr_comp, isr_owner, cq_head, reg_cq_head>>

vars == <<sessVars, countVars, routeVars, compVars, sqVars, devVars,
          pc, callVars, isrVars>>

Init ==
  /\ sess_state = [s \in Sessions |-> "closed"]
  /\ active_sessions = 0
  /\ inflight = [s \in Sessions |-> 0]
  /\ total_inflight = 0
  /\ next_cmd_id = 1
  /\ cmd_table = [c \in Cmds |-> NoSession]
  /\ comp_ring = [s \in Sessions |-> <<>>]
  /\ sq_tail = 0
  /\ cq_head = 0
  /\ sq_buf = [i \in 0..QueueDepth - 1 |-> [cmd |-> 0, ops |-> 0]]
  /\ cq_buf = [i \in 0..QueueDepth - 1 |-> 0]
  /\ reg_sq_tail = 0
  /\ dev_sq_head = 0
  /\ running = {}
  /\ reg_cq_tail = 0
  /\ reg_cq_head = 0
  /\ irq_status = FALSE
  /\ irq_pending = FALSE
  /\ pc = [t \in Threads |-> "idle"]
  /\ t_sess = [t \in Threads |-> NoSession]
  /\ t_cmd = [t \in Threads |-> 0]
  /\ t_reg = [t \in Threads |-> 0]
  /\ isr_pc = "idle"
  /\ isr_tail = 0
  /\ isr_comp = 0
  /\ isr_owner = NoSession
  /\ issued_by = [c \in Cmds |-> NoSession]
  /\ reaped = [s \in Sessions |-> {}]

Goto(t, from, to) == pc[t] = from /\ pc' = [pc EXCEPT ![t] = to]

(* The call returns to user space; its locals are gone.                    *)
Return(t, from) ==
  /\ Goto(t, from, "idle")
  /\ t_sess' = [t_sess EXCEPT ![t] = NoSession]
  /\ t_cmd' = [t_cmd EXCEPT ![t] = 0]
  /\ t_reg' = [t_reg EXCEPT ![t] = 0]

(* A thread enters the driver on an open fd it uses.                       *)
Enter(t, s, at) ==
  /\ s \in Drives[t]
  /\ sess_state[s] = "open"
  /\ Goto(t, "idle", at)
  /\ t_sess' = [t_sess EXCEPT ![t] = s]

-----------------------------------------------------------------------------
(* open() and release()                                                    *)

(* kzalloc'ed session: counters, ring and bitmap start empty.              *)
Open(t, s) ==
  /\ s \in Drives[t]
  /\ pc[t] = "idle"
  /\ sess_state[s] = "closed"
  /\ sess_state' = [sess_state EXCEPT ![s] = "open"]
  /\ active_sessions' = active_sessions + 1
  /\ UNCHANGED <<countVars, routeVars, compVars, sqVars, devVars, pc, callVars, isrVars>>

(* wake_up_interruptible(&dev->quota_wq): every sleeper rechecks.          *)
QuotaWoken == [t \in Threads |-> IF pc[t] = "asleep" THEN "wait" ELSE pc[t]]

(* The last reference to the file goes away: no other thread is inside a   *)
(* call on it.                                                             *)
Release(t, s) ==
  /\ Enter(t, s, "rel_wake")
  /\ \A u \in Threads : pc[u] # "idle" => t_sess[u] # s
  /\ sess_state' = [sess_state EXCEPT ![s] = "releasing"]
  /\ active_sessions' = active_sessions - 1
  /\ UNCHANGED <<countVars, routeVars, compVars, sqVars, devVars,
                 t_cmd, t_reg, isrVars>>

ReleaseWake(t) ==
  /\ pc[t] = "rel_wake"
  /\ pc' = [QuotaWoken EXCEPT ![t] = "drain"]
  /\ UNCHANGED <<sessVars, countVars, routeVars, compVars, sqVars, devVars, callVars, isrVars>>

(* Mutant: the session is freed without waiting for inflight to drain.     *)
ReleaseFreeAtOnce(t) ==
  /\ Return(t, "drain")
  /\ sess_state' = [sess_state EXCEPT ![t_sess[t]] = "freed"]
  /\ UNCHANGED <<active_sessions, countVars, routeVars, compVars, sqVars, devVars, isrVars>>

(* while (atomic_read(&sess->inflight) > 0) msleep(1); then kfree(sess).   *)
ReleaseFree(t) ==
  /\ Return(t, "drain")
  /\ ~ (inflight[t_sess[t]] > 0)
  /\ sess_state' = [sess_state EXCEPT ![t_sess[t]] = "freed"]
  /\ UNCHANGED <<active_sessions, countVars, routeVars, compVars, sqVars, devVars, isrVars>>

-----------------------------------------------------------------------------
(* ioctl(SUBMIT), from the cmd_id on (the buffer checks before it are in   *)
(* BufferTable)                                                            *)

(* atomic64_inc_return(&dev->next_cmd_id)                                  *)
AllocCmdId(t, s) ==
  /\ Enter(t, s, "quota")
  /\ next_cmd_id <= MaxCmds
  /\ next_cmd_id' = next_cmd_id + 1
  /\ t_cmd' = [t_cmd EXCEPT ![t] = next_cmd_id + 1]
  /\ issued_by' = [issued_by EXCEPT ![next_cmd_id + 1] = s]
  /\ UNCHANGED <<sessVars, countVars, cmd_table, compVars, sqVars, devVars,
                 t_reg, isrVars>>

(* DIV_ROUND_UP(DMA_ACCEL_QUEUE_DEPTH, active < 1 ? 1 : active)            *)
Quota(active) ==
  LET n == IF active < 1 THEN 1 ELSE active IN (QueueDepth + n - 1) \div n

AdmissionLikelyOk(s) ==
  /\ total_inflight < QueueDepth
  /\ inflight[s] < Quota(active_sessions)

(* The quota is computed before cmd_lock is taken.                         *)
ReadQuota(t) ==
  /\ Goto(t, "quota", "admit")
  /\ t_reg' = [t_reg EXCEPT ![t] = Quota(active_sessions)]
  /\ UNCHANGED <<sessVars, countVars, routeVars, compVars, sqVars, devVars,
                 t_sess, t_cmd, isrVars>>

TableHasFreeSlot ==
  Cardinality({c \in Cmds : cmd_table[c] # NoSession}) < MaxInflightCmds

(* Mutant: the hard cap is missing.                                        *)
MayAdmitQuotaOnly(t) ==
  /\ inflight[t_sess[t]] < t_reg[t]
  /\ TableHasFreeSlot

MayAdmit(t) ==
  /\ total_inflight < QueueDepth
  /\ inflight[t_sess[t]] < t_reg[t]
  /\ TableHasFreeSlot

(* The critical section under cmd_lock: check the caps and register.       *)
Admit(t) ==
  /\ Goto(t, "admit", "inc_sess")
  /\ MayAdmit(t)
  /\ cmd_table' = [cmd_table EXCEPT ![t_cmd[t]] = t_sess[t]]
  /\ UNCHANGED <<sessVars, countVars, next_cmd_id, issued_by, compVars, sqVars, devVars,
                 callVars, isrVars>>

Refuse(t) ==
  /\ Goto(t, "admit", "wait")
  /\ ~ MayAdmit(t)
  /\ UNCHANGED <<sessVars, countVars, routeVars, compVars, sqVars, devVars, callVars, isrVars>>

(* wait_event_interruptible(quota_wq, admission_likely_ok): the thread is  *)
(* on the wait queue before it tests the condition.                        *)
WaitQuota(t) ==
  /\ pc[t] = "wait"
  /\ pc' = [pc EXCEPT ![t] = IF AdmissionLikelyOk(t_sess[t]) THEN "quota" ELSE "asleep"]
  /\ UNCHANGED <<sessVars, countVars, routeVars, compVars, sqVars, devVars, callVars, isrVars>>

(* A signal ends the wait with -ERESTARTSYS; the cmd_id is spent.          *)
Interrupted(t) ==
  /\ Return(t, "asleep")
  /\ UNCHANGED <<sessVars, countVars, routeVars, compVars, sqVars, devVars, isrVars>>

(* The two counters move only after cmd_lock has been dropped.             *)
IncSession(t) ==
  /\ Goto(t, "inc_sess", "inc_total")
  /\ inflight' = [inflight EXCEPT ![t_sess[t]] = @ + 1]
  /\ UNCHANGED <<sessVars, total_inflight, routeVars, compVars, sqVars, devVars,
                 callVars, isrVars>>

IncTotal(t) ==
  /\ Goto(t, "inc_total", "index")
  /\ total_inflight' = total_inflight + 1
  /\ UNCHANGED <<sessVars, inflight, routeVars, compVars, sqVars, devVars, callVars, isrVars>>

-----------------------------------------------------------------------------
(* dma_accel_queue_submit_ext(): no lock.  The slot is filled field by     *)
(* field (operands, then cmd_id), and sq_tail++ is a load and a store; the *)
(* doorbell is given the value just stored.                                *)

PickSlot(t) ==
  /\ Goto(t, "index", "operands")
  /\ t_reg' = [t_reg EXCEPT ![t] = sq_tail % QueueDepth]
  /\ UNCHANGED <<sessVars, countVars, routeVars, compVars, sqVars, devVars,
                 t_sess, t_cmd, isrVars>>

WriteOperands(t) ==
  /\ Goto(t, "operands", "cmd_id")
  /\ sq_buf' = [sq_buf EXCEPT ![t_reg[t]].ops = t_cmd[t]]
  /\ UNCHANGED <<sessVars, countVars, routeVars, compVars, sq_tail, reg_sq_tail, devVars,
                 callVars, isrVars>>

WriteCmdId(t) ==
  /\ Goto(t, "cmd_id", "load")
  /\ sq_buf' = [sq_buf EXCEPT ![t_reg[t]].cmd = t_cmd[t]]
  /\ UNCHANGED <<sessVars, countVars, routeVars, compVars, sq_tail, reg_sq_tail, devVars,
                 callVars, isrVars>>

LoadSqTail(t) ==
  /\ Goto(t, "load", "store")
  /\ t_reg' = [t_reg EXCEPT ![t] = sq_tail]
  /\ UNCHANGED <<sessVars, countVars, routeVars, compVars, sqVars, devVars,
                 t_sess, t_cmd, isrVars>>

StoreSqTail(t) ==
  /\ Goto(t, "store", "doorbell")
  /\ sq_tail' = t_reg[t] + 1
  /\ UNCHANGED <<sessVars, countVars, routeVars, compVars, sq_buf, reg_sq_tail, devVars,
                 callVars, isrVars>>

(* The ioctl then returns (a failing copy_to_user changes nothing more).   *)
Doorbell(t) ==
  /\ Return(t, "doorbell")
  /\ reg_sq_tail' = t_reg[t] + 1
  /\ UNCHANGED <<sessVars, countVars, routeVars, compVars, sq_tail, sq_buf, devVars, isrVars>>

-----------------------------------------------------------------------------
(* The device (external)                                                   *)

(* Descriptors are fetched in ring order, when an execution unit is free.  *)
Dispatch ==
  /\ dev_sq_head < reg_sq_tail
  /\ Cardinality(running) < DevSlots
  /\ LET slot == sq_buf[dev_sq_head % QueueDepth]
     IN running' = running \cup {[pos |-> dev_sq_head, cmd |-> slot.cmd, ops |-> slot.ops]}
  /\ dev_sq_head' = dev_sq_head + 1
  /\ UNCHANGED <<sessVars, countVars, routeVars, compVars, sqVars,
                 reg_cq_tail, cq_buf, irq_status, irq_pending, pc, callVars, isrVars>>

(* Commands finish in any order; each posts a completion and interrupts.   *)
Complete(r) ==
  /\ r \in running
  /\ DevHonoursCqHead => reg_cq_tail - reg_cq_head < QueueDepth
  /\ running' = running \ {r}
  /\ cq_buf' = [cq_buf EXCEPT ![reg_cq_tail % QueueDepth] = r.cmd]
  /\ reg_cq_tail' = reg_cq_tail + 1
  /\ irq_status' = TRUE
  /\ irq_pending' = TRUE
  /\ UNCHANGED <<sessVars, countVars, routeVars, compVars, sqVars, dev_sq_head,
                 pc, callVars, isrVars>>

-----------------------------------------------------------------------------
(* dma_accel_irq_handler(), uapi_active branch                             *)

IsrGoto(from, to) == isr_pc = from /\ isr_pc' = to

(* IRQ_STATUS reads 0: IRQ_NONE.                                           *)
IsrEnter ==
  /\ irq_pending
  /\ IsrGoto("idle", IF irq_status THEN "ack" ELSE "idle")
  /\ irq_pending' = FALSE
  /\ UNCHANGED <<sessVars, countVars, routeVars, compVars, sqVars,
                 dev_sq_head, running, reg_cq_tail, cq_buf, irq_status, pc, callVars,
                 isr_tail, isr_comp, isr_owner, cq_head, reg_cq_head>>

(* Writing IRQ_STATUS back clears it, before CQ_TAIL is read.              *)
IsrAck ==
  /\ IsrGoto("ack", "tail")
  /\ irq_status' = FALSE
  /\ UNCHANGED <<sessVars, countVars, routeVars, compVars, sqVars,
                 dev_sq_head, running, reg_cq_tail, cq_buf, irq_pending, pc, callVars,
                 isr_tail, isr_comp, isr_owner, cq_head, reg_cq_head>>

IsrReadTail ==
  /\ IsrGoto("tail", "loop")
  /\ isr_tail' = reg_cq_tail
  /\ UNCHANGED <<sessVars, countVars, routeVars, compVars, sqVars, devVars, pc, callVars,
                 isr_comp, isr_owner, cq_head, reg_cq_head>>

(* Mutant: the table slot stays valid.                                     *)
IsrRouteKeepsEntry ==
  /\ IsrGoto("loop", "push")
  /\ cq_head # isr_tail
  /\ LET id == cq_buf[cq_head % QueueDepth]
     IN /\ id \in Cmds
        /\ cmd_table[id] # NoSession
        /\ isr_comp' = id
        /\ isr_owner' = cmd_table[id]
  /\ UNCHANGED <<sessVars, countVars, routeVars, compVars, sqVars, devVars,
                 pc, callVars, isr_tail, cq_head, reg_cq_head>>

(* Copy the entry, find its owner under cmd_lock and free the table slot.  *)
IsrRoute ==
  /\ IsrGoto("loop", "push")
  /\ cq_head # isr_tail
  /\ LET id == cq_buf[cq_head % QueueDepth]
     IN /\ id \in Cmds
        /\ cmd_table[id] # NoSession
        /\ isr_comp' = id
        /\ isr_owner' = cmd_table[id]
        /\ cmd_table' = [cmd_table EXCEPT ![id] = NoSession]
  /\ UNCHANGED <<sessVars, countVars, next_cmd_id, issued_by, compVars, sqVars, devVars,
                 pc, callVars, isr_tail, cq_head, reg_cq_head>>

(* Mutant: an unknown completion is discounted like a routed one.          *)
IsrDropUnknownUncounts ==
  /\ IsrGoto("loop", "loop")
  /\ cq_head # isr_tail
  /\ LET id == cq_buf[cq_head % QueueDepth]
     IN id \in Cmds => cmd_table[id] = NoSession
  /\ cq_head' = cq_head + 1
  /\ total_inflight' = total_inflight - 1
  /\ UNCHANGED <<sessVars, inflight, routeVars, compVars, sqVars, devVars, pc, callVars,
                 isr_tail, isr_comp, isr_owner, reg_cq_head>>

(* Unknown cmd_id: warned about and dropped.                               *)
IsrDropUnknown ==
  /\ IsrGoto("loop", "loop")
  /\ cq_head # isr_tail
  /\ LET id == cq_buf[cq_head % QueueDepth]
     IN id \in Cmds => cmd_table[id] = NoSession
  /\ cq_head' = cq_head + 1
  /\ UNCHANGED <<sessVars, countVars, routeVars, compVars, sqVars, devVars, pc, callVars,
                 isr_tail, isr_comp, isr_owner, reg_cq_head>>

(* Under comp_lock: a full ring loses its oldest entry.                    *)
IsrPush ==
  /\ IsrGoto("push", "dec_sess")
  /\ LET old == comp_ring[isr_owner]
         kept == IF Len(old) >= CompRingSize THEN Tail(old) ELSE old
     IN comp_ring' = [comp_ring EXCEPT ![isr_owner] = Append(kept, isr_comp)]
  /\ UNCHANGED <<sessVars, countVars, routeVars, reaped, sqVars, devVars, pc, callVars,
                 isr_tail, isr_comp, isr_owner, cq_head, reg_cq_head>>

(* Mutant: the session's counter is forgotten.                             *)
IsrDecSessionForgets ==
  /\ IsrGoto("dec_sess", "dec_total")
  /\ UNCHANGED <<sessVars, countVars, routeVars, compVars, sqVars, devVars, pc, callVars,
                 isr_tail, isr_comp, isr_owner, cq_head, reg_cq_head>>

IsrDecSession ==
  /\ IsrGoto("dec_sess", "dec_total")
  /\ inflight' = [inflight EXCEPT ![isr_owner] = @ - 1]
  /\ UNCHANGED <<sessVars, total_inflight, routeVars, compVars, sqVars, devVars, pc, callVars,
                 isr_tail, isr_comp, isr_owner, cq_head, reg_cq_head>>

IsrDecTotal ==
  /\ IsrGoto("dec_total", "wake_quota")
  /\ total_inflight' = total_inflight - 1
  /\ UNCHANGED <<sessVars, inflight, routeVars, compVars, sqVars, devVars, pc, callVars,
                 isr_tail, isr_comp, isr_owner, cq_head, reg_cq_head>>

(* Mutant: the submitters waiting for admission are not woken.             *)
IsrWakeQuotaForgets ==
  /\ IsrGoto("wake_quota", "wake_comp")
  /\ UNCHANGED <<sessVars, countVars, routeVars, compVars, sqVars, devVars, pc, callVars,
                 isr_tail, isr_comp, isr_owner, cq_head, reg_cq_head>>

IsrWakeQuota ==
  /\ IsrGoto("wake_quota", "wake_comp")
  /\ pc' = QuotaWoken
  /\ UNCHANGED <<sessVars, countVars, routeVars, compVars, sqVars, devVars, callVars,
                 isr_tail, isr_comp, isr_owner, cq_head, reg_cq_head>>

(* wake_up_interruptible(&owner->comp_wq), then dev->cq_head++.            *)
IsrWakeComp ==
  /\ IsrGoto("wake_comp", "loop")
  /\ pc' = [t \in Threads |-> IF pc[t] = "polling" /\ t_sess[t] = isr_owner
                              THEN "poll" ELSE pc[t]]
  /\ cq_head' = cq_head + 1
  /\ isr_comp' = 0
  /\ isr_owner' = NoSession
  /\ UNCHANGED <<sessVars, countVars, routeVars, compVars, sqVars, devVars, callVars,
                 isr_tail, reg_cq_head>>

(* Mutants: IRQ_STATUS is acknowledged after the drain; CQ_HEAD is not     *)
(* written.                                                                *)
IsrExitAcks ==
  /\ IsrGoto("loop", "idle")
  /\ cq_head = isr_tail
  /\ reg_cq_head' = cq_head
  /\ irq_status' = FALSE
  /\ isr_tail' = 0
  /\ UNCHANGED <<sessVars, countVars, routeVars, compVars, sqVars, dev_sq_head, running,
                 reg_cq_tail, cq_buf, irq_pending, pc, callVars, isr_comp, isr_owner, cq_head>>

IsrExitSilent ==
  /\ IsrGoto("loop", "idle")
  /\ cq_head = isr_tail
  /\ isr_tail' = 0
  /\ UNCHANGED <<sessVars, countVars, routeVars, compVars, sqVars, devVars, pc, callVars,
                 isr_comp, isr_owner, cq_head, reg_cq_head>>

IsrExit ==
  /\ IsrGoto("loop", "idle")
  /\ cq_head = isr_tail
  /\ reg_cq_head' = cq_head
  /\ isr_tail' = 0
  /\ UNCHANGED <<sessVars, countVars, routeVars, compVars, sqVars, devVars, pc, callVars,
                 isr_comp, isr_owner, cq_head>>

-----------------------------------------------------------------------------
(* read() and poll()                                                       *)

(* n_want is the caller's count capped by n_avail; with nothing to read,   *)
(* or no room for one entry, the call fails and changes nothing.           *)
ReadBegin(t, s) ==
  /\ Enter(t, s, "read")
  /\ \E n_want \in 1..Len(comp_ring[s]) : t_reg' = [t_reg EXCEPT ![t] = n_want]
  /\ UNCHANGED <<sessVars, countVars, routeVars, compVars, sqVars, devVars,
                 t_cmd, isrVars>>

(* One round of the copy loop: pop under comp_lock, then copy_to_user.     *)
ReadOne(t) ==
  LET s == t_sess[t] IN
  /\ pc[t] = "read"
  /\ comp_ring[s] # <<>>
  /\ comp_ring' = [comp_ring EXCEPT ![s] = Tail(@)]
  /\ reaped' = [reaped EXCEPT ![s] = @ \cup {Head(comp_ring[s])}]
  /\ \/ t_reg[t] = 1 /\ Return(t, "read")
     \/ /\ t_reg[t] > 1
        /\ t_reg' = [t_reg EXCEPT ![t] = @ - 1]
        /\ UNCHANGED <<pc, t_sess, t_cmd>>
  /\ UNCHANGED <<sessVars, countVars, routeVars, sqVars, devVars, isrVars>>

(* copy_to_user fails: the entry popped is gone and the loop ends.         *)
ReadFault(t) ==
  LET s == t_sess[t] IN
  /\ Return(t, "read")
  /\ comp_ring[s] # <<>>
  /\ comp_ring' = [comp_ring EXCEPT ![s] = Tail(@)]
  /\ UNCHANGED <<sessVars, countVars, routeVars, reaped, sqVars, devVars, isrVars>>

(* A concurrent reader of the same fd got there first.                     *)
ReadRaced(t) ==
  /\ Return(t, "read")
  /\ comp_ring[t_sess[t]] = <<>>
  /\ UNCHANGED <<sessVars, countVars, routeVars, compVars, sqVars, devVars, isrVars>>

Poll(t, s) ==
  /\ Enter(t, s, "poll")
  /\ UNCHANGED <<sessVars, countVars, routeVars, compVars, sqVars, devVars,
                 t_cmd, t_reg, isrVars>>

(* poll_wait() has queued the thread on comp_wq before the ring is tested. *)
PollReady(t) ==
  /\ Return(t, "poll")
  /\ comp_ring[t_sess[t]] # <<>>
  /\ UNCHANGED <<sessVars, countVars, routeVars, compVars, sqVars, devVars, isrVars>>

(* Mutant: the ring was tested before the thread was on comp_wq.           *)
PollSleepUntested(t) ==
  /\ Goto(t, "poll", "polling")
  /\ UNCHANGED <<sessVars, countVars, routeVars, compVars, sqVars, devVars, callVars, isrVars>>

PollSleep(t) ==
  /\ Goto(t, "poll", "polling")
  /\ comp_ring[t_sess[t]] = <<>>
  /\ UNCHANGED <<sessVars, countVars, routeVars, compVars, sqVars, devVars, callVars, isrVars>>

(* The caller's timeout expires, or a signal arrives.                      *)
PollTimeout(t) ==
  /\ Return(t, "polling")
  /\ UNCHANGED <<sessVars, countVars, routeVars, compVars, sqVars, devVars, isrVars>>

-----------------------------------------------------------------------------
UserCall(t) ==
  \E s \in Sessions :
    Open(t, s) \/ Release(t, s) \/ AllocCmdId(t, s) \/ ReadBegin(t, s) \/ Poll(t, s)

(* The steps a thread inside the driver takes of its own accord.           *)
KernelStep(t) ==
  \/ ReadQuota(t) \/ Admit(t) \/ Refuse(t) \/ WaitQuota(t)
  \/ IncSession(t) \/ IncTotal(t)
  \/ PickSlot(t) \/ WriteOperands(t) \/ WriteCmdId(t)
  \/ LoadSqTail(t) \/ StoreSqTail(t) \/ Doorbell(t)
  \/ ReadOne(t) \/ ReadRaced(t) \/ PollReady(t) \/ PollSleep(t)
  \/ ReleaseWake(t) \/ ReleaseFree(t)

Disturbance(t) == Interrupted(t) \/ PollTimeout(t) \/ ReadFault(t)

DeviceStep == Dispatch \/ \E r \in running : Complete(r)

IsrStep ==
  \/ IsrEnter \/ IsrAck \/ IsrReadTail \/ IsrRoute \/ IsrDropUnknown \/ IsrPush
  \/ IsrDecSession \/ IsrDecTotal \/ IsrWakeQuota \/ IsrWakeComp \/ IsrExit

Next ==
  \/ \E t \in Threads : UserCall(t) \/ KernelStep(t) \/ Disturbance(t)
  \/ DeviceStep
  \/ IsrStep

Spec == Init /\ [][Next]_vars

(* A thread inside the driver is eventually scheduled, a pending interrupt *)
(* is eventually taken, and the device works through what it was given.    *)
(* Nothing obliges a user thread to make another call.                     *)
Fairness ==
  /\ \A t \in Threads : WF_vars(KernelStep(t))
  /\ WF_vars(DeviceStep)
  /\ WF_vars(IsrStep)

FairSpec == Spec /\ Fairness

-----------------------------------------------------------------------------
(* Properties                                                              *)

PcValues ==
  {"idle", "quota", "admit", "wait", "asleep", "inc_sess", "inc_total", "index",
   "operands", "cmd_id", "load", "store", "doorbell", "read", "poll", "polling",
   "rel_wake", "drain"}

IsrPcValues ==
  {"idle", "ack", "tail", "loop", "push", "dec_sess", "dec_total", "wake_quota", "wake_comp"}

(* Every field keeps its type, and the unread part of comp_ring never      *)
(* outgrows the array behind it.                                           *)
TypeOK ==
  /\ sess_state \in [Sessions -> {"closed", "open", "releasing", "freed"}]
  /\ active_sessions \in Int
  /\ inflight \in [Sessions -> Int]
  /\ total_inflight \in Int
  /\ next_cmd_id \in 1..MaxCmds + 1
  /\ cmd_table \in [Cmds -> Sessions \cup {NoSession}]
  /\ comp_ring \in [Sessions -> Seq(CmdOrNone)]
  /\ \A s \in Sessions : Len(comp_ring[s]) <= CompRingSize
  /\ sq_tail \in Nat
  /\ cq_head \in Nat
  /\ sq_buf \in [0..QueueDepth - 1 -> [cmd : CmdOrNone, ops : CmdOrNone]]
  /\ cq_buf \in [0..QueueDepth - 1 -> CmdOrNone]
  /\ reg_sq_tail \in Nat
  /\ dev_sq_head \in Nat
  /\ running \subseteq [pos : Nat, cmd : CmdOrNone, ops : CmdOrNone]
  /\ reg_cq_tail \in Nat
  /\ reg_cq_head \in Nat
  /\ irq_status \in BOOLEAN
  /\ irq_pending \in BOOLEAN
  /\ pc \in [Threads -> PcValues]
  /\ t_sess \in [Threads -> Sessions \cup {NoSession}]
  /\ t_cmd \in [Threads -> CmdOrNone]
  /\ t_reg \in [Threads -> Nat]
  /\ isr_pc \in IsrPcValues
  /\ isr_tail \in Nat
  /\ isr_comp \in CmdOrNone
  /\ isr_owner \in Sessions \cup {NoSession}
  /\ issued_by \in [Cmds -> Sessions \cup {NoSession}]
  /\ reaped \in [Sessions -> SUBSET CmdOrNone]

Delivered(s) == {comp_ring[s][i] : i \in DOMAIN comp_ring[s]} \cup reaped[s]

Registered(s) == {c \in Cmds : cmd_table[c] = s}

Alive(s) == sess_state[s] \in {"open", "releasing"}

(* Sessions are isolated: whatever a session finds in its comp_ring, or    *)
(* has read, is the completion of a command its own ioctl(SUBMIT) issued,  *)
(* however the handler, the device and the other submitters interleave.    *)
CompletionOwnership ==
  \A s \in Sessions : \A c \in Delivered(s) : issued_by[c] = s

(* The handler delivers a completion at most once, even if the device runs *)
(* a stale descriptor again: a delivered command is no longer in           *)
(* cmd_table, is not queued twice and is not queued again once read.       *)
DeliveredOnce ==
  \A s \in Sessions :
    /\ \A c \in Delivered(s) : cmd_table[c] = NoSession
    /\ \A i, j \in DOMAIN comp_ring[s] : comp_ring[s][i] = comp_ring[s][j] => i = j
    /\ \A i \in DOMAIN comp_ring[s] : comp_ring[s][i] \notin reaped[s]

(* The counters are kept in lockstep with cmd_table: each differs from the *)
(* number of registered commands only by the submitters that have          *)
(* registered and not yet counted, and by the command the handler has      *)
(* unregistered and not yet discounted.                                    *)
InflightLockstep ==
  /\ \A s \in Sessions :
       inflight[s] = Cardinality(Registered(s))
                     - Cardinality({t \in Threads : pc[t] = "inc_sess" /\ t_sess[t] = s})
                     + (IF isr_pc \in {"push", "dec_sess"} /\ isr_owner = s THEN 1 ELSE 0)
  /\ total_inflight = Cardinality({c \in Cmds : cmd_table[c] # NoSession})
                      - Cardinality({t \in Threads : pc[t] \in {"inc_sess", "inc_total"}})
                      + (IF isr_pc \in {"push", "dec_sess", "dec_total"} THEN 1 ELSE 0)

(* release() never frees a session that cmd_table still points to, nor one *)
(* whose comp_ring or inflight the handler is about to touch, nor one a    *)
(* thread is still using.                                                  *)
NoDanglingSession ==
  /\ \A c \in Cmds : cmd_table[c] # NoSession => Alive(cmd_table[c])
  /\ isr_pc \in {"push", "dec_sess"} => Alive(isr_owner)
  /\ \A t \in Threads : pc[t] # "idle" => Alive(t_sess[t])

Waiting(s) ==
  {t_cmd[t] : t \in {u \in Threads : pc[u] \in {"quota", "admit", "wait", "asleep"} /\ t_sess[u] = s}}

(* A command is outstanding until the handler has put its completion in    *)
(* the ring, which is after it has left cmd_table.                         *)
Outstanding(s) ==
  Registered(s) \cup (IF isr_pc = "push" /\ isr_owner = s THEN {isr_comp} ELSE {})

Contract == INSTANCE Session WITH
  RingSize <- CompRingSize, life <- sess_state, last <- next_cmd_id,
  waiting <- [s \in Sessions |-> Waiting(s)],
  outstanding <- [s \in Sessions |-> Outstanding(s)],
  ring <- comp_ring

(* The driver keeps the session contract: every step of a thread, of the   *)
(* handler or of the device is a step of Session or changes nothing that   *)
(* the users of the files can see.                                         *)
SessionContract == Contract!Spec

(* No wake-up of a blocked submitter is lost: if a sleeper's admission     *)
(* condition holds, the handler or a release() is on its way to wake it.   *)
NoLostQuotaWakeup ==
  \A t \in Threads :
    pc[t] = "asleep" /\ AdmissionLikelyOk(t_sess[t]) =>
      \/ isr_pc \in {"dec_total", "wake_quota"}
      \/ \E u \in Threads : pc[u] = "rel_wake"

(* No wake-up of a poll()er is lost: if it sleeps on a session that has an *)
(* unread completion, the handler is on its way to wake that session.      *)
NoLostPollWakeup ==
  \A t \in Threads :
    pc[t] = "polling" /\ comp_ring[t_sess[t]] # <<>> =>
      isr_pc \in {"dec_sess", "dec_total", "wake_quota", "wake_comp"} /\ isr_owner = t_sess[t]

(* No completion is stranded in CQ: entries the handler has not consumed   *)
(* are covered by an interrupt still to come or by the handler's own loop. *)
NoStrandedCompletion ==
  cq_head # reg_cq_tail =>
    \/ irq_pending /\ irq_status
    \/ isr_pc \in {"ack", "tail"}
    \/ isr_pc # "idle" /\ isr_tail = reg_cq_tail

(* How far the check under cmd_lock and the later increments can drift     *)
(* apart: each submitting thread beyond the first can exceed the hard cap  *)
(* by one.                                                                 *)
AdmissionOvershoot == total_inflight <= QueueDepth + Cardinality(Threads) - 1

(* The M14 claim of the admission code: there are never more commands in   *)
(* flight than the rings have slots, whatever the sessions' quotas add up  *)
(* to.                                                                     *)
HardCap == total_inflight <= QueueDepth

PendingPositions == dev_sq_head..reg_sq_tail - 1

Intact(d) == d.cmd \in Cmds /\ d.ops = d.cmd /\ cmd_table[d.cmd] # NoSession

(* Each descriptor the device has been shown, dispatched or not, is one    *)
(* registered command with that command's own operands, no command is      *)
(* shown twice, and no slot is refilled before the device fetched it.      *)
DescriptorsIntact ==
  /\ sq_tail - dev_sq_head <= QueueDepth
  /\ \A r \in running : Intact(r)
  /\ \A p \in PendingPositions : Intact(sq_buf[p % QueueDepth])
  /\ \A p, q \in PendingPositions :
       sq_buf[p % QueueDepth].cmd = sq_buf[q % QueueDepth].cmd => p = q
  /\ \A r \in running, p \in PendingPositions : r.cmd # sq_buf[p % QueueDepth].cmd
  /\ \A r, q \in running : r.cmd = q.cmd => r = q

(* The device never overwrites a completion the handler has not copied,    *)
(* even though the handler lets new commands in before it advances cq_head *)
(* past the entry and before it writes CQ_HEAD.                            *)
CqNotOverwritten ==
  LET copied == isr_pc \in {"push", "dec_sess", "dec_total", "wake_quota", "wake_comp"}
  IN reg_cq_tail - (cq_head + IF copied THEN 1 ELSE 0) <= QueueDepth

(* The session the handler is serving is still allocated when the handler  *)
(* wakes its comp_wq, its last use of the pointer.                         *)
OwnerAliveAtWake == isr_pc = "wake_comp" => Alive(isr_owner)

(* Every command ioctl(SUBMIT) registered is eventually completed by the   *)
(* device and routed by the handler.                                       *)
CommandsComplete ==
  \A c \in Cmds : cmd_table[c] # NoSession ~> cmd_table[c] = NoSession

(* Every ioctl(SUBMIT) eventually returns: one that blocks for admission   *)
(* is woken and admitted.                                                  *)
SubmitReturns == \A t \in Threads : pc[t] = "quota" ~> pc[t] = "idle"

(* Every release() returns: the drain loop sees inflight reach zero.       *)
ReleaseReturns == \A s \in Sessions : sess_state[s] = "releasing" ~> sess_state[s] = "freed"

=============================================================================
