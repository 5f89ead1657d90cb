--------------------------- MODULE CmdPathRouting ---------------------------
(***************************************************************************)
(* CmdPath for any number of threads, sessions and commands and any ring   *)
(* sizes: type correctness, no completion stranded in CQ, no wake-up lost; *)
(* completions reach their own session, once; what inflight and            *)
(* total_inflight count, and how far admission can overshoot the cap; a    *)
(* session outlives every reference to it.                                 *)
(***************************************************************************)
EXTENDS CmdPath, TLAPS

(* The quota is a natural number, also for a transient session count.      *)
LEMMA QuotaType == ASSUME NEW active \in Int PROVE Quota(active) \in Nat
BY CmdPathAssumption DEF Quota

(* Waking the waiters of quota_wq moves them to a known place.             *)
LEMMA WokenType == pc \in [Threads -> PcValues] => QuotaWoken \in [Threads -> PcValues]
BY Zenon DEF QuotaWoken, PcValues

(* The initial state is well typed.                                        *)
LEMMA InitType == Init => TypeOK
<1> SUFFICES ASSUME Init PROVE TypeOK
  BY Zenon
<1> USE CmdPathAssumption DEF Init
<1>1. 0 \in CmdOrNone /\ 1 \in 1..MaxCmds + 1
  BY DEF CmdOrNone
<1>2. comp_ring \in [Sessions -> Seq(CmdOrNone)] /\ \A s \in Sessions : Len(comp_ring[s]) <= CompRingSize
  OBVIOUS
<1>3. /\ sq_buf \in [0..QueueDepth - 1 -> [cmd : CmdOrNone, ops : CmdOrNone]]
      /\ cq_buf \in [0..QueueDepth - 1 -> CmdOrNone]
  BY <1>1, Zenon
<1>4. pc \in [Threads -> PcValues] /\ isr_pc \in IsrPcValues
  BY Zenon DEF PcValues, IsrPcValues
<1>5. irq_status \in BOOLEAN /\ irq_pending \in BOOLEAN
  BY Zenon
<1>6. /\ sess_state \in [Sessions -> {"closed", "open", "releasing", "freed"}]
      /\ cmd_table \in [Cmds -> Sessions \cup {NoSession}]
      /\ issued_by \in [Cmds -> Sessions \cup {NoSession}]
      /\ reaped \in [Sessions -> SUBSET CmdOrNone]
      /\ running \subseteq [pos : Nat, cmd : CmdOrNone, ops : CmdOrNone]
  BY Zenon
<1>7. /\ inflight \in [Sessions -> Int]
      /\ t_sess \in [Threads -> Sessions \cup {NoSession}]
      /\ t_cmd \in [Threads -> CmdOrNone]
      /\ t_reg \in [Threads -> Nat]
  BY <1>1
<1> QED
  BY <1>1, <1>2, <1>3, <1>4, <1>5, <1>6, <1>7 DEF TypeOK

(* What a counter shows and what is still to be counted make up what there *)
(* is.                                                                     *)
Balanced(i, u, r, l) == i + u = r + l

(* Counting one keeps the balance.                                         *)
LEMMA BalanceMoves ==
  ASSUME NEW i \in Int, NEW u \in Int, NEW r \in Int, NEW l \in Int, Balanced(i, u, r, l)
  PROVE  Balanced(i + 1, u - 1, r, l)
BY DEF Balanced

(* A balance with an empty side.                                           *)
LEMMA BalanceEmpty ==
  ASSUME NEW i \in Int, NEW r \in Nat, NEW l \in Nat, ~ (i > 0), i + 0 = r + l
  PROVE  r = 0 /\ l = 0
OBVIOUS

(* A thread moves on, and may leave its session.                           *)
LEMMA ThreadMoves ==
  ASSUME TypeOK, NEW t \in Threads, NEW q, NEW s, pc' = [pc EXCEPT ![t] = q],
         t_sess' = t_sess \/ t_sess' = [t_sess EXCEPT ![t] = s]
  PROVE  /\ pc'[t] = q
         /\ \A u \in Threads \ {t} : pc'[u] = pc[u] /\ t_sess'[u] = t_sess[u]
<1>1. /\ pc \in [Threads -> PcValues]
      /\ t_sess \in [Threads -> Sessions \cup {NoSession}]
  BY Zenon DEF TypeOK
<1> QED
  BY <1>1, Zenon

(* A counter moves by one.                                                 *)
LEMMA CountType ==
  ASSUME NEW f \in [Sessions -> Int], NEW x
  PROVE  /\ [f EXCEPT ![x] = f[x] + 1] \in [Sessions -> Int]
         /\ [f EXCEPT ![x] = f[x] - 1] \in [Sessions -> Int]
<1>1. CASE x \in Sessions
  BY <1>1
<1>2. CASE x \notin Sessions
  BY <1>2, Zenon
<1> QED
  BY <1>1, <1>2, Zenon

(* The two operations on a comp_ring keep it within its array.             *)
LEMMA PushType ==
  ASSUME NEW old \in Seq(CmdOrNone), Len(old) <= CompRingSize, NEW c \in CmdOrNone
  PROVE  LET kept == IF Len(old) >= CompRingSize THEN Tail(old) ELSE old
         IN Append(kept, c) \in Seq(CmdOrNone) /\ Len(Append(kept, c)) <= CompRingSize
<1>1. CASE Len(old) >= CompRingSize
  <2>1. old # <<>>
    BY <1>1, CmdPathAssumption
  <2>2. Tail(old) \in Seq(CmdOrNone) /\ Len(Tail(old)) = Len(old) - 1
    BY <2>1
  <2> QED
    BY <1>1, <2>2, CmdPathAssumption
<1>2. CASE Len(old) < CompRingSize
  BY <1>2, CmdPathAssumption
<1> QED
  BY <1>1, <1>2, CmdPathAssumption

(* What read() leaves in a comp_ring fits its array.                       *)
LEMMA TailType ==
  ASSUME NEW old \in Seq(CmdOrNone), Len(old) <= CompRingSize, old # <<>>
  PROVE  Tail(old) \in Seq(CmdOrNone) /\ Len(Tail(old)) <= CompRingSize
BY CmdPathAssumption

(* open() and release().                                                   *)
LEMMA SessionType ==
  ASSUME TypeOK, NEW t \in Threads,
         (\E s \in Sessions : Open(t, s) \/ Release(t, s)) \/ ReleaseWake(t) \/ ReleaseFree(t)
  PROVE  TypeOK'
<1> USE CmdPathAssumption DEF TypeOK, sessVars, countVars, routeVars, compVars, sqVars, devVars, callVars, isrVars
<1>1. CASE \E s \in Sessions : Open(t, s)
  BY <1>1 DEF Open, Goto
<1>2. CASE \E s \in Sessions : Release(t, s)
  BY <1>2 DEF Release, Enter, Goto, PcValues
<1>3. CASE ReleaseWake(t)
  BY <1>3, WokenType, Zenon DEF ReleaseWake, PcValues
<1>4. CASE ReleaseFree(t)
  BY <1>4, Zenon DEF ReleaseFree, Return, Goto, PcValues, CmdOrNone
<1> QED
  BY <1>1, <1>2, <1>3, <1>4, Zenon

(* ioctl(SUBMIT) up to the counters.                                       *)
LEMMA SubmitType ==
  ASSUME TypeOK, NEW t \in Threads,
         (\E s \in Sessions : AllocCmdId(t, s)) \/ ReadQuota(t) \/ Admit(t) \/ Refuse(t) \/ WaitQuota(t) \/ Interrupted(t) \/ IncSession(t) \/ IncTotal(t)
  PROVE  TypeOK'
<1> USE CmdPathAssumption DEF TypeOK, sessVars, countVars, routeVars, compVars, sqVars, devVars, callVars, isrVars
<1>1. CASE \E s \in Sessions : AllocCmdId(t, s)
  <2>1. next_cmd_id + 1 \in Cmds /\ next_cmd_id + 1 \in CmdOrNone
    BY <1>1 DEF AllocCmdId, Cmds, CmdOrNone
  <2>2. next_cmd_id' \in 1..MaxCmds + 1
    BY <1>1 DEF AllocCmdId
  <2> QED
    BY <1>1, <2>1, <2>2 DEF AllocCmdId, Enter, Goto, PcValues
<1>2. CASE ReadQuota(t)
  BY <1>2, QuotaType, Zenon DEF ReadQuota, Goto, PcValues
<1>3. CASE Admit(t)
  BY <1>3, Zenon DEF Admit, Goto, PcValues
<1>4. CASE Refuse(t)
  BY <1>4, Zenon DEF Refuse, Goto, PcValues
<1>5. CASE WaitQuota(t)
  BY <1>5, Zenon DEF WaitQuota, PcValues
<1>6. CASE Interrupted(t)
  BY <1>6, Zenon DEF Interrupted, Return, Goto, PcValues, CmdOrNone
<1>7. CASE IncSession(t)
  <2>1. inflight' \in [Sessions -> Int]
    BY <1>7, CountType, Zenon DEF IncSession
  <2>2. pc' \in [Threads -> PcValues]
    BY <1>7, Zenon DEF IncSession, Goto, PcValues
  <2> QED
    BY <1>7, <2>1, <2>2, Zenon DEF IncSession
<1>8. CASE IncTotal(t)
  BY <1>8 DEF IncTotal, Goto, PcValues
<1> QED
  BY <1>1, <1>2, <1>3, <1>4, <1>5, <1>6, <1>7, <1>8, Zenon

(* The enqueue.                                                            *)
LEMMA EnqueueType ==
  ASSUME TypeOK, NEW t \in Threads,
         PickSlot(t) \/ WriteOperands(t) \/ WriteCmdId(t) \/ LoadSqTail(t) \/ StoreSqTail(t) \/ Doorbell(t)
  PROVE  TypeOK'
<1> USE CmdPathAssumption DEF TypeOK, sessVars, countVars, routeVars, compVars, sqVars, devVars, callVars, isrVars
<1>1. CASE PickSlot(t)
  BY <1>1 DEF PickSlot, Goto, PcValues
<1>2. CASE WriteOperands(t)
  BY ZenonT(30), <1>2 DEF WriteOperands, Goto, PcValues
<1>3. CASE WriteCmdId(t)
  BY ZenonT(30), <1>3 DEF WriteCmdId, Goto, PcValues
<1>4. CASE LoadSqTail(t)
  BY <1>4, Zenon DEF LoadSqTail, Goto, PcValues
<1>5. CASE StoreSqTail(t)
  BY <1>5 DEF StoreSqTail, Goto, PcValues
<1>6. CASE Doorbell(t)
  BY <1>6 DEF Doorbell, Return, Goto, PcValues, CmdOrNone
<1> QED
  BY <1>1, <1>2, <1>3, <1>4, <1>5, <1>6, Zenon

(* The interrupt handler.                                                  *)
LEMMA IsrType ==
  ASSUME TypeOK,
         IsrEnter \/ IsrAck \/ IsrReadTail \/ IsrRoute \/ IsrDropUnknown \/ IsrPush \/ IsrDecSession \/ IsrDecTotal \/ IsrWakeQuota \/ IsrWakeComp \/ IsrExit
  PROVE  TypeOK'
<1> USE CmdPathAssumption DEF TypeOK, sessVars, countVars, routeVars, compVars, sqVars, devVars, callVars, isrVars
<1>1. CASE IsrEnter
  BY <1>1, Zenon DEF IsrEnter, IsrGoto, IsrPcValues
<1>2. CASE IsrAck
  BY ZenonT(30), <1>2 DEF IsrAck, IsrGoto, IsrPcValues
<1>3. CASE IsrReadTail
  BY <1>3, Zenon DEF IsrReadTail, IsrGoto, IsrPcValues
<1>4. CASE IsrRoute
  BY <1>4, Zenon DEF IsrRoute, IsrGoto, IsrPcValues, CmdOrNone
<1>5. CASE IsrDropUnknown
  BY <1>5 DEF IsrDropUnknown, IsrGoto, IsrPcValues
<1>6. CASE IsrPush
  <2>1. ASSUME NEW u \in Sessions
        PROVE  comp_ring'[u] \in Seq(CmdOrNone) /\ Len(comp_ring'[u]) <= CompRingSize
    BY <1>6, PushType, Zenon DEF IsrPush
  <2>2. comp_ring' \in [Sessions -> Seq(CmdOrNone)]
    BY <1>6, <2>1, Zenon DEF IsrPush
  <2>3. isr_pc' \in IsrPcValues
    BY <1>6, Zenon DEF IsrPush, IsrGoto, IsrPcValues
  <2> QED
    BY <1>6, <2>1, <2>2, <2>3, Zenon DEF IsrPush
<1>7. CASE IsrDecSession
  <2>1. inflight' \in [Sessions -> Int]
    BY <1>7, CountType, Zenon DEF IsrDecSession
  <2>2. isr_pc' \in IsrPcValues
    BY <1>7, Zenon DEF IsrDecSession, IsrGoto, IsrPcValues
  <2> QED
    BY <1>7, <2>1, <2>2, Zenon DEF IsrDecSession
<1>8. CASE IsrDecTotal
  BY <1>8 DEF IsrDecTotal, IsrGoto, IsrPcValues
<1>9. CASE IsrWakeQuota
  BY <1>9, WokenType, Zenon DEF IsrWakeQuota, IsrGoto, IsrPcValues
<1>10. CASE IsrWakeComp
  BY <1>10 DEF IsrWakeComp, IsrGoto, IsrPcValues, PcValues, CmdOrNone
<1>11. CASE IsrExit
  BY <1>11, Zenon DEF IsrExit, IsrGoto, IsrPcValues
<1> QED
  BY <1>1, <1>2, <1>3, <1>4, <1>5, <1>6, <1>7, <1>8, <1>9, <1>10, <1>11, Zenon

(* read() and poll().                                                      *)
LEMMA ReadType ==
  ASSUME TypeOK, NEW t \in Threads,
         (\E s \in Sessions : ReadBegin(t, s) \/ Poll(t, s)) \/ ReadOne(t) \/ ReadFault(t) \/ ReadRaced(t) \/ PollReady(t) \/ PollSleep(t) \/ PollTimeout(t)
  PROVE  TypeOK'
<1> USE CmdPathAssumption DEF TypeOK, sessVars, countVars, routeVars, compVars, sqVars, devVars, callVars, isrVars
<1>1. CASE \E s \in Sessions : ReadBegin(t, s)
  BY <1>1 DEF ReadBegin, Enter, Goto, PcValues
<1>2. CASE ReadOne(t)
  <2>1. ASSUME NEW u \in Sessions
        PROVE  comp_ring'[u] \in Seq(CmdOrNone) /\ Len(comp_ring'[u]) <= CompRingSize
    BY <1>2, TailType, Zenon DEF ReadOne
  <2>2. comp_ring' \in [Sessions -> Seq(CmdOrNone)]
    BY <1>2, <2>1, Zenon DEF ReadOne
  <2>3. reaped' \in [Sessions -> SUBSET CmdOrNone]
    <3>1. CASE t_sess[t] \in Sessions
      <4>1. Head(comp_ring[t_sess[t]]) \in CmdOrNone
        BY <1>2, <3>1 DEF ReadOne
      <4> QED
        BY <1>2, <3>1, <4>1, Zenon DEF ReadOne
    <3>2. CASE t_sess[t] \notin Sessions
      BY <1>2, <3>2, Zenon DEF ReadOne
    <3> QED
      BY <3>1, <3>2, Zenon
  <2>4. /\ pc' \in [Threads -> PcValues]
        /\ t_sess' \in [Threads -> Sessions \cup {NoSession}]
        /\ t_cmd' \in [Threads -> CmdOrNone]
        /\ t_reg' \in [Threads -> Nat]
    <3>1. CASE Return(t, "read")
      BY <3>1, Zenon DEF Return, Goto, PcValues, CmdOrNone
    <3>2. CASE /\ t_reg[t] > 1
               /\ t_reg' = [t_reg EXCEPT ![t] = @ - 1]
               /\ UNCHANGED <<pc, t_sess, t_cmd>>
      BY <3>2
    <3> QED
      BY <1>2, <3>1, <3>2, Zenon DEF ReadOne
  <2> QED
    BY <1>2, <2>1, <2>2, <2>3, <2>4, Zenon DEF ReadOne
<1>3. CASE ReadFault(t)
  <2>1. ASSUME NEW u \in Sessions
        PROVE  comp_ring'[u] \in Seq(CmdOrNone) /\ Len(comp_ring'[u]) <= CompRingSize
    BY <1>3, TailType, Zenon DEF ReadFault
  <2>2. comp_ring' \in [Sessions -> Seq(CmdOrNone)]
    BY <1>3, <2>1, Zenon DEF ReadFault
  <2>4. /\ pc' \in [Threads -> PcValues]
        /\ t_sess' \in [Threads -> Sessions \cup {NoSession}]
        /\ t_cmd' \in [Threads -> CmdOrNone]
        /\ t_reg' \in [Threads -> Nat]
    BY <1>3, Zenon DEF ReadFault, Return, Goto, PcValues, CmdOrNone
  <2> QED
    BY <1>3, <2>1, <2>2, <2>4, Zenon DEF ReadFault
<1>4. CASE ReadRaced(t)
  BY <1>4, Zenon DEF ReadRaced, Return, Goto, PcValues, CmdOrNone
<1>5. CASE \E s \in Sessions : Poll(t, s)
  BY <1>5 DEF Poll, Enter, Goto, PcValues
<1>6. CASE PollReady(t)
  BY <1>6, Zenon DEF PollReady, Return, Goto, PcValues, CmdOrNone
<1>7. CASE PollSleep(t)
  BY <1>7, Zenon DEF PollSleep, Goto, PcValues
<1>8. CASE PollTimeout(t)
  BY <1>8, Zenon DEF PollTimeout, Return, Goto, PcValues, CmdOrNone
<1> QED
  BY ZenonT(30), <1>1, <1>2, <1>3, <1>4, <1>5, <1>6, <1>7, <1>8

(* The device.                                                             *)
LEMMA DeviceType == ASSUME TypeOK, DeviceStep PROVE TypeOK'
<1> USE CmdPathAssumption DEF TypeOK, sessVars, countVars, routeVars, compVars, sqVars, callVars, isrVars
<1>1. CASE Dispatch
  BY <1>1 DEF Dispatch
<1>2. CASE \E r \in running : Complete(r)
  BY <1>2 DEF Complete
<1> QED
  BY <1>1, <1>2, Zenon DEF DeviceStep

(* Every step keeps the types.                                             *)
LEMMA NextType == ASSUME TypeOK, [Next]_vars PROVE TypeOK'
<1>1. CASE UNCHANGED vars
  BY <1>1, Zenon DEF vars, TypeOK, sessVars, countVars, routeVars, compVars, sqVars, devVars,
              callVars, isrVars
<1>2. ASSUME NEW t \in Threads, UserCall(t) PROVE TypeOK'
  BY <1>2, SessionType, SubmitType, ReadType, Zenon DEF UserCall
<1>3. ASSUME NEW t \in Threads, KernelStep(t) PROVE TypeOK'
  BY <1>3, SessionType, SubmitType, EnqueueType, ReadType, Zenon DEF KernelStep
<1>4. ASSUME NEW t \in Threads, Disturbance(t) PROVE TypeOK'
  BY <1>4, SubmitType, ReadType, Zenon DEF Disturbance
<1>5. CASE DeviceStep
  BY <1>5, DeviceType, Zenon
<1>6. CASE IsrStep
  BY <1>6, IsrType, Zenon DEF IsrStep
<1> QED
  BY <1>1, <1>2, <1>3, <1>4, <1>5, <1>6, Zenon DEF Next

(* Every variable of the command path keeps its type, and the unread part  *)
(* of a completion ring never outgrows its array.                          *)
THEOREM TypeCorrect == Spec => []TypeOK
BY InitType, NextType, PTL DEF Spec

-----------------------------------------------------------------------------
(* No completion is stranded and no wake-up is lost                        *)

(* The handler is working on a completion it has unregistered.             *)
Serving == isr_pc \in {"push", "dec_sess", "dec_total", "wake_quota", "wake_comp"}

(* A thread inside the driver works on a session.                          *)
InSession == \A t \in Threads : pc[t] # "idle" => t_sess[t] \in Sessions

(* What a thread does inside the driver is invisible to the handler and    *)
(* the device, and moves no other thread unless it wakes the submitters.   *)
LEMMA ThreadStep ==
  ASSUME TypeOK, NEW u \in Threads, UserCall(u) \/ KernelStep(u) \/ Disturbance(u)
  PROVE  /\ UNCHANGED <<devVars, isrVars>>
         /\ ReleaseWake(u) \/ \A t \in Threads \ {u} : pc'[t] = pc[t] /\ t_sess'[t] = t_sess[t]
         /\ pc'[u] = "asleep" => WaitQuota(u)
         /\ pc'[u] = "polling" => PollSleep(u)
         /\ pc[u] = "rel_wake" => ReleaseWake(u)
         /\ \/ pc'[u] = "idle" \/ t_sess'[u] \in Sessions
            \/ pc[u] # "idle" /\ t_sess'[u] = t_sess[u]
         /\ UNCHANGED comp_ring \/ ReadOne(u) \/ ReadFault(u)
         /\ \/ UNCHANGED <<active_sessions, inflight, total_inflight>>
            \/ IncSession(u) \/ IncTotal(u) \/ \E s \in Sessions : Open(u, s) \/ Release(u, s)
<1> pc \in [Threads -> PcValues] /\ t_sess \in [Threads -> Sessions \cup {NoSession}]
  BY Zenon DEF TypeOK
<1> USE DEF Goto, Return, Enter, callVars, compVars, countVars, sessVars
<1>1. CASE UserCall(u)
  <2>1. CASE \E s \in Sessions : Open(u, s) \/ Release(u, s)
    BY <2>1, ZenonT(30) DEF Open, Release
  <2>2. CASE \E s \in Sessions : AllocCmdId(u, s) \/ ReadBegin(u, s) \/ Poll(u, s)
    BY <2>2, ZenonT(30) DEF AllocCmdId, ReadBegin, Poll
  <2> QED
    BY <1>1, <2>1, <2>2, Zenon DEF UserCall
<1>2. CASE ReadQuota(u) \/ Admit(u) \/ Refuse(u) \/ WaitQuota(u)
  BY <1>2, Zenon DEF ReadQuota, Admit, Refuse, WaitQuota
<1>3. CASE IncSession(u) \/ IncTotal(u)
  BY <1>3, Zenon DEF IncSession, IncTotal
<1>4. CASE PickSlot(u) \/ WriteOperands(u) \/ WriteCmdId(u) \/ LoadSqTail(u) \/ StoreSqTail(u)
  BY <1>4, Zenon DEF PickSlot, WriteOperands, WriteCmdId, LoadSqTail, StoreSqTail
<1>5. CASE Doorbell(u) \/ ReadRaced(u) \/ PollReady(u)
  BY <1>5, Zenon DEF Doorbell, ReadRaced, PollReady
<1>6. CASE ReadOne(u) \/ ReleaseFree(u)
  BY <1>6, ZenonT(30) DEF ReadOne, ReleaseFree
<1>7. CASE PollSleep(u)
  BY <1>7, Zenon DEF PollSleep
<1>8. CASE ReleaseWake(u)
  BY <1>8, Zenon DEF ReleaseWake, QuotaWoken
<1>9. CASE Disturbance(u)
  BY <1>9, Zenon DEF Disturbance, Interrupted, PollTimeout, ReadFault
<1> QED
  BY <1>1, <1>2, <1>3, <1>4, <1>5, <1>6, <1>7, <1>8, <1>9, Zenon DEF KernelStep

(* The handler consumes CQ no further than the tail it has read, and the   *)
(* device only moves that tail forward.                                    *)
CqRange ==
  /\ cq_head <= reg_cq_tail
  /\ isr_pc = "loop" \/ Serving => cq_head <= isr_tail /\ isr_tail <= reg_cq_tail
  /\ Serving => cq_head < isr_tail

(* No step takes the handler past the tail that it has read.               *)
LEMMA CqRangeStep == ASSUME TypeOK, CqRange, [Next]_vars PROVE CqRange'
<1> /\ cq_head \in Nat /\ isr_tail \in Nat /\ reg_cq_tail \in Nat
    /\ isr_pc \in IsrPcValues
  BY Zenon DEF TypeOK
<1>1. CASE UNCHANGED <<isr_pc, isr_tail, cq_head>> /\ reg_cq_tail' \in {reg_cq_tail, reg_cq_tail + 1}
  BY <1>1 DEF CqRange, Serving
<1>2. CASE IsrEnter \/ IsrAck \/ IsrReadTail
  BY <1>2 DEF IsrEnter, IsrAck, IsrReadTail, IsrGoto, CqRange, Serving, devVars
<1>3. CASE IsrRoute \/ IsrDropUnknown
  BY <1>3 DEF IsrRoute, IsrDropUnknown, IsrGoto, CqRange, Serving, devVars
<1>4. CASE IsrPush \/ IsrDecSession \/ IsrDecTotal \/ IsrWakeQuota
  BY <1>4, Zenon DEF IsrPush, IsrDecSession, IsrDecTotal, IsrWakeQuota, IsrGoto, CqRange, Serving,
                    devVars
<1>5. CASE IsrWakeComp \/ IsrExit
  BY <1>5 DEF IsrWakeComp, IsrExit, IsrGoto, CqRange, Serving, devVars
<1>6. CASE DeviceStep
  BY <1>1, <1>6, Zenon DEF DeviceStep, Dispatch, Complete, isrVars
<1>7. CASE \E u \in Threads : UserCall(u) \/ KernelStep(u) \/ Disturbance(u)
  BY <1>1, <1>7, ThreadStep, Zenon DEF devVars, isrVars
<1>8. CASE UNCHANGED vars
  BY <1>1, <1>8, Zenon DEF vars, devVars, isrVars
<1> QED
  BY <1>2, <1>3, <1>4, <1>5, <1>6, <1>7, <1>8, Zenon DEF Next, IsrStep

(* An entry that arrives raises the interrupt; the handler clears          *)
(* IRQ_STATUS before it reads CQ_TAIL, and leaves its loop only at the     *)
(* tail it read.                                                           *)
LEMMA StrandedStep ==
  ASSUME TypeOK, CqRange, NoStrandedCompletion, [Next]_vars PROVE NoStrandedCompletion'
<1> /\ cq_head \in Nat /\ isr_tail \in Nat /\ reg_cq_tail \in Nat
  BY Zenon DEF TypeOK
<1>1. CASE IsrEnter \/ IsrAck
  BY <1>1, Zenon DEF IsrEnter, IsrAck, IsrGoto, NoStrandedCompletion
<1>2. CASE IsrReadTail
  BY <1>2, Zenon DEF IsrReadTail, IsrGoto, NoStrandedCompletion, devVars
<1>3. CASE IsrDropUnknown \/ IsrWakeComp
  <2>1. /\ cq_head < isr_tail /\ isr_tail <= reg_cq_tail
    BY <1>3 DEF IsrDropUnknown, IsrWakeComp, IsrGoto, CqRange, Serving
  <2>2. cq_head # reg_cq_tail
    BY <2>1
  <2>3. isr_pc' = "loop" /\ isr_pc \in {"loop", "wake_comp"} /\ UNCHANGED <<isr_tail, devVars>>
    BY <1>3, Zenon DEF IsrDropUnknown, IsrWakeComp, IsrGoto
  <2> QED
    BY <2>2, <2>3, Zenon DEF NoStrandedCompletion, devVars
<1>4. CASE IsrExit
  BY <1>4, Zenon DEF IsrExit, IsrGoto, NoStrandedCompletion, devVars
<1>5. CASE IsrRoute \/ IsrPush \/ IsrDecSession \/ IsrDecTotal \/ IsrWakeQuota
  <2>1. /\ isr_pc' # "idle" /\ isr_pc \notin {"idle", "ack", "tail"}
        /\ UNCHANGED <<isr_tail, cq_head, devVars>>
    BY <1>5, Zenon DEF IsrRoute, IsrPush, IsrDecSession, IsrDecTotal, IsrWakeQuota, IsrGoto
  <2> QED
    BY <2>1, Zenon DEF NoStrandedCompletion, devVars
<1>6. CASE DeviceStep
  BY <1>6, Zenon DEF DeviceStep, Dispatch, Complete, isrVars, NoStrandedCompletion
<1>7. CASE \E u \in Threads : UserCall(u) \/ KernelStep(u) \/ Disturbance(u)
  <2>1. UNCHANGED <<devVars, isrVars>>
    BY <1>7, ThreadStep, Zenon
  <2> QED
    BY <2>1, Zenon DEF devVars, isrVars, NoStrandedCompletion
<1>8. CASE UNCHANGED vars
  BY <1>8, Zenon DEF vars, devVars, isrVars, NoStrandedCompletion
<1> QED
  BY <1>1, <1>2, <1>3, <1>4, <1>5, <1>6, <1>7, <1>8, Zenon DEF Next, IsrStep

(* However the device, the handler and the threads interleave, a           *)
(* completion in CQ is covered by an interrupt still to be taken or by the *)
(* handler's own loop: none waits for an interrupt that never comes.       *)
THEOREM NothingStranded == Spec => []NoStrandedCompletion
<1>1. Init => CqRange /\ NoStrandedCompletion
  BY DEF Init, CqRange, Serving, NoStrandedCompletion
<1>2. TypeOK /\ CqRange /\ NoStrandedCompletion /\ [Next]_vars
        => CqRange' /\ NoStrandedCompletion'
  BY CqRangeStep, StrandedStep, Zenon
<1> QED
  BY <1>1, <1>2, TypeCorrect, PTL DEF Spec

(* A call enters the driver with a session and keeps it.                   *)
LEMMA InSessionStep == ASSUME TypeOK, InSession, [Next]_vars PROVE InSession'
<1> pc \in [Threads -> PcValues] /\ t_sess \in [Threads -> Sessions \cup {NoSession}]
  BY Zenon DEF TypeOK
<1>1. ASSUME NEW u \in Threads, UserCall(u) \/ KernelStep(u) \/ Disturbance(u), ~ ReleaseWake(u)
      PROVE  InSession'
  BY <1>1, ThreadStep, Zenon DEF InSession
<1>2. ASSUME NEW u \in Threads, ReleaseWake(u) PROVE InSession'
  BY <1>2, Zenon DEF ReleaseWake, QuotaWoken, InSession, callVars
<1>3. CASE IsrWakeQuota \/ IsrWakeComp
  BY <1>3, Zenon DEF IsrWakeQuota, IsrWakeComp, QuotaWoken, InSession, callVars
<1>4. CASE UNCHANGED <<pc, callVars>>
  BY <1>4, Zenon DEF InSession, callVars
<1>5. DeviceStep \/ UNCHANGED vars => UNCHANGED <<pc, callVars>>
  BY Zenon DEF DeviceStep, Dispatch, Complete, vars
<1>6. IsrStep => IsrWakeQuota \/ IsrWakeComp \/ UNCHANGED <<pc, callVars>>
  BY Zenon DEF IsrStep, IsrEnter, IsrAck, IsrReadTail, IsrRoute, IsrDropUnknown, IsrPush,
               IsrDecSession, IsrDecTotal, IsrExit
<1> QED
  BY <1>1, <1>2, <1>3, <1>4, <1>5, <1>6, Zenon DEF Next

(* poll() tests the ring after it has joined comp_wq, and the handler      *)
(* wakes comp_wq after it has filled the ring.                             *)
LEMMA PollWakeupStep ==
  ASSUME TypeOK, InSession, NoLostPollWakeup, [Next]_vars PROVE NoLostPollWakeup'
<1> DEFINE Awake == {"dec_sess", "dec_total", "wake_quota", "wake_comp"}
<1> /\ pc \in [Threads -> PcValues] /\ t_sess \in [Threads -> Sessions \cup {NoSession}]
    /\ comp_ring \in [Sessions -> Seq(CmdOrNone)]
  BY Zenon DEF TypeOK
<1>1. ASSUME (isr_pc \in Awake => isr_pc' \in Awake /\ isr_owner' = isr_owner),
             \A t \in Threads : pc'[t] = "polling" /\ comp_ring'[t_sess'[t]] # <<>> =>
               /\ pc[t] = "polling" /\ t_sess'[t] = t_sess[t] /\ comp_ring[t_sess[t]] # <<>>
      PROVE  NoLostPollWakeup'
  BY <1>1, Zenon DEF NoLostPollWakeup
<1>2. ASSUME NEW u \in Threads, UserCall(u) \/ KernelStep(u) \/ Disturbance(u)
      PROVE  NoLostPollWakeup'
  <2>1. UNCHANGED <<isr_pc, isr_owner>>
    BY <1>2, ThreadStep, Zenon DEF isrVars
  <2>2. ASSUME NEW s \in Sessions, comp_ring'[s] # <<>> PROVE comp_ring[s] # <<>>
    <3>1. CASE ReadOne(u) \/ ReadFault(u)
      BY <2>2, <3>1, Zenon DEF ReadOne, ReadFault
    <3> QED
      BY <1>2, <2>2, <3>1, ThreadStep, Zenon
  <2>3. ASSUME NEW t \in Threads, pc'[t] = "polling", comp_ring'[t_sess'[t]] # <<>>
        PROVE  pc[t] = "polling" /\ t_sess'[t] = t_sess[t]
    <3>1. ~ PollSleep(u) \/ t # u
      BY <2>3, Zenon DEF PollSleep, compVars, callVars
    <3>2. ~ ReleaseWake(u) \/ (pc[t] = "polling" /\ t_sess'[t] = t_sess[t])
      BY <2>3, Zenon DEF ReleaseWake, QuotaWoken, callVars
    <3> QED
      BY <1>2, <2>3, <3>1, <3>2, ThreadStep, Zenon
  <2> QED
    BY <1>1, <2>1, <2>2, <2>3, Zenon DEF InSession
<1>3. CASE IsrPush
  <2>1. isr_pc = "push" /\ isr_pc' = "dec_sess" /\ UNCHANGED <<pc, t_sess, isr_owner>>
    BY <1>3, Zenon DEF IsrPush, IsrGoto, callVars
  <2>2. \A s \in Sessions : s # isr_owner => comp_ring'[s] = comp_ring[s]
    BY <1>3, Zenon DEF IsrPush
  <2> QED
    BY <2>1, <2>2, Zenon DEF NoLostPollWakeup, InSession
<1>4. CASE IsrWakeComp
  <2>1. /\ UNCHANGED <<t_sess, comp_ring>>
        /\ \A t \in Threads : pc'[t] = "polling" => pc[t] = "polling" /\ t_sess[t] # isr_owner
    BY <1>4, Zenon DEF IsrWakeComp, callVars, compVars
  <2> QED
    BY <2>1, Zenon DEF NoLostPollWakeup
<1>5. CASE IsrRoute
  <2>1. isr_pc = "loop" /\ UNCHANGED <<pc, t_sess, comp_ring>>
    BY <1>5, Zenon DEF IsrRoute, IsrGoto, callVars, compVars
  <2> QED
    BY <2>1, Zenon DEF NoLostPollWakeup
<1>6. CASE IsrWakeQuota
  BY <1>1, <1>6, Zenon DEF IsrWakeQuota, IsrGoto, QuotaWoken, callVars, compVars
<1>7. CASE /\ UNCHANGED <<pc, t_sess, comp_ring>>
           /\ isr_pc \in Awake => isr_pc' \in Awake /\ isr_owner' = isr_owner
  BY <1>1, <1>7, Zenon
<1>8. CASE IsrEnter \/ IsrAck \/ IsrReadTail \/ IsrDropUnknown \/ IsrExit
  BY <1>7, <1>8, Zenon DEF IsrEnter, IsrAck, IsrReadTail, IsrDropUnknown, IsrExit, IsrGoto,
     callVars, compVars
<1>9. CASE IsrDecSession \/ IsrDecTotal
  BY <1>7, <1>9, Zenon DEF IsrDecSession, IsrDecTotal, IsrGoto, callVars, compVars
<1>10. CASE DeviceStep
  <2>1. UNCHANGED <<pc, callVars, compVars, isrVars>>
    BY <1>10, Zenon DEF DeviceStep, Dispatch, Complete
  <2> QED
    BY <1>7, <2>1, Zenon DEF isrVars, callVars, compVars
<1>11. CASE UNCHANGED vars
  BY <1>7, <1>11, Zenon DEF vars, isrVars, callVars, compVars
<1> QED
  BY ZenonT(30), <1>2, <1>3, <1>4, <1>5, <1>6, <1>8, <1>9, <1>10, <1>11 DEF Next, IsrStep

(* A thread in poll() never sleeps on past a completion it could read:     *)
(* while its session's comp_ring holds one, the handler is between filling *)
(* that ring and waking its comp_wq.                                       *)
THEOREM PollersWoken == Spec => []NoLostPollWakeup
<1>1. Init => InSession /\ NoLostPollWakeup
  BY DEF Init, InSession, NoLostPollWakeup
<1>2. TypeOK /\ InSession /\ NoLostPollWakeup /\ [Next]_vars => InSession' /\ NoLostPollWakeup'
  BY InSessionStep, PollWakeupStep, Zenon
<1> QED
  BY <1>1, <1>2, TypeCorrect, PTL DEF Spec

(* More sessions never make the quota larger.                              *)
LEMMA QuotaShrinks == ASSUME NEW n \in Int PROVE Quota(n + 1) <= Quota(n)
<1> USE CmdPathAssumption
<1>1. CASE n < 1
  BY <1>1 DEF Quota
<1>2. CASE n >= 1
  <2> DEFINE a == (QueueDepth + n - 1) \div n
             b == (QueueDepth + (n + 1) - 1) \div (n + 1)
  <2>1. Quota(n) = a /\ Quota(n + 1) = b /\ n \in Nat \ {0}
    BY <1>2 DEF Quota
  <2>2. a \in Nat /\ b \in Nat /\ QueueDepth + n - 1 < (a + 1) * n /\ b * (n + 1) <= QueueDepth + n
    BY <2>1
  <2> HIDE DEF a, b
  <2>3. ASSUME b >= a + 1 PROVE FALSE
    <3>1. (a + 1) * (n + 1) <= b * (n + 1)
      BY <2>1, <2>2, <2>3
    <3>2. (a + 1) * (n + 1) = (a + 1) * n + a + 1
      BY <2>1, <2>2
    <3> QED
      BY <2>1, <2>2, <3>1, <3>2
  <2> QED
    BY <2>1, <2>2, <2>3
<1> QED
  BY <1>1, <1>2

(* A submitter falls asleep only when the condition is false; what makes   *)
(* it true again is the handler's decrements, followed by its wake-up, or  *)
(* a release(), followed by the same.                                      *)
LEMMA QuotaWakeupStep ==
  ASSUME TypeOK, InSession, NoLostQuotaWakeup, [Next]_vars PROVE NoLostQuotaWakeup'
<1> DEFINE Soon == {"dec_total", "wake_quota"}
<1> /\ pc \in [Threads -> PcValues] /\ t_sess \in [Threads -> Sessions \cup {NoSession}]
    /\ inflight \in [Sessions -> Int] /\ total_inflight \in Int /\ active_sessions \in Int
  BY Zenon DEF TypeOK
(* Nothing a sleeper waits for changes, and nobody bound to wake it goes.  *)
<1>1. ASSUME isr_pc \in Soon => isr_pc' \in Soon,
             \A u \in Threads : pc[u] = "rel_wake" => pc'[u] = "rel_wake",
             \A t \in Threads : pc'[t] = "asleep" =>
               /\ pc[t] = "asleep" /\ t_sess'[t] = t_sess[t]
               /\ AdmissionLikelyOk(t_sess[t])' => AdmissionLikelyOk(t_sess[t])
      PROVE  NoLostQuotaWakeup'
  BY <1>1, Zenon DEF NoLostQuotaWakeup
<1>2. ASSUME UNCHANGED <<active_sessions, inflight, total_inflight>>,
             NEW t \in Threads, t_sess'[t] = t_sess[t]
      PROVE  AdmissionLikelyOk(t_sess[t])' => AdmissionLikelyOk(t_sess[t])
  BY <1>2, Zenon DEF AdmissionLikelyOk
<1>3. ASSUME NEW u \in Threads, NEW s \in Sessions, Open(u, s) PROVE NoLostQuotaWakeup'
  <2>1. /\ UNCHANGED <<pc, t_sess, isr_pc, inflight, total_inflight>>
        /\ active_sessions' = active_sessions + 1
    BY <1>3, Zenon DEF Open, callVars, isrVars, countVars
  <2>2. Quota(active_sessions') <= Quota(active_sessions)
    BY <2>1, QuotaShrinks, Zenon
  <2>3. Quota(active_sessions) \in Nat /\ Quota(active_sessions') \in Nat
    BY <2>1, QuotaType
  <2>4. ASSUME NEW t \in Threads, pc[t] = "asleep"
        PROVE  AdmissionLikelyOk(t_sess[t])' => AdmissionLikelyOk(t_sess[t])
    <3>1. inflight[t_sess[t]] \in Int
      BY <2>4, Zenon DEF InSession
    <3> QED
      BY <2>1, <2>2, <2>3, <3>1 DEF AdmissionLikelyOk
  <2> QED
    BY <1>1, <2>1, <2>4, Zenon
<1>4. ASSUME NEW u \in Threads, NEW s \in Sessions, Release(u, s) PROVE NoLostQuotaWakeup'
  BY <1>4, Zenon DEF Release, Enter, Goto, NoLostQuotaWakeup
<1>5. ASSUME NEW u \in Threads, ReleaseWake(u) PROVE NoLostQuotaWakeup'
  <2>1. \A t \in Threads : pc'[t] # "asleep"
    BY <1>5, Zenon DEF ReleaseWake, QuotaWoken
  <2> QED
    BY <2>1, Zenon DEF NoLostQuotaWakeup
<1>6. ASSUME NEW u \in Threads, WaitQuota(u) PROVE NoLostQuotaWakeup'
  <2>1. /\ UNCHANGED <<t_sess, isr_pc, active_sessions, inflight, total_inflight>>
        /\ pc[u] = "wait" /\ \A t \in Threads \ {u} : pc'[t] = pc[t]
        /\ pc'[u] = "asleep" => ~ AdmissionLikelyOk(t_sess[u])
    BY <1>6, Zenon DEF WaitQuota, callVars, isrVars, countVars, sessVars
  <2>2. \A t \in Threads : AdmissionLikelyOk(t_sess[t])' => AdmissionLikelyOk(t_sess[t])
    BY <1>2, <2>1, Zenon
  <2> QED
    BY <2>1, <2>2, Zenon DEF NoLostQuotaWakeup
<1>7. ASSUME NEW u \in Threads, IncSession(u) \/ IncTotal(u) PROVE NoLostQuotaWakeup'
  <2>1. /\ UNCHANGED <<t_sess, isr_pc, active_sessions>>
        /\ pc[u] \in {"inc_sess", "inc_total"} /\ pc'[u] \in {"inc_total", "index"}
        /\ \A t \in Threads \ {u} : pc'[t] = pc[t]
    BY <1>7, Zenon DEF IncSession, IncTotal, Goto, callVars, isrVars, sessVars
  <2>2. /\ total_inflight <= total_inflight'
        /\ \A s \in Sessions : inflight[s] <= inflight'[s]
    BY <1>7 DEF IncSession, IncTotal
  <2>3. total_inflight' \in Int /\ inflight' \in [Sessions -> Int]
    BY <1>7, CountType DEF IncSession, IncTotal
  <2>4. ASSUME NEW t \in Threads, pc[t] = "asleep"
        PROVE  AdmissionLikelyOk(t_sess[t])' => AdmissionLikelyOk(t_sess[t])
    <3>1. PICK s \in Sessions : s = t_sess[t]
      BY <2>4, Zenon DEF InSession
    <3>2. Quota(active_sessions) \in Nat /\ t_sess'[t] = s /\ active_sessions' = active_sessions
      BY <2>1, <3>1, QuotaType, Zenon
    <3> QED
      BY <2>2, <2>3, <3>1, <3>2, CmdPathAssumption DEF AdmissionLikelyOk
  <2> QED
    BY <1>1, <2>1, <2>4, Zenon
<1>8. ASSUME NEW u \in Threads, UserCall(u) \/ KernelStep(u) \/ Disturbance(u),
             \A s \in Sessions : ~ Open(u, s) /\ ~ Release(u, s),
             ~ ReleaseWake(u), ~ WaitQuota(u), ~ IncSession(u), ~ IncTotal(u)
      PROVE  NoLostQuotaWakeup'
  BY <1>1, <1>2, <1>8, ThreadStep, Zenon DEF isrVars
<1>9. CASE IsrDecSession \/ IsrDecTotal
  BY <1>9, Zenon DEF IsrDecSession, IsrDecTotal, IsrGoto, NoLostQuotaWakeup
<1>10. CASE IsrWakeQuota
  <2>1. \A t \in Threads : pc'[t] # "asleep"
    BY <1>10, Zenon DEF IsrWakeQuota, QuotaWoken
  <2> QED
    BY <2>1, Zenon DEF NoLostQuotaWakeup
<1>11. ASSUME UNCHANGED <<active_sessions, inflight, total_inflight, t_sess>>,
              isr_pc \notin Soon \/ isr_pc' \in Soon,
              UNCHANGED pc \/ IsrWakeComp
       PROVE  NoLostQuotaWakeup'
  <2>1. \A t \in Threads : /\ pc'[t] = "asleep" => pc[t] = "asleep"
                           /\ pc[t] = "rel_wake" => pc'[t] = "rel_wake"
    BY <1>11, Zenon DEF IsrWakeComp
  <2> QED
    BY <1>1, <1>2, <1>11, <2>1, Zenon
<1>12. CASE DeviceStep \/ UNCHANGED vars
  BY <1>11, <1>12, Zenon DEF DeviceStep, Dispatch, Complete, vars, sessVars, countVars, callVars,
     isrVars
<1>13. CASE IsrEnter \/ IsrAck \/ IsrReadTail \/ IsrRoute \/ IsrDropUnknown
  BY <1>11, <1>13, Zenon DEF IsrEnter, IsrAck, IsrReadTail, IsrRoute, IsrDropUnknown, IsrGoto, sessVars,
                      countVars, callVars
<1>14. CASE IsrPush \/ IsrWakeComp \/ IsrExit
  BY <1>11, <1>14, Zenon DEF IsrPush, IsrWakeComp, IsrExit, IsrGoto, sessVars, countVars, callVars
<1>15. ASSUME NEW u \in Threads, UserCall(u) \/ KernelStep(u) \/ Disturbance(u)
       PROVE  NoLostQuotaWakeup'
  BY <1>3, <1>4, <1>5, <1>6, <1>7, <1>8, <1>15, Zenon
<1> HIDE DEF Soon
<1> QED
  BY <1>9, <1>10, <1>12, <1>13, <1>14, <1>15, Zenon DEF Next, IsrStep

(* A submitter never sleeps on past the room it waits for: while there is  *)
(* room under both caps, the handler or a release() is on its way to wake  *)
(* it.                                                                     *)
THEOREM SubmittersWoken == Spec => []NoLostQuotaWakeup
<1>1. Init => InSession /\ NoLostQuotaWakeup
  BY DEF Init, InSession, NoLostQuotaWakeup
<1>2. TypeOK /\ InSession /\ NoLostQuotaWakeup /\ [Next]_vars => InSession' /\ NoLostQuotaWakeup'
  BY InSessionStep, QuotaWakeupStep, Zenon
<1> QED
  BY <1>1, <1>2, TypeCorrect, PTL DEF Spec

-----------------------------------------------------------------------------
(* A submitter that has drawn its cmd_id and not yet registered it.        *)
Holding(t) == pc[t] \in {"quota", "admit", "wait", "asleep"}

(* A cmd_id the routing machinery has never seen.                          *)
Fresh(c) ==
  /\ cmd_table[c] = NoSession
  /\ isr_comp # c
  /\ \A s \in Sessions : c \notin Delivered(s)

(* A cmd_id is fresh until its holder registers it, it is held by one      *)
(* thread at most, a registered one belongs to its issuer, and the one the *)
(* handler serves has left cmd_table and is not yet delivered.             *)
RouteInv ==
  /\ \A c \in Cmds : c > next_cmd_id => Fresh(c)
  /\ \A t \in Threads : Holding(t) =>
       /\ t_cmd[t] \in Cmds /\ t_cmd[t] <= next_cmd_id
       /\ t_sess[t] \in Sessions /\ issued_by[t_cmd[t]] = t_sess[t]
       /\ Fresh(t_cmd[t])
  /\ \A t, u \in Threads : Holding(t) /\ Holding(u) /\ t_cmd[t] = t_cmd[u] => t = u
  /\ \A c \in Cmds : cmd_table[c] # NoSession => issued_by[c] = cmd_table[c]
  /\ Serving => /\ isr_comp \in Cmds /\ cmd_table[isr_comp] = NoSession
                /\ isr_owner \in Sessions /\ issued_by[isr_comp] = isr_owner
  /\ isr_pc = "push" => \A s \in Sessions : isr_comp \notin Delivered(s)
  /\ \A s \in Sessions : Delivered(s) \subseteq Cmds
  /\ CompletionOwnership
  /\ DeliveredOnce

(* What a push does to the entries of a ring without duplicates.           *)
LEMMA PushEntries ==
  ASSUME NEW old \in Seq(CmdOrNone), NEW c \in CmdOrNone,
         \A i, j \in DOMAIN old : old[i] = old[j] => i = j,
         \A i \in DOMAIN old : old[i] # c
  PROVE  LET kept == IF Len(old) >= CompRingSize THEN Tail(old) ELSE old
             new == Append(kept, c)
         IN /\ \A i, j \in DOMAIN new : new[i] = new[j] => i = j
            /\ \A i \in DOMAIN new : new[i] = c \/ \E j \in DOMAIN old : new[i] = old[j]
<1> DEFINE kept == IF Len(old) >= CompRingSize THEN Tail(old) ELSE old
           new == Append(kept, c)
<1>1. /\ kept \in Seq(CmdOrNone)
      /\ \A i, j \in DOMAIN kept : kept[i] = kept[j] => i = j
      /\ \A i \in DOMAIN kept : \E j \in DOMAIN old : kept[i] = old[j]
  <2>1. CASE Len(old) >= CompRingSize
    <3>1. old # <<>>
      BY <2>1, CmdPathAssumption
    <3>2. /\ Tail(old) \in Seq(CmdOrNone) /\ Len(Tail(old)) = Len(old) - 1
          /\ \A i \in 1..Len(old) - 1 : Tail(old)[i] = old[i + 1]
      BY <3>1
    <3>3. kept = Tail(old)
      BY <2>1, Zenon
    <3> HIDE DEF kept
    <3> QED
      BY <3>2, <3>3
  <2>2. CASE ~ (Len(old) >= CompRingSize)
    BY <2>2, Zenon
  <2> QED
    BY <2>1, <2>2, Zenon
<1>2. /\ new \in Seq(CmdOrNone) /\ Len(new) = Len(kept) + 1
      /\ new[Len(kept) + 1] = c
      /\ \A i \in 1..Len(kept) : new[i] = kept[i]
  BY <1>1
<1>3. \A i \in DOMAIN kept : kept[i] # c
  BY <1>1, Zenon
<1> HIDE DEF kept, new
<1>4. DOMAIN new = 1..Len(kept) + 1 /\ DOMAIN kept = 1..Len(kept) /\ Len(kept) \in Nat
  BY <1>1, <1>2
<1>5. \A i \in DOMAIN new : i \in DOMAIN kept \/ i = Len(kept) + 1
  BY <1>4
<1>6. \A i, j \in DOMAIN new : new[i] = new[j] => i = j
  BY <1>1, <1>2, <1>3, <1>4, <1>5, Zenon
<1>7. \A i \in DOMAIN new : new[i] = c \/ \E j \in DOMAIN old : new[i] = old[j]
  BY <1>1, <1>2, <1>4, <1>5
<1> QED
  BY <1>6, <1>7, Zenon DEF kept, new

(* What a pop does to the entries of a ring without duplicates.            *)
LEMMA PopEntries ==
  ASSUME NEW old \in Seq(CmdOrNone), old # <<>>,
         \A i, j \in DOMAIN old : old[i] = old[j] => i = j
  PROVE  /\ \A i, j \in DOMAIN Tail(old) : Tail(old)[i] = Tail(old)[j] => i = j
         /\ \A i \in DOMAIN Tail(old) : \E j \in DOMAIN old : Tail(old)[i] = old[j]
         /\ \A i \in DOMAIN Tail(old) : Tail(old)[i] # Head(old)
         /\ \E j \in DOMAIN old : Head(old) = old[j]
<1>1. /\ Tail(old) \in Seq(CmdOrNone) /\ Len(Tail(old)) = Len(old) - 1
      /\ \A i \in 1..Len(old) - 1 : Tail(old)[i] = old[i + 1]
      /\ Head(old) = old[1] /\ Len(old) \in Nat \ {0}
  OBVIOUS
<1>2. DOMAIN Tail(old) = 1..Len(old) - 1 /\ DOMAIN old = 1..Len(old)
  BY <1>1
<1> QED
  BY <1>1, <1>2

(* A step that leaves the routing state alone, lets no thread begin to     *)
(* hold and no completion begin to be served.                              *)
LEMMA RouteFrame ==
  ASSUME RouteInv,
         UNCHANGED <<comp_ring, reaped, cmd_table, issued_by, next_cmd_id, isr_comp, isr_owner>>,
         \A u \in Threads : Holding(u)' =>
            Holding(u) /\ t_cmd'[u] = t_cmd[u] /\ t_sess'[u] = t_sess[u],
         Serving' => Serving,
         isr_pc' = "push" => isr_pc = "push"
  PROVE  RouteInv'
<1>1. \A c : Fresh(c)' <=> Fresh(c)
  BY Zenon DEF Fresh, Delivered
<1>2. \A s : Delivered(s)' = Delivered(s)
  BY Zenon DEF Delivered
<1>3. CompletionOwnership' /\ DeliveredOnce'
  BY <1>2, Zenon DEF RouteInv, CompletionOwnership, DeliveredOnce
<1> QED
  BY <1>1, <1>2, <1>3, Zenon DEF RouteInv

(* A new cmd_id is fresh and nobody else's.                                *)
LEMMA AllocRoute ==
  ASSUME TypeOK, RouteInv, NEW t \in Threads, NEW s \in Sessions, AllocCmdId(t, s)
  PROVE  RouteInv'
<1> DEFINE n == next_cmd_id + 1
<1>1. /\ n \in Cmds /\ n > next_cmd_id /\ next_cmd_id \in Int /\ next_cmd_id' = n
      /\ t_cmd' = [t_cmd EXCEPT ![t] = n] /\ t_sess' = [t_sess EXCEPT ![t] = s]
      /\ issued_by' = [issued_by EXCEPT ![n] = s]
      /\ pc' = [pc EXCEPT ![t] = "quota"] /\ ~ Holding(t)
      /\ UNCHANGED <<cmd_table, comp_ring, reaped, isr_comp, isr_owner, isr_pc>>
  <2>1. next_cmd_id \in 1..MaxCmds + 1 /\ next_cmd_id <= MaxCmds
    BY Zenon DEF TypeOK, AllocCmdId
  <2>2. n \in Cmds /\ n > next_cmd_id /\ next_cmd_id \in Int
    BY <2>1, CmdPathAssumption DEF Cmds
  <2> QED
    BY <2>2, Zenon DEF AllocCmdId, Enter, Goto, Holding, compVars, isrVars
<1> HIDE DEF n
<1>2. (\A c : Fresh(c)' <=> Fresh(c)) /\ (\A u : Delivered(u)' = Delivered(u)) /\ Fresh(n)
  BY <1>1 DEF Fresh, Delivered, RouteInv
<1>3. \A c \in Cmds : c # n => issued_by'[c] = issued_by[c]
  BY <1>1, Zenon DEF TypeOK
<1>4. \A u \in Threads \ {t} : /\ Holding(u)' <=> Holding(u)
                              /\ t_cmd'[u] = t_cmd[u] /\ t_sess'[u] = t_sess[u]
  BY <1>1, Zenon DEF TypeOK, Holding
<1>5. t_cmd'[t] = n /\ t_sess'[t] = s /\ issued_by'[n] = s
  BY <1>1, Zenon DEF TypeOK
<1>6. \A c \in Cmds : c > n => c > next_cmd_id
  BY <1>1 DEF Cmds
<1>7. \A u \in Threads \ {t} : Holding(u) => t_cmd[u] \in Cmds /\ t_cmd[u] # n /\ t_cmd[u] <= n
  BY <1>1 DEF RouteInv, Cmds
<1>8. \A c \in Cmds : c > next_cmd_id' => Fresh(c)'
  BY <1>1, <1>2, <1>6, ZenonT(30) DEF RouteInv
<1>9. \A u \in Threads : Holding(u)' =>
        /\ t_cmd'[u] \in Cmds /\ t_cmd'[u] <= next_cmd_id'
        /\ t_sess'[u] \in Sessions /\ issued_by'[t_cmd'[u]] = t_sess'[u]
        /\ Fresh(t_cmd[u])'
  BY <1>1, <1>2, <1>3, <1>4, <1>5, <1>7 DEF RouteInv, Fresh, Cmds, Delivered
<1>10. \A u, v \in Threads : Holding(u)' /\ Holding(v)' /\ t_cmd'[u] = t_cmd'[v] => u = v
  BY <1>4, <1>5, <1>7, Zenon DEF RouteInv
<1>11. \A c \in Cmds : cmd_table'[c] # NoSession => issued_by'[c] = cmd_table'[c]
  BY <1>1, <1>2, <1>3, Zenon DEF RouteInv, Fresh
<1>12. /\ Serving' => /\ isr_comp' \in Cmds /\ cmd_table'[isr_comp'] = NoSession
                      /\ isr_owner' \in Sessions /\ issued_by'[isr_comp'] = isr_owner'
       /\ isr_pc' = "push" => \A u \in Sessions : isr_comp' \notin Delivered(u)'
       /\ \A u \in Sessions : Delivered(u)' \subseteq Cmds
  BY <1>1, <1>2, <1>3, ZenonT(30) DEF RouteInv, Serving, Fresh
<1>13. CompletionOwnership'
  <2>1. \A u \in Sessions : \A c \in Delivered(u) : c \in Cmds /\ c # n /\ issued_by[c] = u
    <3>1. CompletionOwnership /\ \A u \in Sessions : Delivered(u) \subseteq Cmds
      BY Zenon DEF RouteInv
    <3>2. \A u \in Sessions : n \notin Delivered(u)
      BY <1>2, Zenon DEF Fresh
    <3> QED
      BY <3>1, <3>2, Zenon DEF CompletionOwnership
  <2> QED
    BY <1>2, <1>3, <2>1, Zenon DEF CompletionOwnership
<1>14. DeliveredOnce'
  BY <1>1, <1>2, Zenon DEF RouteInv, DeliveredOnce
<1> QED
  BY <1>8, <1>9, <1>10, <1>11, <1>12, <1>13, <1>14, Zenon DEF RouteInv

(* Registering a held cmd_id ends its freshness, and no other's.           *)
LEMMA AdmitRoute ==
  ASSUME TypeOK, RouteInv, NEW t \in Threads, Admit(t) PROVE RouteInv'
<1> DEFINE n == t_cmd[t]
<1>1. /\ cmd_table' = [cmd_table EXCEPT ![n] = t_sess[t]]
      /\ pc' = [pc EXCEPT ![t] = "inc_sess"] /\ Holding(t)
      /\ UNCHANGED <<next_cmd_id, issued_by, comp_ring, reaped, t_cmd, t_sess,
                     isr_comp, isr_owner, isr_pc>>
  BY Zenon DEF Admit, Goto, Holding, compVars, callVars, isrVars
<1>2. /\ n \in Cmds /\ n <= next_cmd_id /\ next_cmd_id \in Int
      /\ t_sess[t] \in Sessions /\ issued_by[n] = t_sess[t] /\ Fresh(n)
  BY <1>1 DEF RouteInv, TypeOK
<1> HIDE DEF n
<1>3. \A c \in Cmds : c # n => cmd_table'[c] = cmd_table[c] /\ (Fresh(c)' <=> Fresh(c))
  BY <1>1 DEF TypeOK, Fresh, Delivered
<1>4. cmd_table'[n] = t_sess[t] /\ \A u : Delivered(u)' = Delivered(u)
  BY <1>1, <1>2, Zenon DEF TypeOK, Delivered
<1>5. \A u \in Threads : Holding(u)' => Holding(u) /\ u # t
  BY <1>1, Zenon DEF TypeOK, Holding
<1>6. \A u \in Threads : Holding(u)' => t_cmd[u] # n
  BY <1>1, <1>5, Zenon DEF RouteInv, n
<1>7. \A c \in Cmds : c > next_cmd_id' => Fresh(c)'
  BY <1>1, <1>2, <1>3 DEF RouteInv, Cmds
<1>8. \A u \in Threads : Holding(u)' =>
        /\ t_cmd'[u] \in Cmds /\ t_cmd'[u] <= next_cmd_id'
        /\ t_sess'[u] \in Sessions /\ issued_by'[t_cmd'[u]] = t_sess'[u]
        /\ Fresh(t_cmd[u])'
  BY <1>1, <1>3, <1>5, <1>6, Zenon DEF RouteInv, Fresh, Delivered
<1>9. \A u, v \in Threads : Holding(u)' /\ Holding(v)' /\ t_cmd'[u] = t_cmd'[v] => u = v
  BY <1>1, <1>5, Zenon DEF RouteInv
<1>10. \A c \in Cmds : cmd_table'[c] # NoSession => issued_by'[c] = cmd_table'[c]
  BY <1>1, <1>2, <1>3, <1>4, Zenon DEF RouteInv
<1>11. /\ Serving' => /\ isr_comp' \in Cmds /\ cmd_table'[isr_comp'] = NoSession
                      /\ isr_owner' \in Sessions /\ issued_by'[isr_comp'] = isr_owner'
       /\ isr_pc' = "push" => \A u \in Sessions : isr_comp' \notin Delivered(u)'
       /\ \A u \in Sessions : Delivered(u)' \subseteq Cmds
  BY <1>1, <1>2, <1>3, <1>4, Zenon DEF RouteInv, Serving, Fresh
<1>12. CompletionOwnership'
  BY <1>1, <1>4, Zenon DEF RouteInv, CompletionOwnership
<1>13. DeliveredOnce'
  <2>1. \A u \in Sessions : \A c \in Delivered(u) : c \in Cmds /\ c # n /\ cmd_table[c] = NoSession
    BY <1>2, Zenon DEF RouteInv, DeliveredOnce, Fresh
  <2>2. \A u \in Sessions : \A c \in Delivered(u)' : cmd_table'[c] = NoSession
    BY <1>3, <1>4, <2>1, Zenon
  <2> QED
    BY <1>1, <2>2, Zenon DEF RouteInv, DeliveredOnce
<1> QED
  BY <1>7, <1>8, <1>9, <1>10, <1>11, <1>12, <1>13, Zenon DEF RouteInv

(* The handler takes a registered command out of cmd_table.                *)
LEMMA RouteRoute == ASSUME TypeOK, RouteInv, IsrRoute PROVE RouteInv'
<1> DEFINE n == cq_buf[cq_head % QueueDepth]
<1>1. /\ n \in Cmds /\ cmd_table[n] # NoSession /\ isr_comp' = n /\ isr_owner' = cmd_table[n]
      /\ cmd_table' = [cmd_table EXCEPT ![n] = NoSession]
      /\ isr_pc = "loop" /\ isr_pc' = "push"
      /\ UNCHANGED <<next_cmd_id, issued_by, comp_ring, reaped, pc, t_cmd, t_sess>>
  BY Zenon DEF IsrRoute, IsrGoto, compVars, callVars
<1> HIDE DEF n
<1>2. /\ isr_owner' \in Sessions /\ issued_by[n] = isr_owner' /\ cmd_table'[n] = NoSession
      /\ \A c \in Cmds : c # n => cmd_table'[c] = cmd_table[c]
  BY <1>1, Zenon DEF TypeOK, RouteInv
<1>3. (\A u : Delivered(u)' = Delivered(u)) /\ (\A u : Holding(u)' <=> Holding(u))
  BY <1>1, Zenon DEF Delivered, Holding
<1>4. \A u \in Sessions : n \notin Delivered(u)
  BY <1>1, Zenon DEF RouteInv, DeliveredOnce
<1>5. \A c \in Cmds : Fresh(c) => Fresh(c)'
  BY <1>1, <1>2, <1>3, Zenon DEF Fresh
<1>6. /\ \A c \in Cmds : c > next_cmd_id' => Fresh(c)'
      /\ \A u \in Threads : Holding(u)' =>
           /\ t_cmd'[u] \in Cmds /\ t_cmd'[u] <= next_cmd_id'
           /\ t_sess'[u] \in Sessions /\ issued_by'[t_cmd'[u]] = t_sess'[u]
           /\ Fresh(t_cmd[u])'
  BY <1>1, <1>3, <1>5, Zenon DEF RouteInv, Fresh, Delivered
<1>7. \A c \in Cmds : cmd_table'[c] # NoSession => issued_by'[c] = cmd_table'[c]
  BY <1>1, <1>2, Zenon DEF RouteInv
<1>8. CompletionOwnership' /\ DeliveredOnce'
  <2>1. \A u \in Sessions : \A c \in Delivered(u) : c \in Cmds /\ cmd_table[c] = NoSession
    BY Zenon DEF RouteInv, DeliveredOnce
  <2>2. \A u \in Sessions : \A c \in Delivered(u)' : cmd_table'[c] = NoSession
    BY <1>2, <1>3, <2>1, Zenon
  <2>3. CompletionOwnership'
    BY <1>1, <1>3, Zenon DEF RouteInv, CompletionOwnership
  <2> QED
    BY <1>1, <2>2, <2>3, Zenon DEF RouteInv, DeliveredOnce
<1> QED
  BY <1>1, <1>2, <1>3, <1>4, <1>6, <1>7, <1>8, Zenon DEF RouteInv

(* The handler appends the completion it serves to its owner's ring.       *)
LEMMA PushRoute == ASSUME TypeOK, RouteInv, IsrPush PROVE RouteInv'
<1> DEFINE s == isr_owner
           n == isr_comp
           old == comp_ring[s]
           kept == IF Len(old) >= CompRingSize THEN Tail(old) ELSE old
           new == Append(kept, n)
<1>1. /\ isr_pc = "push" /\ isr_pc' = "dec_sess" /\ comp_ring' = [comp_ring EXCEPT ![s] = new]
      /\ UNCHANGED <<next_cmd_id, issued_by, cmd_table, reaped, pc, t_cmd, t_sess,
                     isr_comp, isr_owner>>
  BY Zenon DEF IsrPush, IsrGoto, routeVars, callVars
<1>2. /\ s \in Sessions /\ n \in Cmds /\ n \in CmdOrNone /\ old \in Seq(CmdOrNone)
      /\ cmd_table[n] = NoSession /\ issued_by[n] = s
      /\ \A u \in Sessions : n \notin Delivered(u)
  BY <1>1, ZenonT(30) DEF RouteInv, Serving, TypeOK, CmdOrNone
<1>3. /\ \A i, j \in DOMAIN old : old[i] = old[j] => i = j
      /\ \A i \in DOMAIN old : old[i] # n /\ old[i] \notin reaped[s]
  <2>1. \A i \in DOMAIN old : old[i] \in Delivered(s)
    BY Zenon DEF Delivered
  <2>2. DeliveredOnce
    BY Zenon DEF RouteInv
  <2> QED
    BY <1>2, <2>1, <2>2, ZenonT(30) DEF DeliveredOnce
<1>4. /\ \A i, j \in DOMAIN new : new[i] = new[j] => i = j
      /\ \A i \in DOMAIN new : new[i] = n \/ \E j \in DOMAIN old : new[i] = old[j]
  BY <1>2, <1>3, PushEntries
<1> HIDE DEF new
<1>5. comp_ring'[s] = new /\ \A u \in Sessions \ {s} : comp_ring'[u] = comp_ring[u]
  BY <1>1, <1>2, Zenon DEF TypeOK
<1>6. Delivered(s)' \subseteq Delivered(s) \cup {n}
  BY <1>1, <1>4, <1>5 DEF Delivered
<1>7. \A u \in Sessions \ {s} : Delivered(u)' = Delivered(u)
  BY <1>1, <1>5, Zenon DEF Delivered
<1>8. \A c : c # n /\ Fresh(c) => Fresh(c)'
  BY <1>1, <1>6, <1>7, Zenon DEF Fresh
<1>9. \A c : Fresh(c) => c # n
  BY Zenon DEF Fresh
<1>10. CompletionOwnership'
  BY <1>1, <1>2, <1>6, <1>7 DEF RouteInv, CompletionOwnership
<1>11. DeliveredOnce'
  <2>1. \A u \in Sessions : \A c \in Delivered(u)' : cmd_table'[c] = NoSession
    BY <1>1, <1>2, <1>6, <1>7 DEF RouteInv, DeliveredOnce
  <2>2. n \notin reaped[s]
    BY <1>2, Zenon DEF Delivered
  <2>3. \A i \in DOMAIN new : new[i] \notin reaped[s]
    BY <1>3, <1>4, <2>2, Zenon
  <2> QED
    BY <1>1, <1>4, <1>5, <2>1, <2>3 DEF RouteInv, DeliveredOnce
<1>12. \A u : Holding(u)' <=> Holding(u)
  BY <1>1, Zenon DEF Holding
<1>13. /\ \A c \in Cmds : c > next_cmd_id' => Fresh(c)'
       /\ \A u \in Threads : Holding(u)' =>
           /\ t_cmd'[u] \in Cmds /\ t_cmd'[u] <= next_cmd_id'
           /\ t_sess'[u] \in Sessions /\ issued_by'[t_cmd'[u]] = t_sess'[u]
           /\ Fresh(t_cmd[u])'
  <2>1. \A u : t_cmd'[u] = t_cmd[u] /\ t_sess'[u] = t_sess[u]
    BY <1>1, Zenon
  <2>2. \A u \in Threads : Holding(u) => Fresh(t_cmd[u])
    BY Zenon DEF RouteInv
  <2>3. \A u \in Threads : Holding(u) => Fresh(t_cmd[u])'
    BY <1>1, <1>8, <1>9, <2>2, Zenon DEF Fresh, Delivered
  <2> QED
    BY <1>1, <1>8, <1>9, <1>12, <2>1, <2>3, Zenon DEF RouteInv
<1>14. \A u \in Sessions : Delivered(u)' \subseteq Cmds
  <2>1. \A u \in Sessions : Delivered(u) \subseteq Cmds
    BY Zenon DEF RouteInv
  <2>2. Delivered(s)' \subseteq Cmds
    BY <1>2, <1>6, <2>1, Zenon
  <2>3. ASSUME NEW u \in Sessions PROVE Delivered(u)' \subseteq Cmds
    <3>1. CASE u # s
      BY <3>1, <1>7, <2>1, Zenon
    <3>2. CASE u = s
      BY <3>2, <2>2, <1>1, Zenon DEF Delivered
    <3> QED
      BY <3>1, <3>2, Zenon
  <2> QED
    BY <2>3, Zenon
<1> QED
  BY <1>1, <1>2, <1>10, <1>11, <1>12, <1>13, <1>14, Zenon DEF RouteInv, Serving

(* A step that can only take entries out of rings, end the service of a    *)
(* completion, or end a thread's holding.                                  *)
LEMMA RouteShrink ==
  ASSUME RouteInv, DeliveredOnce',
         UNCHANGED <<cmd_table, issued_by, next_cmd_id>>,
         \A s \in Sessions : Delivered(s)' \subseteq Delivered(s),
         \A u \in Threads : Holding(u)' =>
            Holding(u) /\ t_cmd'[u] = t_cmd[u] /\ t_sess'[u] = t_sess[u],
         isr_pc' = "push" => isr_pc = "push",
         \/ UNCHANGED <<isr_comp, isr_owner>> /\ (Serving' => Serving)
         \/ isr_comp' = 0 /\ ~ Serving'
  PROVE  RouteInv'
<1>1. \A c \in Cmds : Fresh(c) => Fresh(c)'
  <2>1. \A c \in Cmds : c # 0
    BY DEF Cmds
  <2> QED
    BY <2>1, Zenon DEF Fresh
<1>2. CompletionOwnership'
  BY Zenon DEF RouteInv, CompletionOwnership
<1>3. \A u \in Threads : Holding(u)' => Fresh(t_cmd[u])'
  <2>1. \A u \in Threads : Holding(u)' => t_cmd[u] \in Cmds /\ Fresh(t_cmd[u]) /\ t_cmd'[u] = t_cmd[u]
    BY Zenon DEF RouteInv
  <2> QED
    BY <1>1, <2>1, Zenon DEF Fresh, Delivered
<1>4. isr_pc' = "push" => Serving'
  BY Zenon DEF Serving
<1>5. \A s \in Sessions : Delivered(s)' \subseteq Cmds
  BY Zenon DEF RouteInv
<1> QED
  BY <1>1, <1>2, <1>3, <1>4, <1>5 DEF RouteInv

-----------------------------------------------------------------------------
(* read() pops the oldest entry, and records it or (on a fault) loses it.  *)
LEMMA ReadRoute ==
  ASSUME TypeOK, RouteInv, NEW t \in Threads, ReadOne(t) \/ ReadFault(t) PROVE RouteInv'
<1> DEFINE s == t_sess[t]
           old == comp_ring[s]
<1>1. /\ UNCHANGED <<cmd_table, issued_by, next_cmd_id, isr_comp, isr_owner, isr_pc>>
      /\ pc[t] = "read" /\ old # <<>>
      /\ comp_ring' = [comp_ring EXCEPT ![s] = Tail(old)]
      /\ \/ reaped' = reaped
         \/ reaped' = [reaped EXCEPT ![s] = @ \cup {Head(old)}]
  BY Zenon DEF ReadOne, ReadFault, Return, Goto, routeVars, isrVars
<1>2. \A u \in Threads : Holding(u)' =>
            Holding(u) /\ t_cmd'[u] = t_cmd[u] /\ t_sess'[u] = t_sess[u]
  BY DEF ReadOne, ReadFault, Return, Goto, Holding, TypeOK
<1>3. (Serving' => Serving) /\ (isr_pc' = "push" => isr_pc = "push")
  BY <1>1, Zenon DEF Serving
<1>4. CASE s \notin Sessions
  <2>1. comp_ring' = comp_ring /\ reaped' = reaped
    BY <1>1, <1>4 DEF TypeOK
  <2> QED
    BY <1>1, <1>2, <1>3, <2>1, RouteFrame, Zenon
<1>5. CASE s \in Sessions
  <2>1. old \in Seq(CmdOrNone) /\ \A i, j \in DOMAIN old : old[i] = old[j] => i = j
    BY <1>5, Zenon DEF TypeOK, RouteInv, DeliveredOnce
  <2>2. /\ \A i, j \in DOMAIN Tail(old) : Tail(old)[i] = Tail(old)[j] => i = j
        /\ \A i \in DOMAIN Tail(old) : \E j \in DOMAIN old : Tail(old)[i] = old[j]
        /\ \A i \in DOMAIN Tail(old) : Tail(old)[i] # Head(old)
        /\ \E j \in DOMAIN old : Head(old) = old[j]
    BY <1>1, <2>1, PopEntries, Zenon
  <2>3. /\ comp_ring'[s] = Tail(old)
        /\ reaped'[s] = reaped[s] \/ reaped'[s] = reaped[s] \cup {Head(old)}
        /\ \A u \in Sessions \ {s} : comp_ring'[u] = comp_ring[u] /\ reaped'[u] = reaped[u]
    BY <1>1, <1>5, Zenon DEF TypeOK
  <2> HIDE DEF s
  <2>4. {comp_ring'[s][i] : i \in DOMAIN comp_ring'[s]} \cup reaped'[s] \subseteq Delivered(s)
    <3>1. /\ \A j \in DOMAIN old : old[j] \in Delivered(s)
          /\ reaped[s] \subseteq Delivered(s)
      BY Zenon DEF Delivered
    <3>2. /\ \A i \in DOMAIN Tail(old) : Tail(old)[i] \in Delivered(s)
          /\ Head(old) \in Delivered(s)
      BY <2>2, <3>1, Zenon
    <3> HIDE DEF old
    <3>3. {comp_ring'[s][i] : i \in DOMAIN comp_ring'[s]} \subseteq Delivered(s)
      BY <2>3, <3>2, Zenon
    <3>4. reaped'[s] \subseteq Delivered(s)
      BY <2>3, <3>1, <3>2, Zenon
    <3> QED
      BY <3>3, <3>4, Zenon
  <2>5. \A u \in Sessions : Delivered(u)' \subseteq Delivered(u)
    BY <2>3, <2>4, Zenon DEF Delivered
  <2>6. \A i \in DOMAIN old : old[i] \notin reaped[s]
    BY <1>5, Zenon DEF RouteInv, DeliveredOnce
  <2>7. \A i \in DOMAIN Tail(old) : Tail(old)[i] \notin reaped'[s]
    BY <2>2, <2>3, <2>6, Zenon
  <2>8. DeliveredOnce'
    <3>1. \A u \in Sessions : \A c \in Delivered(u)' : cmd_table'[c] = NoSession
      BY <1>1, <2>5, Zenon DEF RouteInv, DeliveredOnce
    <3> HIDE DEF old
    <3>2. \A u \in Sessions :
            /\ \A i, j \in DOMAIN comp_ring'[u] : comp_ring'[u][i] = comp_ring'[u][j] => i = j
            /\ \A i \in DOMAIN comp_ring'[u] : comp_ring'[u][i] \notin reaped'[u]
      <4>1. ASSUME NEW u \in Sessions \ {s}
            PROVE  /\ \A i, j \in DOMAIN comp_ring[u] : comp_ring[u][i] = comp_ring[u][j] => i = j
                   /\ \A i \in DOMAIN comp_ring[u] : comp_ring[u][i] \notin reaped[u]
        BY Zenon DEF RouteInv, DeliveredOnce
      <4> QED
        BY <2>2, <2>3, <2>7, <4>1
    <3> QED
      BY <3>1, <3>2, Zenon DEF DeliveredOnce
  <2> QED
    BY <1>1, <1>2, <1>3, <2>5, <2>8, RouteShrink, Zenon
<1> QED
  BY <1>4, <1>5, Zenon

(* The steps outside the routing machinery keep to RouteFrame.             *)
LEMMA FrameSteps ==
  ASSUME TypeOK, RouteInv, [Next]_vars,
         \A t \in Threads : /\ ~ Admit(t) /\ ~ ReadOne(t) /\ ~ ReadFault(t)
                            /\ \A s \in Sessions : ~ AllocCmdId(t, s),
         ~ IsrRoute, ~ IsrPush, ~ IsrWakeComp
  PROVE  RouteInv'
<1> DEFINE Still == UNCHANGED <<comp_ring, reaped, cmd_table, issued_by, next_cmd_id,
                                isr_comp, isr_owner>>
           Held == \A u \in Threads : Holding(u)' =>
                     Holding(u) /\ t_cmd'[u] = t_cmd[u] /\ t_sess'[u] = t_sess[u]
           Served == (Serving' => Serving) /\ (isr_pc' = "push" => isr_pc = "push")
<1>1. CASE UNCHANGED vars
  <2>1. Still /\ Held /\ Served
    BY <1>1, Zenon DEF vars, compVars, routeVars, isrVars, callVars, Holding, Serving
  <2> QED
    BY <2>1, RouteFrame, Zenon
<1>2. CASE \E t \in Threads : UserCall(t)
  <2> PICK t \in Threads : UserCall(t)
    BY <1>2, Zenon
  <2> PICK s \in Sessions : Open(t, s) \/ Release(t, s) \/ ReadBegin(t, s) \/ Poll(t, s)
    BY Zenon DEF UserCall
  <2>1. CASE Open(t, s)
    <3>1. Still /\ Served
      BY ZenonT(30), <2>1 DEF Open, compVars, routeVars, isrVars, Serving
    <3>2. Held
      BY ZenonT(30), <2>1 DEF Open, callVars, Holding
    <3> QED
      BY ZenonT(30), <3>1, <3>2, RouteFrame
  <2>2. CASE Release(t, s) \/ ReadBegin(t, s) \/ Poll(t, s)
    <3>1. Still /\ Served
      BY <2>2, Zenon DEF Release, ReadBegin, Poll, compVars, routeVars, isrVars, Serving
    <3>2. /\ pc' = [pc EXCEPT ![t] = pc'[t]] /\ pc'[t] \in {"rel_wake", "read", "poll"}
          /\ t_cmd' = t_cmd /\ t_sess' = [t_sess EXCEPT ![t] = s]
      BY <2>2, Zenon DEF Release, ReadBegin, Poll, Enter, Goto, TypeOK
    <3>3. Held
      BY <3>2, Zenon DEF Holding, TypeOK
    <3> QED
      BY <3>1, <3>3, RouteFrame, Zenon
  <2> QED
    BY <2>1, <2>2, Zenon
<1>3. CASE \E t \in Threads : KernelStep(t)
  <2> PICK t \in Threads : KernelStep(t)
    BY <1>3, Zenon
  <2>1. CASE ReadQuota(t) \/ Refuse(t) \/ WaitQuota(t) \/ IncSession(t) \/ IncTotal(t)
    <3>1. Still /\ Served
      BY <2>1, Zenon DEF ReadQuota, Refuse, WaitQuota, IncSession, IncTotal, compVars, routeVars,
                  isrVars, Serving
    <3>2. Held
      BY <2>1, Zenon DEF ReadQuota, Refuse, WaitQuota, IncSession, IncTotal, Goto, callVars,
                  Holding, TypeOK
    <3> QED
      BY <3>1, <3>2, RouteFrame, Zenon
  <2>2. CASE PickSlot(t) \/ WriteOperands(t) \/ WriteCmdId(t) \/ LoadSqTail(t)
             \/ StoreSqTail(t) \/ Doorbell(t)
    <3>1. Still /\ Served
      BY <2>2, Zenon DEF PickSlot, WriteOperands, WriteCmdId, LoadSqTail, StoreSqTail, Doorbell,
                  compVars, routeVars, isrVars, Serving
    <3>2. Held
      BY ZenonT(30), <2>2 DEF PickSlot, WriteOperands, WriteCmdId, LoadSqTail, StoreSqTail, Doorbell,
                  Return, Goto, callVars, Holding, TypeOK
    <3> QED
      BY <3>1, <3>2, RouteFrame, Zenon
  <2>3. CASE ReadRaced(t) \/ PollReady(t) \/ PollSleep(t) \/ ReleaseWake(t) \/ ReleaseFree(t)
    <3>1. Still /\ Served
      BY ZenonT(30), <2>3 DEF ReadRaced, PollReady, PollSleep, ReleaseWake, ReleaseFree, compVars,
                  routeVars, isrVars, Serving
    <3>2. Held
      BY ZenonT(30), <2>3 DEF ReadRaced, PollReady, PollSleep, ReleaseWake, ReleaseFree, QuotaWoken,
                  Return, Goto, callVars, Holding, TypeOK
    <3> QED
      BY <3>1, <3>2, RouteFrame, Zenon
  <2> QED
    BY <2>1, <2>2, <2>3, Zenon DEF KernelStep
<1>4. CASE \E t \in Threads : Disturbance(t)
  <2>1. Still /\ Served
    BY <1>4, Zenon DEF Disturbance, Interrupted, PollTimeout, compVars, routeVars, isrVars, Serving
  <2>2. Held
    BY <1>4 DEF Disturbance, Interrupted, PollTimeout, Return, Goto, Holding, TypeOK
  <2> QED
    BY <2>1, <2>2, RouteFrame, Zenon
<1>5. CASE DeviceStep
  <2>1. Still /\ Held /\ Served
    BY ZenonT(30), <1>5 DEF DeviceStep, Dispatch, Complete, compVars, routeVars, isrVars, callVars,
                Holding, Serving
  <2> QED
    BY <2>1, RouteFrame, Zenon
<1>6. CASE IsrStep
  <2>1. Still /\ Served
    BY ZenonT(30), <1>6 DEF IsrStep, IsrEnter, IsrAck, IsrReadTail, IsrDropUnknown, IsrDecSession,
                IsrDecTotal, IsrWakeQuota, IsrExit, IsrGoto, compVars, routeVars, Serving
  <2>2. Held
    BY <1>6, Zenon DEF IsrStep, IsrEnter, IsrAck, IsrReadTail, IsrDropUnknown, IsrDecSession,
                IsrDecTotal, IsrWakeQuota, IsrExit, QuotaWoken, callVars, Holding, TypeOK
  <2> QED
    BY <2>1, <2>2, RouteFrame, Zenon
<1> QED
  BY <1>1, <1>2, <1>3, <1>4, <1>5, <1>6, Zenon DEF Next

(* Every step keeps the routing invariant.                                 *)
LEMMA RouteStep == ASSUME TypeOK, RouteInv, [Next]_vars PROVE RouteInv'
<1>1. CASE \E t \in Threads : \/ Admit(t) \/ ReadOne(t) \/ ReadFault(t)
                              \/ \E s \in Sessions : AllocCmdId(t, s)
  BY <1>1, AdmitRoute, ReadRoute, AllocRoute, Zenon
<1>2. CASE IsrRoute \/ IsrPush
  BY <1>2, RouteRoute, PushRoute, Zenon
<1>3. CASE IsrWakeComp
  <2>1. /\ UNCHANGED <<cmd_table, issued_by, next_cmd_id, comp_ring, reaped, t_cmd, t_sess>>
        /\ isr_pc' = "loop" /\ isr_comp' = 0
    BY <1>3, Zenon DEF IsrWakeComp, IsrGoto, compVars, routeVars, callVars
  <2>2. \A u : Delivered(u)' = Delivered(u)
    BY <2>1, Zenon DEF Delivered
  <2>3. DeliveredOnce'
    BY <2>1, <2>2, Zenon DEF RouteInv, DeliveredOnce
  <2>4. \A u \in Threads : Holding(u)' => Holding(u)
    BY <1>3, Zenon DEF IsrWakeComp, Holding, TypeOK
  <2>5. ~ Serving'
    BY <2>1, Zenon DEF Serving
  <2> QED
    BY <2>1, <2>2, <2>3, <2>4, <2>5, RouteShrink, Zenon
<1> QED
  BY <1>1, <1>2, <1>3, FrameSteps, Zenon

(* Nothing is held, registered, served or delivered at first.              *)
LEMMA InitRoute == Init => RouteInv
<1> SUFFICES ASSUME Init PROVE RouteInv
  BY Zenon
<1>1. \A s \in Sessions : Delivered(s) = {}
  BY DEF Init, Delivered
<1>2. \A c \in Cmds : cmd_table[c] = NoSession /\ c # 0 /\ isr_comp = 0
  BY DEF Init, Cmds
<1>3. /\ \A c \in Cmds : Fresh(c)
      /\ \A t \in Threads : ~ Holding(t)
      /\ ~ Serving /\ isr_pc # "push"
  BY <1>1, <1>2, Zenon DEF Init, Fresh, Holding, Serving
<1>4. CompletionOwnership /\ DeliveredOnce
  BY <1>1 DEF Init, CompletionOwnership, DeliveredOnce
<1> QED
  BY <1>1, <1>2, <1>3, <1>4, Zenon DEF RouteInv

(* The routing invariant holds of the driver: a cmd_id is held by one      *)
(* thread, or registered, or served, or delivered, and never returns.      *)
THEOREM Routing == Spec => []RouteInv
<1> QED
  BY InitRoute, RouteStep, TypeCorrect, PTL DEF Spec

(* Every completion a session finds in its ring, or has read, is one of    *)
(* its own: for any number of sessions, threads and commands, any ring     *)
(* sizes, and any device that completes what it fetched from SQ.           *)
THEOREM CompletionsOwned == Spec => []CompletionOwnership
<1>1. RouteInv => CompletionOwnership
  BY Zenon DEF RouteInv
<1> QED
  BY <1>1, Routing, PTL

(* The handler delivers no completion twice, even if the device executes   *)
(* a stale descriptor again.                                               *)
THEOREM NeverDeliveredTwice == Spec => []DeliveredOnce
<1>1. RouteInv => DeliveredOnce
  BY Zenon DEF RouteInv
<1> QED
  BY <1>1, Routing, PTL

-----------------------------------------------------------------------------
(* The counters: what inflight and total_inflight count, and how far       *)
(* admission can overshoot the cap.                                        *)

INSTANCE FiniteSetTheorems

(* Registered commands, all sessions together.                             *)
Table == {c \in Cmds : cmd_table[c] # NoSession}

(* Submitters that have registered a command and not yet counted it.       *)
Uncounted(s) == {t \in Threads : pc[t] = "inc_sess" /\ t_sess[t] = s}

Counting == {t \in Threads : pc[t] \in {"inc_sess", "inc_total"}}

(* The command the handler has unregistered and not yet discounted.        *)
Leaving(s) == IF isr_pc \in {"push", "dec_sess"} /\ isr_owner = s THEN 1 ELSE 0

LeavingTotal == IF isr_pc \in {"push", "dec_sess", "dec_total"} THEN 1 ELSE 0

CountInv ==
  /\ \A s \in Sessions :
       inflight[s] + Cardinality(Uncounted(s)) = Cardinality(Registered(s)) + Leaving(s)
  /\ total_inflight + Cardinality(Counting) = Cardinality(Table) + LeavingTotal

(* The sets that are counted are finite.                                   *)
LEMMA CountedFinite ==
  ASSUME NEW s
  PROVE  /\ IsFiniteSet(Table) /\ IsFiniteSet(Registered(s))
         /\ IsFiniteSet(Uncounted(s)) /\ IsFiniteSet(Counting)
         /\ Cardinality(Table) \in Nat /\ Cardinality(Registered(s)) \in Nat
         /\ Cardinality(Uncounted(s)) \in Nat /\ Cardinality(Counting) \in Nat
<1>1. IsFiniteSet(Cmds)
  BY FS_Interval, CmdPathAssumption DEF Cmds
<1>2. Table \subseteq Cmds /\ Registered(s) \subseteq Cmds
  BY Zenon DEF Table, Registered
<1>3. Uncounted(s) \subseteq Threads /\ Counting \subseteq Threads
  BY Zenon DEF Uncounted, Counting
<1> QED
  BY <1>1, <1>2, <1>3, FS_Subset, FS_CardinalityType, CmdPathAssumption, Zenon

(* A thread that is not between registering and counting moves on to a     *)
(* place that is not either.                                               *)
LEMMA NotCounting ==
  ASSUME TypeOK, NEW t \in Threads, NEW q \in PcValues \ {"inc_sess", "inc_total"}, NEW r,
         pc' = [pc EXCEPT ![t] = q],
         t_sess' = t_sess \/ t_sess' = [t_sess EXCEPT ![t] = r],
         pc[t] \notin {"inc_sess", "inc_total"}
  PROVE  Counting' = Counting /\ \A s : Uncounted(s)' = Uncounted(s)
<1>1. /\ pc'[t] = q
      /\ \A u \in Threads \ {t} : pc'[u] = pc[u] /\ t_sess'[u] = t_sess[u]
  BY ThreadMoves, Zenon
<1> QED
  BY <1>1, Zenon DEF Counting, Uncounted

(* Six actions change what is counted.                                     *)
LEMMA CountFrame ==
  ASSUME TypeOK, [Next]_vars,
         \A t \in Threads : ~ Admit(t) /\ ~ IncSession(t) /\ ~ IncTotal(t),
         ~ IsrRoute, ~ IsrDecSession, ~ IsrDecTotal
  PROVE  /\ UNCHANGED <<inflight, total_inflight, cmd_table, Counting, LeavingTotal>>
         /\ \A s : Uncounted(s)' = Uncounted(s) /\ Leaving(s)' = Leaving(s)
<1> DEFINE Still == UNCHANGED <<inflight, total_inflight, cmd_table>>
           SameThreads == Counting' = Counting /\ \A s : Uncounted(s)' = Uncounted(s)
           SameHandler == LeavingTotal' = LeavingTotal /\ \A s : Leaving(s)' = Leaving(s)
<1>0. /\ pc \in [Threads -> PcValues]
      /\ t_sess \in [Threads -> Sessions \cup {NoSession}]
  BY Zenon DEF TypeOK
<1>1. CASE UNCHANGED vars
  BY <1>1, Zenon DEF vars, countVars, routeVars, callVars, isrVars, Counting, Uncounted, Leaving,
              LeavingTotal
<1>2. ASSUME NEW t \in Threads, UserCall(t) PROVE Still /\ SameThreads /\ SameHandler
  <2>1. Still /\ SameHandler
    BY <1>2, ZenonT(30) DEF UserCall, Open, Release, AllocCmdId, ReadBegin, Poll, countVars, routeVars,
                isrVars, Leaving, LeavingTotal
  <2>2. SameThreads
    <3>1. \/ UNCHANGED <<pc, t_sess>>
          \/ /\ pc[t] = "idle"
             /\ \E q \in {"rel_wake", "quota", "read", "poll"}, s \in Sessions :
                  pc' = [pc EXCEPT ![t] = q] /\ t_sess' = [t_sess EXCEPT ![t] = s]
      BY <1>2, ZenonT(30) DEF UserCall, Open, Release, AllocCmdId, ReadBegin, Poll, Enter, Goto,
                  callVars
    <3>2. CASE UNCHANGED <<pc, t_sess>>
      BY <3>2, Zenon DEF Counting, Uncounted
    <3>3. ASSUME NEW q \in {"rel_wake", "quota", "read", "poll"}, NEW s \in Sessions,
                 pc[t] = "idle", pc' = [pc EXCEPT ![t] = q], t_sess' = [t_sess EXCEPT ![t] = s]
          PROVE  SameThreads
      <4>1. /\ q \in PcValues \ {"inc_sess", "inc_total"}
            /\ pc[t] \notin {"inc_sess", "inc_total"}
        BY <3>3, Zenon DEF PcValues
      <4> QED
        BY <3>3, <4>1, NotCounting, Zenon
    <3> QED
      BY <3>1, <3>2, <3>3, Zenon
  <2> QED
    BY <2>1, <2>2, Zenon
<1>3. ASSUME NEW t \in Threads, KernelStep(t) PROVE Still /\ SameThreads /\ SameHandler
  <2>1. Still /\ SameHandler
    BY <1>3, Zenon DEF KernelStep, ReadQuota, Refuse, WaitQuota, PickSlot, WriteOperands, WriteCmdId,
                LoadSqTail, StoreSqTail, Doorbell, ReadOne, ReadRaced, PollReady, PollSleep,
                ReleaseWake, ReleaseFree, countVars, routeVars, isrVars, Leaving, LeavingTotal
  <2>2. CASE ReadQuota(t) \/ Refuse(t) \/ WaitQuota(t)
    BY <1>0, <2>1, <2>2, Zenon DEF ReadQuota, Refuse, WaitQuota, Goto, callVars, Counting, Uncounted
  <2>3. CASE PickSlot(t) \/ WriteOperands(t) \/ WriteCmdId(t)
    BY <1>0, <2>1, <2>3, Zenon DEF PickSlot, WriteOperands, WriteCmdId, Goto, callVars, Counting,
                            Uncounted
  <2>4. CASE LoadSqTail(t) \/ StoreSqTail(t)
    BY <1>0, <2>1, <2>4, Zenon DEF LoadSqTail, StoreSqTail, Goto, callVars, Counting, Uncounted
  <2>5. CASE Doorbell(t)
    BY <1>0, <2>1, <2>5, Zenon DEF Doorbell, Return, Goto, callVars, Counting, Uncounted
  <2>6. CASE ReadOne(t) \/ ReadRaced(t)
    <3>1. \/ UNCHANGED <<pc, t_sess>>
          \/ /\ pc[t] = "read" /\ pc' = [pc EXCEPT ![t] = "idle"]
             /\ t_sess' = [t_sess EXCEPT ![t] = NoSession]
      BY <2>6, Zenon DEF ReadOne, ReadRaced, Return, Goto
    <3>2. CASE UNCHANGED <<pc, t_sess>>
      BY <2>1, <3>2, Zenon DEF Counting, Uncounted
    <3>3. CASE /\ pc[t] = "read" /\ pc' = [pc EXCEPT ![t] = "idle"]
               /\ t_sess' = [t_sess EXCEPT ![t] = NoSession]
      <4>1. /\ "idle" \in PcValues \ {"inc_sess", "inc_total"}
            /\ pc[t] \notin {"inc_sess", "inc_total"}
        BY <3>3, Zenon DEF PcValues
      <4> QED
        BY <2>1, <3>3, <4>1, NotCounting, Zenon
    <3> QED
      BY <3>1, <3>2, <3>3, Zenon
  <2>7. CASE PollReady(t) \/ PollSleep(t)
    BY <1>0, <2>1, <2>7 DEF PollReady, PollSleep, Return, Goto, callVars, Counting, Uncounted
  <2>8. CASE ReleaseWake(t)
    BY <1>0, <2>1, <2>8, Zenon DEF ReleaseWake, QuotaWoken, callVars, Counting, Uncounted
  <2>9. CASE ReleaseFree(t)
    BY <1>0, <2>1, <2>9, Zenon DEF ReleaseFree, Return, Goto, Counting, Uncounted
  <2> HIDE DEF Still, SameThreads, SameHandler
  <2> QED
    BY <1>3, <2>2, <2>3, <2>4, <2>5, <2>6, <2>7, <2>8, <2>9, Zenon DEF KernelStep
<1>4. ASSUME NEW t \in Threads, Disturbance(t) PROVE Still /\ SameThreads /\ SameHandler
  <2>1. Still /\ SameHandler
    BY <1>4, Zenon DEF Disturbance, Interrupted, PollTimeout, ReadFault, countVars, routeVars, isrVars,
                Leaving, LeavingTotal
  <2>2. SameThreads
    <3>1. /\ pc[t] \in {"asleep", "polling", "read"}
          /\ pc' = [pc EXCEPT ![t] = "idle"] /\ t_sess' = [t_sess EXCEPT ![t] = NoSession]
      BY <1>4, Zenon DEF Disturbance, Interrupted, PollTimeout, ReadFault, Return, Goto
    <3>2. /\ "idle" \in PcValues \ {"inc_sess", "inc_total"}
          /\ pc[t] \notin {"inc_sess", "inc_total"}
      BY <3>1, Zenon DEF PcValues
    <3> QED
      BY <3>1, <3>2, NotCounting, Zenon
  <2> QED
    BY <2>1, <2>2, Zenon
<1>5. CASE DeviceStep
  BY <1>5, Zenon DEF DeviceStep, Dispatch, Complete, countVars, routeVars, callVars, isrVars, Counting,
              Uncounted, Leaving, LeavingTotal
<1>6. CASE IsrStep
  <2>1. Still /\ callVars' = callVars
    BY <1>6, Zenon DEF IsrStep, IsrEnter, IsrAck, IsrReadTail, IsrDropUnknown, IsrPush, IsrWakeQuota,
                IsrWakeComp, IsrExit, countVars, routeVars
  <2>2. SameHandler
    BY <1>6, Zenon DEF IsrStep, IsrEnter, IsrAck, IsrReadTail, IsrDropUnknown, IsrPush, IsrWakeQuota,
                IsrWakeComp, IsrExit, IsrGoto, Leaving, LeavingTotal
  <2>3. SameThreads
    <3>1. CASE IsrWakeQuota
      BY <1>0, <2>1, <3>1, Zenon DEF IsrWakeQuota, QuotaWoken, callVars, Counting, Uncounted
    <3>2. CASE IsrWakeComp
      BY <1>0, <2>1, <3>2, Zenon DEF IsrWakeComp, callVars, Counting, Uncounted
    <3>3. CASE pc' = pc
      BY <2>1, <3>3, Zenon DEF callVars, Counting, Uncounted
    <3>4. IsrWakeQuota \/ IsrWakeComp \/ pc' = pc
      BY <1>6, Zenon DEF IsrStep, IsrEnter, IsrAck, IsrReadTail, IsrDropUnknown, IsrPush, IsrExit
    <3> QED
      BY <3>1, <3>2, <3>3, <3>4, Zenon
  <2> QED
    BY <2>1, <2>2, <2>3, Zenon
<1> QED
  BY <1>1, <1>2, <1>3, <1>4, <1>5, <1>6, Zenon DEF Next

(* Registering a command and becoming uncounted are one step.              *)
LEMMA AdmitCount ==
  ASSUME TypeOK, RouteInv, CountInv, NEW t \in Threads, Admit(t) PROVE CountInv'
<1>1. PICK n \in Cmds, o \in Sessions : n = t_cmd[t] /\ o = t_sess[t] /\ cmd_table[n] = NoSession
  BY Zenon DEF Admit, Goto, RouteInv, Holding, Fresh
<1>2. /\ cmd_table' = [cmd_table EXCEPT ![n] = o] /\ pc[t] = "admit" /\ o # NoSession
      /\ pc' = [pc EXCEPT ![t] = "inc_sess"]
      /\ UNCHANGED <<inflight, total_inflight, t_sess, isr_pc, isr_owner>>
  BY <1>1, CmdPathAssumption, Zenon DEF Admit, Goto, countVars, callVars, isrVars
<1>3. /\ n \notin Table /\ Table' = Table \cup {n}
      /\ n \notin Registered(o) /\ Registered(o)' = Registered(o) \cup {n}
      /\ \A s \in Sessions \ {o} : Registered(s)' = Registered(s)
  <2>1. cmd_table'[n] = o /\ \A c \in Cmds \ {n} : cmd_table'[c] = cmd_table[c]
    BY <1>2, Zenon DEF TypeOK
  <2>2. n \notin Table /\ Table' = Table \cup {n}
    BY <1>1, <1>2, <2>1, Zenon DEF Table
  <2>3. n \notin Registered(o) /\ Registered(o)' = Registered(o) \cup {n}
    BY <1>1, <1>2, <2>1, Zenon DEF Registered
  <2>4. \A s \in Sessions \ {o} : Registered(s)' = Registered(s)
    <3> SUFFICES ASSUME NEW s \in Sessions \ {o} PROVE Registered(s)' = Registered(s)
      BY Zenon
    <3>1. \A c \in Cmds : cmd_table'[c] = s <=> cmd_table[c] = s
      BY <1>1, <2>1, CmdPathAssumption, Zenon
    <3> QED
      BY <3>1, Zenon DEF Registered
  <2> QED
    BY <2>2, <2>3, <2>4, Zenon
<1>4. /\ t \notin Counting /\ Counting' = Counting \cup {t}
      /\ t \notin Uncounted(o) /\ Uncounted(o)' = Uncounted(o) \cup {t}
      /\ \A s \in Sessions \ {o} : Uncounted(s)' = Uncounted(s)
  <2>1. pc'[t] = "inc_sess" /\ \A u \in Threads \ {t} : pc'[u] = pc[u]
    BY <1>2, Zenon DEF TypeOK
  <2>2. t \notin Counting /\ Counting' = Counting \cup {t}
    BY <1>2, <2>1, Zenon DEF Counting
  <2>3. t \notin Uncounted(o) /\ Uncounted(o)' = Uncounted(o) \cup {t}
    BY <1>1, <1>2, <2>1, Zenon DEF Uncounted
  <2>4. \A s \in Sessions \ {o} : Uncounted(s)' = Uncounted(s)
    BY <1>1, <1>2, <2>1, Zenon DEF Uncounted
  <2> QED
    BY <2>2, <2>3, <2>4, Zenon
<1>5. LeavingTotal' = LeavingTotal /\ \A s : Leaving(s)' = Leaving(s)
  BY <1>2, Zenon DEF LeavingTotal, Leaving
<1>6. /\ Cardinality(Table') = Cardinality(Table) + 1
      /\ Cardinality(Registered(o)') = Cardinality(Registered(o)) + 1
      /\ Cardinality(Counting') = Cardinality(Counting) + 1
      /\ Cardinality(Uncounted(o)') = Cardinality(Uncounted(o)) + 1
  <2>1. /\ IsFiniteSet(Table) /\ IsFiniteSet(Registered(o))
        /\ IsFiniteSet(Counting) /\ IsFiniteSet(Uncounted(o))
    BY CountedFinite, Zenon
  <2> QED
    BY ZenonT(30), <1>3, <1>4, <2>1, FS_AddElement
<1>7. total_inflight' + Cardinality(Counting') = Cardinality(Table') + LeavingTotal'
  <2>1. total_inflight + Cardinality(Counting) = Cardinality(Table) + LeavingTotal
    BY Zenon DEF CountInv
  <2>2. total_inflight \in Int /\ LeavingTotal \in Int
    BY DEF TypeOK, LeavingTotal
  <2>3. Cardinality(Counting) \in Int /\ Cardinality(Table) \in Int
    BY CountedFinite
  <2> QED
    BY SMTT(15), <1>2, <1>5, <1>6, <2>1, <2>2, <2>3
<1>8. ASSUME NEW s \in Sessions
      PROVE  inflight'[s] + Cardinality(Uncounted(s)') = Cardinality(Registered(s)') + Leaving(s)'
  <2>1. inflight[s] + Cardinality(Uncounted(s)) = Cardinality(Registered(s)) + Leaving(s)
    BY Zenon DEF CountInv
  <2>2. inflight[s] \in Int /\ Leaving(s) \in Int
    BY DEF TypeOK, Leaving
  <2>3. CASE s = o
    <3>1. Cardinality(Uncounted(o)) \in Int /\ Cardinality(Registered(o)) \in Int
      BY CountedFinite
    <3> QED
      BY SMTT(15), <2>1, <2>2, <2>3, <1>2, <1>5, <1>6, <3>1
  <2>4. CASE s # o
    BY <2>1, <2>4, <1>2, <1>3, <1>4, <1>5, Zenon
  <2> QED
    BY <2>3, <2>4, Zenon
<1> QED
  BY <1>7, <1>8, Zenon DEF CountInv

(* Counting a command: first against its session, then in the total.       *)
LEMMA IncCount ==
  ASSUME TypeOK, CountInv, NEW t \in Threads, t_sess[t] \in Sessions,
         IncSession(t) \/ IncTotal(t)
  PROVE  CountInv'
<1>1. PICK o \in Sessions : o = t_sess[t]
  BY Zenon
<1>2. UNCHANGED <<cmd_table, t_sess, isr_pc, isr_owner>>
  BY Zenon DEF IncSession, IncTotal, routeVars, callVars, isrVars
<1>3. /\ Table' = Table /\ LeavingTotal' = LeavingTotal
      /\ \A s : Registered(s)' = Registered(s) /\ Leaving(s)' = Leaving(s)
  BY <1>2, Zenon DEF Table, LeavingTotal, Registered, Leaving
<1>4. total_inflight \in Int /\ LeavingTotal \in Int
  BY DEF TypeOK, LeavingTotal
<1>5. CASE IncSession(t)
  <2>1. Counting' = Counting /\ total_inflight' = total_inflight
    BY <1>5, Zenon DEF IncSession, Goto, TypeOK, Counting
  <2>2. /\ t \in Uncounted(o) /\ Uncounted(o)' = Uncounted(o) \ {t}
        /\ \A s \in Sessions \ {o} : Uncounted(s)' = Uncounted(s)
    <3>1. pc[t] = "inc_sess" /\ pc'[t] = "inc_total" /\ \A u \in Threads \ {t} : pc'[u] = pc[u]
      BY <1>5, Zenon DEF IncSession, Goto, TypeOK
    <3>2. t \in Uncounted(o) /\ Uncounted(o)' = Uncounted(o) \ {t}
      BY <1>1, <1>2, <3>1, Zenon DEF Uncounted
    <3>3. \A s \in Sessions \ {o} : Uncounted(s)' = Uncounted(s)
      BY <1>1, <1>2, <3>1, Zenon DEF Uncounted
    <3> QED
      BY <3>2, <3>3, Zenon
  <2>3. /\ inflight'[o] = inflight[o] + 1
        /\ \A s \in Sessions \ {o} : inflight'[s] = inflight[s]
    BY <1>1, <1>5, Zenon DEF IncSession, TypeOK
  <2>4. IsFiniteSet(Uncounted(o))
    BY CountedFinite, Zenon
  <2>5. Cardinality(Uncounted(o)') = Cardinality(Uncounted(o)) - 1
    BY <2>2, <2>4, FS_RemoveElement, Zenon
  <2>6. ASSUME NEW s \in Sessions
        PROVE  inflight'[s] + Cardinality(Uncounted(s)') = Cardinality(Registered(s)') + Leaving(s)'
    <3>1. inflight[s] + Cardinality(Uncounted(s)) = Cardinality(Registered(s)) + Leaving(s)
      BY Zenon DEF CountInv
    <3>2. inflight[s] \in Int /\ Leaving(s) \in Int
      <4>1. 0 \in Int /\ 1 \in Int
        OBVIOUS
      <4> QED
        BY <4>1, Zenon DEF TypeOK, Leaving
    <3>3. CASE s = o
      <4>1. Cardinality(Uncounted(o)) \in Int /\ Cardinality(Registered(o)) \in Int
        BY CountedFinite
      <4>2. /\ inflight[o] \in Int /\ Leaving(o) \in Int
            /\ Balanced(inflight[o], Cardinality(Uncounted(o)), Cardinality(Registered(o)), Leaving(o))
        BY <3>1, <3>2, <3>3, Zenon DEF Balanced
      <4>3. Balanced(inflight[o] + 1, Cardinality(Uncounted(o)) - 1, Cardinality(Registered(o)), Leaving(o))
        BY <4>1, <4>2, BalanceMoves, Zenon
      <4> QED
        BY <1>3, <2>3, <2>5, <3>3, <4>3, Zenon DEF Balanced
    <3>4. CASE s # o
      BY <1>3, <2>2, <2>3, <3>1, <3>4, Zenon
    <3> QED
      BY <3>3, <3>4, Zenon
  <2> QED
    BY <1>3, <2>1, <2>6, Zenon DEF CountInv
<1>6. CASE IncTotal(t)
  <2>1. inflight' = inflight /\ total_inflight' = total_inflight + 1
    BY <1>6, Zenon DEF IncTotal
  <2>2. t \in Counting /\ Counting' = Counting \ {t} /\ \A s : Uncounted(s)' = Uncounted(s)
    BY <1>2, <1>6, Zenon DEF IncTotal, Goto, TypeOK, Counting, Uncounted
  <2>3. IsFiniteSet(Counting)
    BY CountedFinite, Zenon
  <2>4. Cardinality(Counting') = Cardinality(Counting) - 1
    BY <2>2, <2>3, FS_RemoveElement, Zenon
  <2>5. total_inflight' + Cardinality(Counting') = Cardinality(Table') + LeavingTotal'
    BY <1>3, <1>4, <2>1, <2>4, CountedFinite DEF CountInv
  <2> QED
    BY <1>3, <2>1, <2>2, <2>5, Zenon DEF CountInv
<1> QED
  BY <1>5, <1>6, Zenon

(* Unregistering a command is its beginning to leave.                      *)
LEMMA RouteCount == ASSUME TypeOK, CountInv, IsrRoute PROVE CountInv'
<1>1. PICK n \in Cmds, o \in Sessions :
        /\ n = cq_buf[cq_head % QueueDepth] /\ o = cmd_table[n]
        /\ cmd_table' = [cmd_table EXCEPT ![n] = NoSession]
        /\ isr_pc = "loop" /\ isr_pc' = "push" /\ isr_owner' = o
  BY ZenonT(30) DEF IsrRoute, IsrGoto, TypeOK
<1>2. UNCHANGED <<inflight, total_inflight, pc, t_sess>>
  BY Zenon DEF IsrRoute, countVars, callVars
<1>3. Counting' = Counting /\ \A s : Uncounted(s)' = Uncounted(s)
  BY <1>2, Zenon DEF Counting, Uncounted
<1>4. /\ LeavingTotal = 0 /\ LeavingTotal' = 1 /\ Leaving(o)' = 1
      /\ \A s \in Sessions : Leaving(s) = 0
      /\ \A s \in Sessions \ {o} : Leaving(s)' = 0
  BY <1>1, Zenon DEF LeavingTotal, Leaving
<1>5. /\ cmd_table[n] = o /\ o # NoSession /\ cmd_table'[n] = NoSession
      /\ \A c \in Cmds \ {n} : cmd_table'[c] = cmd_table[c]
  BY <1>1, CmdPathAssumption, Zenon DEF TypeOK
<1>6. n \in Table /\ Table' = Table \ {n}
  BY <1>1, <1>5, Zenon DEF Table
<1>7. n \in Registered(o) /\ Registered(o)' = Registered(o) \ {n}
  BY <1>1, <1>5, Zenon DEF Registered
<1>8. ASSUME NEW s \in Sessions \ {o} PROVE Registered(s)' = Registered(s)
  <2>1. \A c \in Cmds : cmd_table'[c] = s <=> cmd_table[c] = s
    BY <1>5, CmdPathAssumption, Zenon
  <2> QED
    BY <2>1, Zenon DEF Registered
<1>9. IsFiniteSet(Table) /\ IsFiniteSet(Registered(o))
  BY CountedFinite, Zenon
<1>10. /\ Cardinality(Table') = Cardinality(Table) - 1
       /\ Cardinality(Registered(o)') = Cardinality(Registered(o)) - 1
  BY <1>6, <1>7, <1>9, FS_RemoveElement, Zenon
<1>11. total_inflight' + Cardinality(Counting') = Cardinality(Table') + LeavingTotal'
  <2>1. total_inflight + Cardinality(Counting) = Cardinality(Table) + LeavingTotal
    BY Zenon DEF CountInv
  <2>2. total_inflight \in Int /\ LeavingTotal \in Int
    BY DEF TypeOK, LeavingTotal
  <2>3. Cardinality(Counting) \in Int /\ Cardinality(Table) \in Int
    BY CountedFinite
  <2> QED
    BY SMTT(15), <1>2, <1>3, <1>4, <1>10, <2>1, <2>2, <2>3
<1>12. ASSUME NEW s \in Sessions
       PROVE  inflight'[s] + Cardinality(Uncounted(s)') = Cardinality(Registered(s)') + Leaving(s)'
  <2>1. inflight[s] + Cardinality(Uncounted(s)) = Cardinality(Registered(s)) + Leaving(s)
    BY Zenon DEF CountInv
  <2>2. CASE s = o
    <3>1. /\ Cardinality(Uncounted(o)) \in Int /\ Cardinality(Registered(o)) \in Int
          /\ inflight[o] \in Int
      BY CountedFinite DEF TypeOK
    <3> QED
      BY SMTT(15), <1>2, <1>3, <1>4, <1>10, <2>1, <2>2, <3>1
  <2>3. CASE s # o
    BY <1>2, <1>3, <1>4, <1>8, <2>1, <2>3, Zenon
  <2> QED
    BY <2>2, <2>3, Zenon
<1> QED
  BY <1>11, <1>12, Zenon DEF CountInv

(* Discounting a command: first against its session, then in the total.    *)
LEMMA DecCount ==
  ASSUME TypeOK, RouteInv, CountInv, IsrDecSession \/ IsrDecTotal PROVE CountInv'
<1>1. UNCHANGED <<cmd_table, pc, t_sess, isr_owner>>
  BY Zenon DEF IsrDecSession, IsrDecTotal, routeVars, callVars
<1>2. /\ Table' = Table /\ Counting' = Counting
      /\ \A s : Registered(s)' = Registered(s) /\ Uncounted(s)' = Uncounted(s)
  BY <1>1, Zenon DEF Table, Counting, Registered, Uncounted
<1>3. CASE IsrDecSession
  <2>1. PICK o \in Sessions : o = isr_owner
    BY <1>3, Zenon DEF IsrDecSession, IsrGoto, RouteInv, Serving
  <2>2. /\ LeavingTotal' = LeavingTotal /\ Leaving(o) = 1 /\ Leaving(o)' = 0
        /\ \A s \in Sessions \ {o} : Leaving(s)' = Leaving(s)
    BY <1>1, <1>3, <2>1, Zenon DEF IsrDecSession, IsrGoto, LeavingTotal, Leaving
  <2>3. /\ inflight'[o] = inflight[o] - 1 /\ total_inflight' = total_inflight
        /\ \A s \in Sessions \ {o} : inflight'[s] = inflight[s]
    BY <1>3, <2>1, Zenon DEF IsrDecSession, TypeOK
  <2>4. ASSUME NEW s \in Sessions
        PROVE  inflight'[s] + Cardinality(Uncounted(s)') = Cardinality(Registered(s)') + Leaving(s)'
    <3>1. inflight[s] + Cardinality(Uncounted(s)) = Cardinality(Registered(s)) + Leaving(s)
      BY Zenon DEF CountInv
    <3>2. inflight[s] \in Int
      BY Zenon DEF TypeOK
    <3>3. CASE s = o
      <4>1. Cardinality(Uncounted(s)) \in Int /\ Cardinality(Registered(s)) \in Int
        BY CountedFinite
      <4>2. /\ Cardinality(Uncounted(s)') = Cardinality(Uncounted(s))
            /\ Cardinality(Registered(s)') = Cardinality(Registered(s))
        BY <1>2, Zenon
      <4>3. inflight'[s] = inflight[s] - 1 /\ Leaving(s) = 1 /\ Leaving(s)' = 0
        BY <2>2, <2>3, <3>3, Zenon
      <4>4. PICK i \in Int, u \in Int, r \in Int :
              inflight[s] = i /\ Cardinality(Uncounted(s)) = u /\ Cardinality(Registered(s)) = r
        BY <3>2, <4>1, Zenon
      <4>5. i + u = r + 1
        BY <3>1, <4>3, <4>4, Zenon
      <4>6. (i - 1) + u = r + 0
        BY <4>5
      <4> QED
        BY <4>2, <4>3, <4>4, <4>6, Zenon
    <3>4. CASE s # o
      BY <1>2, <2>2, <2>3, <3>1, <3>4, Zenon
    <3> QED
      BY <3>3, <3>4, Zenon
  <2> QED
    BY <1>2, <2>2, <2>3, <2>4, Zenon DEF CountInv
<1>4. CASE IsrDecTotal
  <2>1. /\ LeavingTotal = 1 /\ LeavingTotal' = 0
        /\ \A s : Leaving(s)' = Leaving(s)
    BY <1>4, Zenon DEF IsrDecTotal, IsrGoto, LeavingTotal, Leaving
  <2>2. inflight' = inflight /\ total_inflight' = total_inflight - 1
    BY <1>4, Zenon DEF IsrDecTotal
  <2>3. total_inflight' + Cardinality(Counting') = Cardinality(Table') + LeavingTotal'
    <3>1. total_inflight + Cardinality(Counting) = Cardinality(Table) + LeavingTotal
      BY Zenon DEF CountInv
    <3>2. total_inflight \in Int
      BY Zenon DEF TypeOK
    <3>3. Cardinality(Counting) \in Int /\ Cardinality(Table) \in Int
      BY CountedFinite
    <3> QED
      BY <1>2, <2>1, <2>2, <3>1, <3>2, <3>3
  <2> QED
    BY <1>2, <2>1, <2>2, <2>3 DEF CountInv
<1> QED
  BY <1>3, <1>4, Zenon

(* Every step keeps the counts, as long as no thread inside the driver is  *)
(* without a session.                                                      *)
LEMMA CountStep ==
  ASSUME TypeOK, RouteInv, CountInv, [Next]_vars,
         \A t \in Threads : pc[t] # "idle" => t_sess[t] \in Sessions
  PROVE  CountInv'
<1>1. CASE \E t \in Threads : Admit(t)
  BY <1>1, AdmitCount, Zenon
<1>2. CASE \E t \in Threads : IncSession(t) \/ IncTotal(t)
  <2> PICK t \in Threads : IncSession(t) \/ IncTotal(t)
    BY <1>2, Zenon
  <2>1. t_sess[t] \in Sessions
    BY Zenon DEF IncSession, IncTotal, Goto
  <2> QED
    BY <2>1, IncCount, Zenon
<1>3. CASE IsrRoute \/ IsrDecSession \/ IsrDecTotal
  BY <1>3, RouteCount, DecCount, Zenon
<1>4. CASE ~ (\/ \E t \in Threads : Admit(t) \/ IncSession(t) \/ IncTotal(t)
              \/ IsrRoute \/ IsrDecSession \/ IsrDecTotal)
  <2>1. /\ UNCHANGED <<inflight, total_inflight, cmd_table, Counting, LeavingTotal>>
        /\ \A s : Uncounted(s)' = Uncounted(s) /\ Leaving(s)' = Leaving(s)
    BY <1>4, CountFrame, Zenon
  <2>2. Table' = Table /\ \A s : Registered(s)' = Registered(s)
    BY <2>1, Zenon DEF Table, Registered
  <2> QED
    BY <2>1, <2>2, Zenon DEF CountInv
<1> QED
  BY <1>1, <1>2, <1>3, <1>4, Zenon

-----------------------------------------------------------------------------
(* The inductive form of AdmissionOvershoot: the uncounted are included.   *)
OvershootInv ==
  total_inflight + Cardinality(Counting) <= QueueDepth + Cardinality(Threads) - 1

(* Every step keeps the bound on threads past the check and the total.     *)
LEMMA OvershootStep == ASSUME TypeOK, OvershootInv, [Next]_vars PROVE OvershootInv'
<1> USE CmdPathAssumption DEF OvershootInv
<1>1. IsFiniteSet(Counting) /\ Cardinality(Counting) \in Nat /\ Cardinality(Threads) \in Nat
  BY FS_Subset, FS_CardinalityType, Zenon DEF Counting
<1>2. total_inflight \in Int
  BY Zenon DEF TypeOK
<1>3. ASSUME NEW t \in Threads, Admit(t) PROVE OvershootInv'
  <2>1. t \notin Counting /\ Counting' = Counting \cup {t}
    BY <1>3 DEF TypeOK, Counting, Admit, Goto
  <2>2. Cardinality(Counting') = Cardinality(Counting) + 1
    BY <1>1, <2>1, FS_AddElement, Zenon
  <2>3. Cardinality(Counting') <= Cardinality(Threads)
    BY <2>1, FS_Subset, Zenon DEF Counting
  <2>4. total_inflight < QueueDepth /\ total_inflight' = total_inflight
    BY <1>3, Zenon DEF Admit, MayAdmit, countVars
  <2> QED
    BY SMTT(15), <1>1, <1>2, <2>2, <2>3, <2>4
<1>4. ASSUME NEW t \in Threads, IncTotal(t) PROVE OvershootInv'
  <2>1. t \in Counting /\ Counting' = Counting \ {t}
    BY <1>4, Zenon DEF TypeOK, Counting, IncTotal, Goto
  <2>2. Cardinality(Counting') = Cardinality(Counting) - 1
    BY <1>1, <2>1, FS_RemoveElement, Zenon
  <2>3. total_inflight' = total_inflight + 1
    BY <1>4, Zenon DEF IncTotal
  <2> QED
    BY <1>1, <1>2, <2>2, <2>3
<1>5. CASE IsrDecTotal
  BY <1>1, <1>2, <1>5 DEF IsrDecTotal, Counting
<1>6. ASSUME NEW t \in Threads, IncSession(t) PROVE OvershootInv'
  BY <1>6, Zenon DEF IncSession, Goto, TypeOK, Counting
<1>7. CASE IsrRoute \/ IsrDecSession
  BY <1>7, Zenon DEF IsrRoute, IsrDecSession, countVars, callVars, Counting
<1> QED
  BY <1>3, <1>4, <1>5, <1>6, <1>7, CountFrame, Zenon

(* Initially nothing is counted,                                           *)
LEMMA InitCount == Init => CountInv
<1> SUFFICES ASSUME Init PROVE CountInv
  BY Zenon
<1>1. Table = {} /\ Counting = {} /\ LeavingTotal = 0 /\ total_inflight = 0
  BY Zenon DEF Init, Table, Counting, LeavingTotal
<1>2. \A s \in Sessions : /\ Registered(s) = {} /\ Uncounted(s) = {}
                          /\ Leaving(s) = 0 /\ inflight[s] = 0
  BY CmdPathAssumption, Zenon DEF Init, Registered, Uncounted, Leaving
<1> QED
  BY <1>1, <1>2, FS_EmptySet, Zenon DEF CountInv

(* and no thread is past the check.                                        *)
LEMMA InitOvershoot == Init => OvershootInv
<1> SUFFICES ASSUME Init PROVE OvershootInv
  BY Zenon
<1>1. Counting = {} /\ total_inflight = 0
  BY Zenon DEF Init, Counting
<1>2. Cardinality(Counting) = 0 /\ Cardinality(Threads) \in Nat
  BY <1>1, FS_EmptySet, FS_CardinalityType, CmdPathAssumption, Zenon
<1> QED
  BY <1>1, <1>2, CmdPathAssumption DEF OvershootInv

(* However many threads race through ioctl(SUBMIT), total_inflight exceeds *)
(* the ring capacity by less than the number of threads.                   *)
THEOREM OvershootBounded == Spec => []AdmissionOvershoot
<1>1. TypeOK /\ OvershootInv /\ [Next]_vars => OvershootInv'
  BY OvershootStep, Zenon
<1>2. TypeOK /\ OvershootInv => AdmissionOvershoot
  <2> SUFFICES ASSUME TypeOK, OvershootInv PROVE AdmissionOvershoot
    BY Zenon
  <2>1. Cardinality(Counting) \in Nat /\ Cardinality(Threads) \in Nat /\ total_inflight \in Int
    BY FS_Subset, FS_CardinalityType, CmdPathAssumption, Zenon DEF Counting, TypeOK
  <2> QED
    BY <2>1, CmdPathAssumption DEF OvershootInv, AdmissionOvershoot
<1> QED
  BY <1>1, <1>2, InitOvershoot, TypeCorrect, PTL DEF Spec

(* With a single thread the hard cap itself holds.                         *)
THEOREM SingleThreadHardCap == ASSUME Cardinality(Threads) = 1 PROVE Spec => []HardCap
<1>1. TypeOK /\ AdmissionOvershoot => HardCap
  BY SMTT(15), CmdPathAssumption DEF TypeOK, AdmissionOvershoot, HardCap
<1> QED
  BY <1>1, OvershootBounded, TypeCorrect, PTL

-----------------------------------------------------------------------------
(* The lifetime of sessions.                                               *)

Releasing(t) == pc[t] \in {"rel_wake", "drain"}

(* A thread inside the driver works on a session that is open, or that it  *)
(* alone is releasing; cmd_table and the handler point to live sessions.   *)
LifeInv ==
  /\ \A t \in Threads : pc[t] # "idle" =>
       /\ t_sess[t] \in Sessions
       /\ sess_state[t_sess[t]] = IF Releasing(t) THEN "releasing" ELSE "open"
  /\ \A t, u \in Threads :
       Releasing(t) /\ pc[u] # "idle" /\ t_sess[u] = t_sess[t] => u = t
  /\ \A c \in Cmds : cmd_table[c] # NoSession => Alive(cmd_table[c])
  /\ isr_pc \in {"push", "dec_sess"} => Alive(isr_owner)

(* A step that lets no thread in and frees no session.                     *)
LEMMA LifeFrame ==
  ASSUME LifeInv,
         UNCHANGED <<sess_state, cmd_table>>,
         \A u \in Threads : pc'[u] # "idle" =>
            pc[u] # "idle" /\ t_sess'[u] = t_sess[u] /\ (Releasing(u)' <=> Releasing(u)),
         isr_pc' \in {"push", "dec_sess"} =>
            isr_pc \in {"push", "dec_sess"} /\ isr_owner' = isr_owner
  PROVE  LifeInv'
<1>1. \A u \in Threads : Releasing(u)' => pc'[u] # "idle"
  BY Zenon DEF Releasing
<1>2. \A s : Alive(s)' <=> Alive(s)
  BY Zenon DEF Alive
<1>3. isr_pc' \in {"push", "dec_sess"} => Alive(isr_owner)'
  BY <1>2, Zenon DEF LifeInv, Alive
<1>4. \A c \in Cmds : cmd_table'[c] # NoSession => Alive(cmd_table[c])'
  BY <1>2, Zenon DEF LifeInv, Alive
<1>5. ASSUME NEW u \in Threads, pc'[u] # "idle"
      PROVE  /\ t_sess'[u] \in Sessions
             /\ sess_state'[t_sess'[u]] = IF Releasing(u)' THEN "releasing" ELSE "open"
  <2>1. /\ pc[u] # "idle" /\ t_sess'[u] = t_sess[u] /\ (Releasing(u)' <=> Releasing(u))
        /\ sess_state' = sess_state
    BY <1>5, Zenon
  <2>2. /\ t_sess[u] \in Sessions
        /\ sess_state[t_sess[u]] = IF Releasing(u) THEN "releasing" ELSE "open"
    BY <2>1, Zenon DEF LifeInv
  <2> QED
    BY <2>1, <2>2, Zenon
<1>6. ASSUME NEW u \in Threads, NEW v \in Threads, Releasing(u)', pc'[v] # "idle",
             t_sess'[v] = t_sess'[u]
      PROVE  v = u
  <2>1. /\ Releasing(u) /\ pc[v] # "idle" /\ t_sess[v] = t_sess[u]
    BY <1>1, <1>6, Zenon
  <2> QED
    BY <2>1, Zenon DEF LifeInv
<1>7. \A c \in Cmds : cmd_table'[c] # NoSession => Alive(cmd_table[c])' /\ cmd_table'[c] = cmd_table[c]
  BY <1>4, Zenon
<1> QED
  BY <1>3, <1>5, <1>6, <1>7 DEF LifeInv, Alive

(* A thread that is not in release() moves on, or returns.                 *)
LEMMA StaysInside ==
  ASSUME TypeOK, NEW t \in Threads, NEW q \in PcValues \ {"rel_wake", "drain"},
         pc' = [pc EXCEPT ![t] = q],
         t_sess' = t_sess \/ (q = "idle" /\ t_sess' = [t_sess EXCEPT ![t] = NoSession]),
         pc[t] # "idle", ~ Releasing(t)
  PROVE  \A u \in Threads : pc'[u] # "idle" =>
           pc[u] # "idle" /\ t_sess'[u] = t_sess[u] /\ (Releasing(u)' <=> Releasing(u))
<1>1. /\ pc'[t] = q
      /\ \A u \in Threads \ {t} : pc'[u] = pc[u] /\ t_sess'[u] = t_sess[u]
  BY ThreadMoves, Zenon
<1> QED
  BY <1>1, Zenon DEF Releasing

(* The steps of LifeFrame.                                                 *)
LEMMA LifeFrameSteps ==
  ASSUME TypeOK, LifeInv, [Next]_vars,
         \A t \in Threads : ~ Admit(t) /\ ~ ReleaseFree(t) /\ ~ UserCall(t),
         ~ IsrRoute
  PROVE  LifeInv'
<1> DEFINE Still == UNCHANGED <<sess_state, cmd_table>>
           Inside == \A u \in Threads : pc'[u] # "idle" =>
             pc[u] # "idle" /\ t_sess'[u] = t_sess[u] /\ (Releasing(u)' <=> Releasing(u))
           Served == isr_pc' \in {"push", "dec_sess"} =>
             isr_pc \in {"push", "dec_sess"} /\ isr_owner' = isr_owner
<1>1. CASE UNCHANGED vars
  <2>1. Still /\ Inside /\ Served
    BY <1>1, Zenon DEF vars, sessVars, routeVars, isrVars, callVars, Releasing
  <2> QED
    BY <2>1, LifeFrame, Zenon
<1>2. CASE \E t \in Threads : KernelStep(t)
  <2> PICK t \in Threads : KernelStep(t)
    BY <1>2, Zenon
  <2>1. Still /\ Served
    BY Zenon DEF KernelStep, ReadQuota, Refuse, WaitQuota, IncSession, IncTotal, PickSlot,
           WriteOperands, WriteCmdId, LoadSqTail, StoreSqTail, Doorbell, ReadOne, ReadRaced,
           PollReady, PollSleep, ReleaseWake, sessVars, routeVars, isrVars
  <2>2. CASE ReadQuota(t) \/ Refuse(t) \/ WaitQuota(t) \/ IncSession(t) \/ IncTotal(t)
    <3>1. /\ pc[t] \in {"quota", "admit", "wait", "inc_sess", "inc_total"}
          /\ \E q \in {"admit", "wait", "quota", "asleep", "inc_total", "index"} :
               pc' = [pc EXCEPT ![t] = q]
          /\ t_sess' = t_sess
      BY <2>2, Zenon DEF ReadQuota, Refuse, WaitQuota, IncSession, IncTotal, Goto, callVars
    <3>2. PICK q \in PcValues \ {"rel_wake", "drain"} :
            /\ pc' = [pc EXCEPT ![t] = q]
            /\ t_sess' = t_sess \/ (q = "idle" /\ t_sess' = [t_sess EXCEPT ![t] = NoSession])
      BY <3>1, Zenon DEF PcValues
    <3>3. pc[t] # "idle" /\ ~ Releasing(t)
      BY <3>1, Zenon DEF Releasing
    <3>4. Inside
      BY <3>2, <3>3, StaysInside, Zenon
    <3> QED
      BY <2>1, <3>4, LifeFrame, ZenonT(30)
  <2>3. CASE PickSlot(t) \/ WriteOperands(t) \/ WriteCmdId(t) \/ LoadSqTail(t)
             \/ StoreSqTail(t) \/ Doorbell(t)
    <3>1. /\ pc[t] \in {"index", "operands", "cmd_id", "load", "store", "doorbell"}
          /\ \/ /\ t_sess' = t_sess
                /\ \E q \in {"operands", "cmd_id", "load", "store", "doorbell"} :
                     pc' = [pc EXCEPT ![t] = q]
             \/ /\ pc' = [pc EXCEPT ![t] = "idle"]
                /\ t_sess' = [t_sess EXCEPT ![t] = NoSession]
      BY <2>3, ZenonT(30) DEF PickSlot, WriteOperands, WriteCmdId, LoadSqTail, StoreSqTail, Doorbell,
                  Return, Goto, callVars
    <3>2. PICK q \in PcValues \ {"rel_wake", "drain"} :
            /\ pc' = [pc EXCEPT ![t] = q]
            /\ t_sess' = t_sess \/ (q = "idle" /\ t_sess' = [t_sess EXCEPT ![t] = NoSession])
      BY <3>1, Zenon DEF PcValues
    <3>3. pc[t] # "idle" /\ ~ Releasing(t)
      BY <3>1, Zenon DEF Releasing
    <3>4. Inside
      BY <3>2, <3>3, StaysInside, Zenon
    <3> QED
      BY <2>1, <3>4, LifeFrame, ZenonT(30)
  <2>4. CASE ReadOne(t) \/ ReadRaced(t) \/ PollReady(t) \/ PollSleep(t)
    <3>1. \/ UNCHANGED <<pc, t_sess>>
          \/ /\ pc[t] \in {"read", "poll"}
             /\ \/ pc' = [pc EXCEPT ![t] = "polling"] /\ t_sess' = t_sess
                \/ /\ pc' = [pc EXCEPT ![t] = "idle"]
                   /\ t_sess' = [t_sess EXCEPT ![t] = NoSession]
      BY <2>4, Zenon DEF ReadOne, ReadRaced, PollReady, PollSleep, Return, Goto, callVars
    <3>2. CASE UNCHANGED <<pc, t_sess>>
      <4>1. Inside
        BY <3>2, Zenon DEF Releasing
      <4> QED
        BY <2>1, <4>1, LifeFrame, ZenonT(30)
    <3>3. CASE ~ UNCHANGED <<pc, t_sess>>
      <4>1. PICK q \in PcValues \ {"rel_wake", "drain"} :
              /\ pc' = [pc EXCEPT ![t] = q]
              /\ t_sess' = t_sess \/ (q = "idle" /\ t_sess' = [t_sess EXCEPT ![t] = NoSession])
        BY <3>1, <3>3, Zenon DEF PcValues
      <4>2. pc[t] # "idle" /\ ~ Releasing(t)
        BY <3>1, <3>3, Zenon DEF Releasing
      <4>3. Inside
        BY <4>1, <4>2, StaysInside, Zenon
      <4> QED
        BY <2>1, <4>3, LifeFrame, ZenonT(30)
    <3> QED
      BY <3>2, <3>3, Zenon
  <2>5. CASE ReleaseWake(t)
    <3>1. Inside
      BY <2>5, Zenon DEF ReleaseWake, QuotaWoken, callVars, Releasing, TypeOK
    <3> QED
      BY <2>1, <3>1, LifeFrame, Zenon
  <2> QED
    BY <2>2, <2>3, <2>4, <2>5, Zenon DEF KernelStep
<1>3. CASE \E t \in Threads : Disturbance(t)
  <2>1. Still /\ Served
    BY <1>3, ZenonT(30) DEF Disturbance, Interrupted, PollTimeout, ReadFault, sessVars, routeVars, isrVars
  <2>2. PICK t \in Threads : /\ pc[t] \in {"asleep", "polling", "read"}
                            /\ pc' = [pc EXCEPT ![t] = "idle"]
                            /\ t_sess' = [t_sess EXCEPT ![t] = NoSession]
    BY <1>3, Zenon DEF Disturbance, Interrupted, PollTimeout, ReadFault, Return, Goto
  <2>3. pc[t] # "idle" /\ ~ Releasing(t) /\ "idle" \in PcValues \ {"rel_wake", "drain"}
    BY <2>2, Zenon DEF Releasing, PcValues
  <2>4. Inside
    BY <2>2, <2>3, StaysInside, Zenon
  <2> QED
    BY <2>1, <2>4, LifeFrame, ZenonT(30)
<1>4. CASE DeviceStep
  <2>1. Still /\ Inside /\ Served
    BY <1>4, Zenon DEF DeviceStep, Dispatch, Complete, sessVars, routeVars, isrVars, callVars, Releasing
  <2> QED
    BY <2>1, LifeFrame, Zenon
<1>5. CASE IsrStep
  <2>1. Still /\ Served
    BY <1>5, Zenon DEF IsrStep, IsrEnter, IsrAck, IsrReadTail, IsrDropUnknown, IsrPush, IsrDecSession,
                IsrDecTotal, IsrWakeQuota, IsrWakeComp, IsrExit, IsrGoto, sessVars, routeVars
  <2>2. Inside
    BY <1>5, Zenon DEF IsrStep, IsrEnter, IsrAck, IsrReadTail, IsrDropUnknown, IsrPush, IsrDecSession,
                IsrDecTotal, IsrWakeQuota, IsrWakeComp, IsrExit, QuotaWoken, callVars, Releasing,
                TypeOK
  <2> QED
    BY <2>1, <2>2, LifeFrame, Zenon
<1> QED
  BY <1>1, <1>2, <1>3, <1>4, <1>5, Zenon DEF Next

(* A call enters on an open session; open() and release() move a session   *)
(* that nobody else is inside.                                             *)
LEMMA CallLife ==
  ASSUME TypeOK, RouteInv, LifeInv, NEW t \in Threads, NEW s \in Sessions,
         Open(t, s) \/ Release(t, s) \/ AllocCmdId(t, s) \/ ReadBegin(t, s) \/ Poll(t, s)
  PROVE  LifeInv'
<1>1. UNCHANGED <<cmd_table, isr_pc, isr_owner>>
  BY Zenon DEF Open, Release, AllocCmdId, ReadBegin, Poll, routeVars, isrVars
<1>2. \A r \in Sessions : Alive(r) => Alive(r)'
  BY Zenon DEF Open, Release, AllocCmdId, ReadBegin, Poll, Enter, sessVars, Alive, TypeOK
<1>3. isr_pc' \in {"push", "dec_sess"} => Alive(isr_owner)'
  <2>1. isr_pc \in {"push", "dec_sess"} => isr_owner \in Sessions /\ Alive(isr_owner)
    BY Zenon DEF RouteInv, Serving, LifeInv
  <2> QED
    BY <1>1, <1>2, <2>1, Zenon DEF Alive
<1>4. \A c \in Cmds : cmd_table'[c] # NoSession => Alive(cmd_table[c])'
  <2>1. \A c \in Cmds : cmd_table[c] # NoSession => cmd_table[c] \in Sessions
    BY Zenon DEF TypeOK
  <2> QED
    BY <1>1, <1>2, <2>1, Zenon DEF LifeInv, Alive
<1>5. CASE Open(t, s)
  <2>1. /\ UNCHANGED <<pc, t_sess>> /\ sess_state[s] = "closed"
        /\ \A r \in Sessions \ {s} : sess_state'[r] = sess_state[r]
    BY <1>5, Zenon DEF Open, callVars, TypeOK
  <2> QED
    BY <1>3, <1>4, <2>1, Zenon DEF LifeInv, Releasing
<1>6. CASE Release(t, s)
  <2>1. /\ pc[t] = "idle" /\ pc' = [pc EXCEPT ![t] = "rel_wake"]
        /\ t_sess' = [t_sess EXCEPT ![t] = s]
        /\ sess_state'[s] = "releasing"
        /\ \A r \in Sessions \ {s} : sess_state'[r] = sess_state[r]
        /\ \A u \in Threads : pc[u] # "idle" => t_sess[u] # s
    BY <1>6, Zenon DEF Release, Enter, Goto, TypeOK
  <2>2. /\ pc'[t] = "rel_wake" /\ t_sess'[t] = s
        /\ \A u \in Threads \ {t} : pc'[u] = pc[u] /\ t_sess'[u] = t_sess[u]
    BY <2>1, ZenonT(30) DEF TypeOK
  <2>3. \A u \in Threads : pc'[u] # "idle" =>
          /\ t_sess'[u] \in Sessions
          /\ sess_state'[t_sess'[u]] = IF Releasing(u)' THEN "releasing" ELSE "open"
    <3> SUFFICES ASSUME NEW u \in Threads, pc'[u] # "idle"
                 PROVE  /\ t_sess'[u] \in Sessions
                        /\ sess_state'[t_sess'[u]] = IF Releasing(u)' THEN "releasing" ELSE "open"
      BY Zenon
    <3>1. CASE u = t
      BY <2>1, <2>2, <3>1, Zenon DEF Releasing
    <3>2. CASE u # t
      <4>1. pc'[u] = pc[u] /\ t_sess'[u] = t_sess[u] /\ pc[u] # "idle"
        BY <2>2, <3>2, Zenon
      <4>2. /\ t_sess[u] \in Sessions \ {s}
            /\ sess_state[t_sess[u]] = IF Releasing(u) THEN "releasing" ELSE "open"
        BY <2>1, <4>1, ZenonT(30) DEF LifeInv
      <4> QED BY <2>1, <4>1, <4>2, Zenon DEF Releasing
    <3> QED BY <3>1, <3>2, Zenon
  <2>4. \A u, v \in Threads :
          Releasing(u)' /\ pc'[v] # "idle" /\ t_sess'[v] = t_sess'[u] => v = u
    <3> SUFFICES ASSUME NEW u \in Threads, NEW v \in Threads, Releasing(u)',
                        pc'[v] # "idle", t_sess'[v] = t_sess'[u], v # u
                 PROVE  FALSE
      BY Zenon
    <3>1. \A w \in Threads \ {t} : pc'[w] # "idle" => t_sess'[w] # s
      BY <2>1, <2>2, Zenon
    <3>2. pc'[u] # "idle"
      BY Zenon DEF Releasing
    <3>3. u # t /\ v # t
      BY <2>2, <3>1, <3>2, Zenon
    <3>4. Releasing(u) /\ pc[v] # "idle" /\ t_sess[v] = t_sess[u]
      BY <2>2, <3>3, Zenon DEF Releasing
    <3> QED
      BY <3>4, Zenon DEF LifeInv
  <2> QED
    BY <1>3, <1>4, <2>3, <2>4, Zenon DEF LifeInv
<1>7. CASE AllocCmdId(t, s) \/ ReadBegin(t, s) \/ Poll(t, s)
  <2>1. /\ pc[t] = "idle" /\ pc' = [pc EXCEPT ![t] = pc'[t]]
        /\ pc'[t] \in {"quota", "read", "poll"}
        /\ t_sess' = [t_sess EXCEPT ![t] = s]
        /\ sess_state' = sess_state /\ sess_state[s] = "open"
    BY <1>7, Zenon DEF AllocCmdId, ReadBegin, Poll, Enter, Goto, TypeOK, sessVars
  <2>2. /\ t_sess'[t] = s
        /\ \A u \in Threads \ {t} : pc'[u] = pc[u] /\ t_sess'[u] = t_sess[u]
    BY <2>1, ZenonT(30) DEF TypeOK
  <2>3. \A u \in Threads : pc'[u] # "idle" =>
          /\ t_sess'[u] \in Sessions
          /\ sess_state'[t_sess'[u]] = IF Releasing(u)' THEN "releasing" ELSE "open"
    <3> SUFFICES ASSUME NEW u \in Threads, pc'[u] # "idle"
                 PROVE  /\ t_sess'[u] \in Sessions
                        /\ sess_state'[t_sess'[u]] = IF Releasing(u)' THEN "releasing" ELSE "open"
      BY Zenon
    <3>1. CASE u = t
      BY <2>1, <2>2, <3>1, Zenon DEF Releasing
    <3>2. CASE u # t
      <4>1. pc'[u] = pc[u] /\ t_sess'[u] = t_sess[u] /\ pc[u] # "idle"
        BY <2>2, <3>2, Zenon
      <4>2. /\ t_sess[u] \in Sessions
            /\ sess_state[t_sess[u]] = IF Releasing(u) THEN "releasing" ELSE "open"
        BY <4>1, Zenon DEF LifeInv
      <4> QED BY <2>1, <4>1, <4>2, Zenon DEF Releasing
    <3> QED BY <3>1, <3>2, Zenon
  <2>4. \A u, v \in Threads :
          Releasing(u)' /\ pc'[v] # "idle" /\ t_sess'[v] = t_sess'[u] => v = u
    <3> SUFFICES ASSUME NEW u \in Threads, NEW v \in Threads, Releasing(u)',
                        pc'[v] # "idle", t_sess'[v] = t_sess'[u], v # u
                 PROVE  FALSE
      BY Zenon
    <3>1. u # t
      BY <2>1, Zenon DEF Releasing
    <3>2. Releasing(u) /\ pc[u] # "idle" /\ sess_state[t_sess[u]] = "releasing"
      BY <2>2, <3>1, Zenon DEF LifeInv, Releasing
    <3>3. v # t
      BY <2>1, <2>2, <3>1, <3>2, ZenonT(30)
    <3>4. pc[v] # "idle" /\ t_sess[v] = t_sess[u]
      BY <2>2, <3>1, <3>3, Zenon
    <3> QED
      BY <3>2, <3>4, Zenon DEF LifeInv
  <2> QED
    BY <1>3, <1>4, <2>3, <2>4, Zenon DEF LifeInv
<1> QED
  BY <1>5, <1>6, <1>7, Zenon

(* A submitter registers its command for a session that is open, and the   *)
(* handler serves one that cmd_table pointed to.                           *)
LEMMA RegisterLife ==
  ASSUME TypeOK, RouteInv, LifeInv, (\E t \in Threads : Admit(t)) \/ IsrRoute PROVE LifeInv'
<1>1. CASE \E t \in Threads : Admit(t)
  <2> PICK t \in Threads : Admit(t)
    BY <1>1, Zenon
  <2>1. /\ pc[t] = "admit" /\ pc' = [pc EXCEPT ![t] = "inc_sess"]
        /\ UNCHANGED <<sess_state, t_sess, isr_pc, isr_owner>>
        /\ cmd_table' = [cmd_table EXCEPT ![t_cmd[t]] = t_sess[t]]
    BY Zenon DEF Admit, Goto, sessVars, callVars, isrVars
  <2>2. \A u \in Threads : /\ pc'[u] # "idle" <=> pc[u] # "idle"
                           /\ Releasing(u)' <=> Releasing(u)
    BY <2>1, Zenon DEF TypeOK, Releasing
  <2>3. Alive(t_sess[t])
    BY <2>1, Zenon DEF LifeInv, Releasing, Alive
  <2>4. \A c \in Cmds : cmd_table'[c] # NoSession => Alive(cmd_table[c])'
    BY <2>1, <2>3, Zenon DEF LifeInv, Alive, TypeOK
  <2>5. isr_pc' \in {"push", "dec_sess"} => Alive(isr_owner)'
    BY <2>1, Zenon DEF LifeInv, Alive
  <2> QED
    BY <2>1, <2>2, <2>4, <2>5, Zenon DEF LifeInv
<1>2. CASE IsrRoute
  <2>1. PICK n \in Cmds :
          /\ cmd_table[n] # NoSession /\ isr_owner' = cmd_table[n]
          /\ cmd_table' = [cmd_table EXCEPT ![n] = NoSession]
    BY ZenonT(30), <1>2 DEF IsrRoute
  <2>2. UNCHANGED <<sess_state, pc, t_sess>>
    BY <1>2, Zenon DEF IsrRoute, sessVars, callVars
  <2>3. Alive(isr_owner)'
    BY <2>1, <2>2, Zenon DEF LifeInv, Alive
  <2>4. \A c \in Cmds : cmd_table'[c] # NoSession => Alive(cmd_table[c])'
    BY <2>1, <2>2, Zenon DEF LifeInv, Alive, TypeOK
  <2> QED
    BY <2>2, <2>3, <2>4, Zenon DEF LifeInv, Releasing
<1> QED
  BY <1>1, <1>2, Zenon

(* release() frees a session only when nothing is registered for it and    *)
(* the handler is not serving it: the drained counter says so, because no  *)
(* submitter is left that could have registered without counting.          *)
LEMMA FreeDrained ==
  ASSUME TypeOK, CountInv, LifeInv, NEW t \in Threads, ReleaseFree(t)
  PROVE  /\ Registered(t_sess[t]) = {}
         /\ ~ (isr_pc \in {"push", "dec_sess"} /\ isr_owner = t_sess[t])
<1>1. pc[t] = "drain" /\ ~ (inflight[t_sess[t]] > 0)
  BY Zenon DEF ReleaseFree, Return, Goto
<1>2. PICK s \in Sessions : s = t_sess[t]
  BY <1>1, Zenon DEF LifeInv
<1>3. Uncounted(s) = {}
  BY <1>1, <1>2, Zenon DEF Uncounted, LifeInv, Releasing
<1>4. Cardinality(Uncounted(s)) = 0
  BY <1>3, FS_EmptySet, Zenon
<1>5. inflight[s] + Cardinality(Uncounted(s)) = Cardinality(Registered(s)) + Leaving(s)
  BY Zenon DEF CountInv
<1>6. /\ inflight[s] \in Int /\ Leaving(s) \in Nat
      /\ IsFiniteSet(Registered(s)) /\ Cardinality(Registered(s)) \in Nat
  BY CountedFinite, ZenonT(30) DEF TypeOK, Leaving
<1>7. Cardinality(Registered(s)) = 0 /\ Leaving(s) = 0
  BY <1>1, <1>2, <1>4, <1>5, <1>6, BalanceEmpty, Zenon
<1>8. Registered(s) = {}
  BY <1>6, <1>7, FS_EmptySet, Zenon
<1>9. ~ (isr_pc \in {"push", "dec_sess"} /\ isr_owner = s)
  BY <1>7 DEF Leaving
<1> QED
  BY <1>2, <1>8, <1>9, Zenon

(* So no pointer to the session it frees is left.                         *)
LEMMA FreeLife ==
  ASSUME TypeOK, RouteInv, CountInv, LifeInv, NEW t \in Threads, ReleaseFree(t) PROVE LifeInv'
<1>1. PICK s \in Sessions : s = t_sess[t]
  BY Zenon DEF ReleaseFree, Return, Goto, LifeInv
<1>2. /\ pc[t] = "drain" /\ pc' = [pc EXCEPT ![t] = "idle"]
      /\ t_sess' = [t_sess EXCEPT ![t] = NoSession]
      /\ sess_state' = [sess_state EXCEPT ![s] = "freed"]
      /\ UNCHANGED <<cmd_table, isr_pc, isr_owner>>
  BY <1>1, Zenon DEF ReleaseFree, Return, Goto, routeVars, isrVars
<1>3. Registered(s) = {} /\ ~ (isr_pc \in {"push", "dec_sess"} /\ isr_owner = s)
  BY <1>1, FreeDrained, Zenon
<1>4. /\ pc'[t] = "idle"
      /\ \A u \in Threads \ {t} : pc'[u] = pc[u] /\ t_sess'[u] = t_sess[u]
      /\ \A r \in Sessions \ {s} : sess_state'[r] = sess_state[r]
  BY <1>2, Zenon DEF TypeOK
<1>5. \A u \in Threads \ {t} : pc[u] # "idle" => t_sess[u] # s
  BY <1>1, <1>2, Zenon DEF LifeInv, Releasing
<1>6. \A r \in Sessions \ {s} : Alive(r) => Alive(r)'
  BY <1>4, ZenonT(30) DEF Alive
<1>7. \A c \in Cmds : cmd_table'[c] # NoSession => Alive(cmd_table[c])'
  <2>1. \A c \in Cmds : cmd_table[c] # NoSession => cmd_table[c] \in Sessions \ {s}
    BY <1>3, Zenon DEF Registered, TypeOK
  <2>2. \A c \in Cmds : cmd_table[c] # NoSession => Alive(cmd_table[c])
    BY Zenon DEF LifeInv
  <2> QED
    BY <1>2, <1>6, <2>1, <2>2, Zenon DEF Alive
<1>8. isr_pc' \in {"push", "dec_sess"} => Alive(isr_owner)'
  <2>1. isr_pc \in {"push", "dec_sess"} => isr_owner \in Sessions \ {s} /\ Alive(isr_owner)
    BY <1>3, ZenonT(30) DEF RouteInv, Serving, LifeInv
  <2> QED
    BY <1>2, <1>6, <2>1, Zenon DEF Alive
<1>9. \A u \in Threads : pc'[u] # "idle" =>
        /\ t_sess'[u] \in Sessions
        /\ sess_state'[t_sess'[u]] = IF Releasing(u)' THEN "releasing" ELSE "open"
  <2> SUFFICES ASSUME NEW u \in Threads, pc'[u] # "idle"
               PROVE  /\ t_sess'[u] \in Sessions
                      /\ sess_state'[t_sess'[u]] = IF Releasing(u)' THEN "releasing" ELSE "open"
    BY Zenon
  <2>1. u # t /\ pc'[u] = pc[u] /\ t_sess'[u] = t_sess[u] /\ pc[u] # "idle"
    BY <1>4, Zenon
  <2>2. /\ t_sess[u] \in Sessions \ {s}
        /\ sess_state[t_sess[u]] = IF Releasing(u) THEN "releasing" ELSE "open"
    BY <1>5, <2>1, Zenon DEF LifeInv
  <2> QED
    BY <1>4, <2>1, <2>2, Zenon DEF Releasing
<1>10. \A u, v \in Threads :
         Releasing(u)' /\ pc'[v] # "idle" /\ t_sess'[v] = t_sess'[u] => v = u
  BY <1>4 DEF LifeInv, Releasing
<1> QED
  BY <1>7, <1>8, <1>9, <1>10, Zenon DEF LifeInv

(* Every step keeps the sessions alive.                                   *)
LEMMA LifeStep ==
  ASSUME TypeOK, RouteInv, CountInv, LifeInv, [Next]_vars PROVE LifeInv'
<1>1. CASE \E t \in Threads : UserCall(t)
  BY <1>1, CallLife, Zenon DEF UserCall
<1>2. CASE (\E t \in Threads : Admit(t)) \/ IsrRoute
  BY <1>2, RegisterLife, Zenon
<1>3. CASE \E t \in Threads : ReleaseFree(t)
  BY <1>3, FreeLife, Zenon
<1> QED
  BY <1>1, <1>2, <1>3, LifeFrameSteps, Zenon

(* Initially nothing is counted and nobody is inside the driver.           *)
LEMMA InitLife == Init => CountInv /\ LifeInv
<1> SUFFICES ASSUME Init PROVE CountInv /\ LifeInv
  BY Zenon
<1>1. LifeInv
  BY Zenon DEF Init, LifeInv, Releasing
<1> QED
  BY <1>1, InitCount, Zenon

(* Counting and lifetime rest on each other: release() trusts the counter, *)
(* and the counter is right because no session goes away under a thread or *)
(* the handler.                                                            *)
THEOREM Lifetime == Spec => [](CountInv /\ LifeInv)
<1>1. LifeInv => \A t \in Threads : pc[t] # "idle" => t_sess[t] \in Sessions
  BY Zenon DEF LifeInv
<1>2. TypeOK /\ RouteInv /\ CountInv /\ LifeInv /\ [Next]_vars => CountInv' /\ LifeInv'
  BY <1>1, CountStep, LifeStep, Zenon
<1> QED
  BY <1>2, InitLife, TypeCorrect, Routing, PTL DEF Spec

(* inflight and total_inflight differ from what cmd_table holds only by    *)
(* the submitters between registering and counting and by the command the  *)
(* handler is retiring, in every interleaving.                             *)
THEOREM CountersInLockstep == Spec => []InflightLockstep
<1>1. TypeOK /\ CountInv => InflightLockstep
  <2> SUFFICES ASSUME TypeOK, CountInv PROVE InflightLockstep
    BY Zenon
  <2>1. ASSUME NEW s \in Sessions
        PROVE  inflight[s] = Cardinality(Registered(s)) - Cardinality(Uncounted(s)) + Leaving(s)
    <3>1. inflight[s] + Cardinality(Uncounted(s)) = Cardinality(Registered(s)) + Leaving(s)
      BY Zenon DEF CountInv
    <3>2. inflight[s] \in Int /\ Leaving(s) \in Int
      BY DEF TypeOK, Leaving
    <3> QED
      BY <3>1, <3>2, CountedFinite
  <2>2. total_inflight = Cardinality(Table) - Cardinality(Counting) + LeavingTotal
    <3>1. total_inflight \in Int /\ LeavingTotal \in Int
      BY DEF TypeOK, LeavingTotal
    <3>2. /\ Cardinality(Table) \in Int /\ Cardinality(Counting) \in Int
          /\ total_inflight + Cardinality(Counting) = Cardinality(Table) + LeavingTotal
      BY CountedFinite DEF CountInv
    <3> QED
      BY <3>1, <3>2
  <2> QED
    BY <2>1, <2>2, Zenon DEF InflightLockstep, Uncounted, Leaving, Table, Counting, LeavingTotal
<1> QED
  BY <1>1, Lifetime, TypeCorrect, PTL

(* release() frees no session that cmd_table, the handler's push or        *)
(* decrement, or a thread inside the driver still points to.               *)
THEOREM SessionsOutliveUses == Spec => []NoDanglingSession
<1>1. LifeInv => NoDanglingSession
  BY Zenon DEF LifeInv, NoDanglingSession, Alive
<1> QED
  BY <1>1, Lifetime, PTL
=============================================================================
