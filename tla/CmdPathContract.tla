-------------------------- MODULE CmdPathContract --------------------------
(***************************************************************************)
(* What CmdPath promises, from the invariants of CmdPathRouting: the       *)
(* contract of an open file for any number of threads, sessions and        *)
(* commands and any ring sizes; and, when one thread drives the driver,    *)
(* that the SQ and CQ rings hold whole descriptors and completions.        *)
(***************************************************************************)
EXTENDS CmdPathRouting

-----------------------------------------------------------------------------
(* The refinement.  What leaves the submitters waiting for admission, and  *)
(* what leaves the commands that are outstanding, as they are.             *)
LEMMA SameWaiting ==
  ASSUME \A u \in Threads : /\ Holding(u)' <=> Holding(u)
                            /\ Holding(u) => t_cmd'[u] = t_cmd[u] /\ t_sess'[u] = t_sess[u]
  PROVE  \A s : Waiting(s)' = Waiting(s)
BY Zenon DEF Waiting, Holding

(* Registered commands and the one the handler has yet to push.            *)
LEMMA SameOutstanding ==
  ASSUME cmd_table' = cmd_table, isr_pc' = "push" <=> isr_pc = "push",
         isr_pc = "push" => UNCHANGED <<isr_comp, isr_owner>>
  PROVE  \A s : Outstanding(s)' = Outstanding(s)
BY Zenon DEF Outstanding, Registered

(* Such steps do not show in the contract.                                 *)
LEMMA Stutter ==
  ASSUME UNCHANGED <<sess_state, next_cmd_id, comp_ring, reaped>>,
         \A s : Waiting(s)' = Waiting(s), \A s : Outstanding(s)' = Outstanding(s)
  PROVE  UNCHANGED Contract!vars
BY Zenon DEF Contract!vars

(* A thread moves on and keeps what it holds, or holds nothing.            *)
LEMMA SameHeld ==
  ASSUME TypeOK, NEW t \in Threads, NEW q, pc' = [pc EXCEPT ![t] = q],
         \/ UNCHANGED <<t_cmd, t_sess>> /\ Holding(t) /\ q \in {"quota", "admit", "wait", "asleep"}
         \/ /\ ~ Holding(t) /\ q \notin {"quota", "admit", "wait", "asleep"}
            /\ t_cmd' = t_cmd \/ t_cmd' = [t_cmd EXCEPT ![t] = 0]
            /\ t_sess' = t_sess \/ t_sess' = [t_sess EXCEPT ![t] = NoSession]
  PROVE  \A u \in Threads : /\ Holding(u)' <=> Holding(u)
                            /\ Holding(u) => t_cmd'[u] = t_cmd[u] /\ t_sess'[u] = t_sess[u]
<1>1. /\ pc'[t] = q
      /\ \A u \in Threads \ {t} : pc'[u] = pc[u] /\ t_sess'[u] = t_sess[u]
  BY ThreadMoves, Zenon
<1>2. \A u \in Threads \ {t} : t_cmd'[u] = t_cmd[u]
  BY Zenon DEF TypeOK
<1> QED
  BY <1>1, <1>2, Zenon DEF Holding

(* The steps that the user of a file cannot see.                           *)
LEMMA HiddenSteps ==
  ASSUME TypeOK, [Next]_vars,
         \A t \in Threads :
           /\ ~ Admit(t) /\ ~ Interrupted(t) /\ ~ ReadOne(t) /\ ~ ReadFault(t) /\ ~ ReleaseFree(t)
           /\ \A s \in Sessions : ~ Open(t, s) /\ ~ Release(t, s) /\ ~ AllocCmdId(t, s),
         ~ IsrRoute, ~ IsrPush
  PROVE  UNCHANGED Contract!vars
<1> DEFINE Still == UNCHANGED <<sess_state, next_cmd_id, comp_ring, reaped>>
           Held == \A u \in Threads :
                     /\ Holding(u)' <=> Holding(u)
                     /\ Holding(u) => t_cmd'[u] = t_cmd[u] /\ t_sess'[u] = t_sess[u]
           Served == /\ cmd_table' = cmd_table /\ (isr_pc' = "push" <=> isr_pc = "push")
                     /\ isr_pc = "push" => UNCHANGED <<isr_comp, isr_owner>>
<1> SUFFICES Still /\ Held /\ Served
  BY Stutter, SameWaiting, SameOutstanding, Zenon
<1> USE DEF sessVars, compVars, routeVars, isrVars, callVars
<1>1. CASE UNCHANGED vars
  BY ZenonT(30), <1>1 DEF vars, Holding
<1>2. ASSUME NEW t \in Threads, NEW s \in Sessions, ReadBegin(t, s) \/ Poll(t, s)
      PROVE  Still /\ Held /\ Served
  BY ZenonT(30), <1>2 DEF ReadBegin, Poll, Enter, Goto, Holding, TypeOK
<1>3. ASSUME NEW t \in Threads, KernelStep(t) PROVE Still /\ Held /\ Served
  <2>1. Still /\ Served
    BY ZenonT(30), <1>3 DEF KernelStep, ReadQuota, Refuse, WaitQuota, IncSession, IncTotal, PickSlot,
           WriteOperands, WriteCmdId, LoadSqTail, StoreSqTail, Doorbell, ReadRaced,
           PollReady, PollSleep, ReleaseWake
  <2>2. CASE ReadQuota(t) \/ Refuse(t) \/ WaitQuota(t) \/ IncSession(t) \/ IncTotal(t)
    <3>1. /\ UNCHANGED <<t_cmd, t_sess>>
          /\ \/ /\ pc[t] \in {"quota", "admit", "wait"}
                /\ \E q \in {"quota", "admit", "wait", "asleep"} : pc' = [pc EXCEPT ![t] = q]
             \/ /\ pc[t] \in {"inc_sess", "inc_total"}
                /\ \E q \in {"inc_total", "index"} : pc' = [pc EXCEPT ![t] = q]
      BY <2>2, ZenonT(30) DEF ReadQuota, Refuse, WaitQuota, IncSession, IncTotal, Goto
    <3>2. Held
      <4>1. CASE pc[t] \in {"quota", "admit", "wait"}
        <5>1. Holding(t) /\ \E q \in {"quota", "admit", "wait", "asleep"} : pc' = [pc EXCEPT ![t] = q]
          BY <3>1, <4>1, Zenon DEF Holding
        <5> QED
          BY <3>1, <5>1, SameHeld, Zenon
      <4>2. CASE pc[t] \in {"inc_sess", "inc_total"}
        <5>1. /\ ~ Holding(t)
              /\ \E q : /\ q \notin {"quota", "admit", "wait", "asleep"}
                       /\ pc' = [pc EXCEPT ![t] = q]
          BY <3>1, <4>2, Zenon DEF Holding
        <5> QED
          BY <3>1, <5>1, SameHeld, Zenon
      <4> QED
        BY <3>1, <4>1, <4>2, Zenon
    <3> QED
      BY <2>1, <3>2, Zenon
  <2>3. CASE PickSlot(t) \/ WriteOperands(t) \/ WriteCmdId(t) \/ LoadSqTail(t)
             \/ StoreSqTail(t) \/ Doorbell(t)
    <3>1. /\ pc[t] \in {"index", "operands", "cmd_id", "load", "store", "doorbell"}
          /\ \/ /\ UNCHANGED <<t_cmd, t_sess>>
                /\ \E q \in {"operands", "cmd_id", "load", "store", "doorbell"} :
                     pc' = [pc EXCEPT ![t] = q]
             \/ /\ pc' = [pc EXCEPT ![t] = "idle"] /\ t_cmd' = [t_cmd EXCEPT ![t] = 0]
                /\ t_sess' = [t_sess EXCEPT ![t] = NoSession]
      BY <2>3, ZenonT(30) DEF PickSlot, WriteOperands, WriteCmdId, LoadSqTail, StoreSqTail, Doorbell,
                  Return, Goto
    <3>2. /\ ~ Holding(t)
          /\ \E q : q \notin {"quota", "admit", "wait", "asleep"} /\ pc' = [pc EXCEPT ![t] = q]
          /\ t_cmd' = t_cmd \/ t_cmd' = [t_cmd EXCEPT ![t] = 0]
          /\ t_sess' = t_sess \/ t_sess' = [t_sess EXCEPT ![t] = NoSession]
      BY <3>1, Zenon DEF Holding
    <3>3. Held
      BY <3>2, SameHeld, Zenon
    <3> QED
      BY <2>1, <3>3, Zenon
  <2>4. CASE ReadRaced(t) \/ PollReady(t) \/ PollSleep(t) \/ ReleaseWake(t)
    BY ZenonT(30), <2>1, <2>4 DEF ReadRaced, PollReady, PollSleep, ReleaseWake, QuotaWoken, Return,
       Goto,
                      Holding, TypeOK
  <2> QED
    BY ZenonT(30), <1>3, <2>2, <2>3, <2>4 DEF KernelStep
<1>4. ASSUME NEW t \in Threads, PollTimeout(t) PROVE Still /\ Held /\ Served
  BY <1>4, Zenon DEF PollTimeout, Return, Goto, Holding, TypeOK
<1>5. CASE DeviceStep
  BY ZenonT(30), <1>5 DEF DeviceStep, Dispatch, Complete, Holding
<1>6. CASE IsrStep
  <2>1. Still /\ Served
    BY ZenonT(30), <1>6 DEF IsrStep, IsrEnter, IsrAck, IsrReadTail, IsrDropUnknown, IsrDecSession,
                IsrDecTotal, IsrWakeQuota, IsrWakeComp, IsrExit, IsrGoto
  <2>2. Held
    BY ZenonT(30), <1>6 DEF IsrStep, IsrEnter, IsrAck, IsrReadTail, IsrDropUnknown, IsrDecSession,
                IsrDecTotal, IsrWakeQuota, IsrWakeComp, IsrExit, QuotaWoken, Holding, TypeOK
  <2> QED
    BY ZenonT(30), <2>1, <2>2
<1> QED
  BY ZenonT(30), <1>1, <1>2, <1>3, <1>4, <1>5, <1>6 DEF Next, UserCall, Disturbance

(* open(), release() and the drawing of a cmd_id.                          *)
LEMMA CallContract ==
  ASSUME TypeOK, NEW t \in Threads, NEW s \in Sessions,
         Open(t, s) \/ Release(t, s) \/ AllocCmdId(t, s)
  PROVE  Contract!Next
<1>1. \A r : Outstanding(r)' = Outstanding(r)
  <2>1. UNCHANGED <<cmd_table, isr_pc, isr_comp, isr_owner>>
    BY Zenon DEF Open, Release, AllocCmdId, routeVars, isrVars
  <2> QED
    BY <2>1, SameOutstanding, Zenon
<1>2. CASE Open(t, s)
  <2>1. \A r : Waiting(r)' = Waiting(r)
    BY ZenonT(30), <1>2, SameWaiting DEF Open, callVars, Holding
  <2>2. Contract!Open(s)
    BY <1>1, <1>2, <2>1, Zenon DEF Open, compVars, routeVars, Contract!Open
  <2> QED
    BY <2>2, Zenon DEF Contract!Next
<1>3. CASE Release(t, s)
  <2>1. \A r : Waiting(r)' = Waiting(r)
    BY ZenonT(30), <1>3, SameWaiting DEF Release, Enter, Goto, Holding, TypeOK
  <2>2. Waiting(s) = {}
    BY ZenonT(30), <1>3 DEF Release, Waiting
  <2>3. Contract!Close(s)
    BY <1>1, <1>3, <2>1, <2>2, Zenon DEF Release, Enter, compVars, routeVars, Contract!Close
  <2> QED
    BY <2>3, Zenon DEF Contract!Next
<1>4. CASE AllocCmdId(t, s)
  <2>1. /\ pc[t] = "idle" /\ pc'[t] = "quota" /\ t_sess'[t] = s /\ t_cmd'[t] = next_cmd_id + 1
        /\ \A u \in Threads \ {t} :
             pc'[u] = pc[u] /\ t_sess'[u] = t_sess[u] /\ t_cmd'[u] = t_cmd[u]
    BY ZenonT(30), <1>4 DEF AllocCmdId, Enter, Goto, TypeOK
  <2>2. Waiting(s)' = Waiting(s) \cup {next_cmd_id + 1}
    BY ZenonT(30), <2>1 DEF Waiting
  <2>3. \A r \in Sessions \ {s} : Waiting(r)' = Waiting(r)
    BY <2>1, ZenonT(30) DEF Waiting
  <2>4. Contract!Number(s)
    BY ZenonT(30), <1>1, <1>4, <2>2, <2>3 DEF AllocCmdId, Enter, sessVars, compVars, Contract!Number
  <2> QED
    BY <2>4, Zenon DEF Contract!Next
<1> QED
  BY <1>2, <1>3, <1>4, Zenon

(* A submitter stops waiting: admitted, or interrupted by a signal.  No    *)
(* other thread holds its cmd_id, so the number leaves the waiting set.    *)
LEMMA EndOfWait ==
  ASSUME TypeOK, RouteInv, NEW t \in Threads, NEW s \in Sessions, NEW n,
         Holding(t), t_sess[t] = s, t_cmd[t] = n, ~ Holding(t)',
         \A u \in Threads \ {t} :
            pc'[u] = pc[u] /\ t_sess'[u] = t_sess[u] /\ t_cmd'[u] = t_cmd[u]
  PROVE  /\ n \in Waiting(s) /\ Waiting(s)' = Waiting(s) \ {n}
         /\ \A r \in Sessions \ {s} : Waiting(r)' = Waiting(r)
<1>1. \A u \in Threads : Holding(u) /\ t_cmd[u] = n => u = t
  BY Zenon DEF RouteInv
<1>2. n \in Waiting(s)
  BY Zenon DEF Waiting, Holding
<1>3. Waiting(s)' = Waiting(s) \ {n}
  BY <1>1 DEF Waiting, Holding
<1>4. \A r \in Sessions \ {s} : Waiting(r)' = Waiting(r)
  BY Zenon DEF Waiting, Holding
<1> QED
  BY ZenonT(30), <1>2, <1>3, <1>4

(* Admission accepts the number, and a signal gives it up.                 *)
LEMMA WaitContract ==
  ASSUME TypeOK, RouteInv, LifeInv, NEW t \in Threads, Admit(t) \/ Interrupted(t)
  PROVE  Contract!Next
<1>1. Holding(t)
  BY Zenon DEF Admit, Interrupted, Return, Goto, Holding
<1>2. PICK s \in Sessions, n \in Cmds : s = t_sess[t] /\ n = t_cmd[t]
  BY <1>1, Zenon DEF RouteInv
<1>3. /\ ~ Holding(t)' /\ sess_state[s] = "open"
      /\ \A u \in Threads \ {t} :
           pc'[u] = pc[u] /\ t_sess'[u] = t_sess[u] /\ t_cmd'[u] = t_cmd[u]
      /\ UNCHANGED <<sess_state, next_cmd_id, comp_ring, reaped, isr_pc, isr_comp, isr_owner>>
  <2>1. pc[t] \in {"admit", "asleep"}
    BY Zenon DEF Admit, Interrupted, Return, Goto
  <2>2. sess_state[s] = "open"
    BY ZenonT(30), <1>2, <2>1 DEF LifeInv, Releasing
  <2> QED
    BY <2>2, Zenon DEF Admit, Interrupted, Return, Goto, Holding, TypeOK, sessVars, routeVars, compVars,
                callVars, isrVars
<1>4. /\ n \in Waiting(s) /\ Waiting(s)' = Waiting(s) \ {n}
      /\ \A r \in Sessions \ {s} : Waiting(r)' = Waiting(r)
  BY ZenonT(30), <1>1, <1>2, <1>3, EndOfWait
<1>5. CASE Admit(t)
  <2>1. cmd_table' = [cmd_table EXCEPT ![n] = s] /\ cmd_table[n] = NoSession
    BY ZenonT(30), <1>1, <1>2, <1>5 DEF Admit, RouteInv, Fresh
  <2>2. cmd_table'[n] = s /\ \A c \in Cmds \ {n} : cmd_table'[c] = cmd_table[c]
    BY <2>1, Zenon DEF TypeOK
  <2>3. Registered(s)' = Registered(s) \cup {n}
    BY <2>2, Zenon DEF Registered
  <2>4. ASSUME NEW r \in Sessions \ {s} PROVE Registered(r)' = Registered(r)
    <3>1. \A c \in Cmds : cmd_table'[c] = r <=> cmd_table[c] = r
      BY <2>1, <2>2, CmdPathAssumption, Zenon
    <3> QED
      BY <3>1, Zenon DEF Registered
  <2>5. /\ Outstanding(s)' = Outstanding(s) \cup {n}
        /\ \A r \in Sessions \ {s} : Outstanding(r)' = Outstanding(r)
    BY <1>3, <2>3, <2>4, Zenon DEF Outstanding
  <2>6. Contract!Accept(s, n)
    BY ZenonT(30), <1>3, <1>4, <2>5 DEF Contract!Accept
  <2> QED
    BY <1>4, <2>6, Zenon DEF Contract!Next
<1>6. CASE Interrupted(t)
  <2>1. \A r : Outstanding(r)' = Outstanding(r)
    BY <1>3, <1>6, SameOutstanding, Zenon DEF Interrupted, routeVars
  <2>2. Contract!GiveUp(s, n)
    BY ZenonT(30), <1>3, <1>4, <2>1 DEF Contract!GiveUp
  <2> QED
    BY <1>4, <2>2, Zenon DEF Contract!Next
<1> QED
  BY <1>5, <1>6, Zenon

(* release() ends: nothing the session submitted is outstanding.           *)
LEMMA FreeContract ==
  ASSUME TypeOK, CountInv, LifeInv, NEW t \in Threads, ReleaseFree(t) PROVE Contract!Next
<1>1. PICK s \in Sessions : s = t_sess[t] /\ sess_state[s] = "releasing"
  BY Zenon DEF ReleaseFree, Return, Goto, LifeInv, Releasing
<1>2. /\ sess_state' = [sess_state EXCEPT ![s] = "freed"]
      /\ UNCHANGED <<next_cmd_id, cmd_table, comp_ring, reaped, isr_pc, isr_comp, isr_owner>>
  BY <1>1, Zenon DEF ReleaseFree, routeVars, compVars, isrVars
<1>3. Outstanding(s) = {}
  BY <1>1, FreeDrained, Zenon DEF Outstanding
<1>4. \A r : Outstanding(r)' = Outstanding(r)
  BY <1>2, SameOutstanding, Zenon
<1>5. \A r : Waiting(r)' = Waiting(r)
  BY SameWaiting, Zenon DEF ReleaseFree, Return, Goto, Holding, TypeOK
<1>6. Contract!Free(s)
  BY <1>1, <1>2, <1>3, <1>4, <1>5, Zenon DEF Contract!Free
<1> QED
  BY <1>6, Zenon DEF Contract!Next

(* Taking a completion out of cmd_table keeps it outstanding; putting it   *)
(* in the owner's ring finishes it.                                        *)
LEMMA IsrContract ==
  ASSUME TypeOK, RouteInv, LifeInv, IsrRoute \/ IsrPush PROVE [Contract!Next]_Contract!vars
<1>1. \A r : Waiting(r)' = Waiting(r)
  BY SameWaiting, Zenon DEF IsrRoute, IsrPush, Holding, callVars
<1>2. CASE IsrRoute
  <2>1. PICK n \in Cmds, o \in Sessions :
          /\ o = cmd_table[n] /\ cmd_table' = [cmd_table EXCEPT ![n] = NoSession]
          /\ isr_pc = "loop" /\ isr_pc' = "push" /\ isr_owner' = o /\ isr_comp' = n
    BY <1>2, Zenon DEF IsrRoute, IsrGoto, TypeOK
  <2>2. /\ cmd_table[n] = o /\ o # NoSession /\ cmd_table'[n] = NoSession
        /\ \A c \in Cmds \ {n} : cmd_table'[c] = cmd_table[c]
    BY <2>1, CmdPathAssumption, Zenon DEF TypeOK
  <2>3. \A r \in Sessions : Outstanding(r)' = Outstanding(r)
    BY <2>1, <2>2, CmdPathAssumption, Zenon DEF Outstanding, Registered
  <2>4. UNCHANGED <<sess_state, next_cmd_id, comp_ring, reaped>>
    BY <1>2, Zenon DEF IsrRoute, sessVars, compVars
  <2> QED
    BY <1>1, <2>3, <2>4, Zenon DEF Contract!vars
<1>3. CASE IsrPush
  <2>1. PICK n \in Cmds, o \in Sessions :
          /\ n = isr_comp /\ o = isr_owner /\ isr_pc = "push" /\ isr_pc' = "dec_sess"
          /\ cmd_table[n] = NoSession /\ cmd_table' = cmd_table
    BY <1>3, Zenon DEF IsrPush, IsrGoto, RouteInv, Serving, routeVars
  <2>2. Alive(o)
    BY <2>1, Zenon DEF LifeInv
  <2>3. n \in Outstanding(o) /\ Outstanding(o)' = Outstanding(o) \ {n}
    BY <2>1, CmdPathAssumption, Zenon DEF Outstanding, Registered
  <2>4. \A r \in Sessions \ {o} : Outstanding(r)' = Outstanding(r)
    BY <2>1, Zenon DEF Outstanding, Registered
  <2>5. Contract!Finish(o, n)
    BY <1>1, <1>3, <2>1, <2>2, <2>3, <2>4, Zenon
       DEF IsrPush, Alive, sessVars, routeVars, TypeOK, Contract!Finish
  <2> QED
    BY <2>3, <2>5, Zenon DEF Contract!Next
<1> QED
  BY <1>2, <1>3, Zenon

(* read() pops the oldest completion of its own session.                   *)
LEMMA ReadContract ==
  ASSUME TypeOK, LifeInv, NEW t \in Threads, ReadOne(t) \/ ReadFault(t) PROVE Contract!Next
<1>1. PICK s \in Sessions : s = t_sess[t] /\ sess_state[s] = "open"
  BY ZenonT(30) DEF ReadOne, ReadFault, Return, Goto, LifeInv, Releasing
<1>2. \A r : Waiting(r)' = Waiting(r)
  <2>1. \A u \in Threads : /\ Holding(u)' <=> Holding(u)
                           /\ Holding(u) => t_cmd'[u] = t_cmd[u] /\ t_sess'[u] = t_sess[u]
    BY Zenon DEF ReadOne, ReadFault, Return, Goto, Holding, TypeOK
  <2> QED
    BY <2>1, SameWaiting, Zenon
<1>3. \A r : Outstanding(r)' = Outstanding(r)
  BY SameOutstanding, Zenon DEF ReadOne, ReadFault, routeVars, isrVars
<1>4. CASE ReadOne(t)
  <2>1. Contract!Read(s)
    BY <1>1, <1>2, <1>3, <1>4, Zenon DEF ReadOne, sessVars, routeVars, Contract!Read
  <2> QED
    BY <2>1, Zenon DEF Contract!Next
<1>5. CASE ReadFault(t)
  <2>1. Contract!ReadFault(s)
    BY <1>1, <1>2, <1>3, <1>5, Zenon DEF ReadFault, sessVars, routeVars, Contract!ReadFault
  <2> QED
    BY <2>1, Zenon DEF Contract!Next
<1> QED
  BY <1>4, <1>5, Zenon

(* The driver implements Session: for any number of threads, sessions and  *)
(* commands and any ring sizes, each file's commands are numbered,         *)
(* accepted, completed and read as its contract says.                      *)
THEOREM DriverKeepsContract == Spec => SessionContract
<1>1. Init => Contract!Init
  <2> SUFFICES ASSUME Init PROVE Contract!Init
    BY Zenon
  <2>1. \A s \in Sessions : Waiting(s) = {} /\ Outstanding(s) = {}
    BY CmdPathAssumption, Zenon DEF Init, Waiting, Outstanding, Registered
  <2> QED
    BY <2>1, Zenon DEF Init, Contract!Init
<1>2. TypeOK /\ RouteInv /\ CountInv /\ LifeInv /\ [Next]_vars => [Contract!Next]_Contract!vars
  <2> SUFFICES ASSUME TypeOK, RouteInv, CountInv, LifeInv, [Next]_vars
               PROVE  [Contract!Next]_Contract!vars
    BY Zenon
  <2>1. CASE \E t \in Threads : Admit(t) \/ Interrupted(t)
    BY <2>1, WaitContract, Zenon
  <2>2. CASE \E t \in Threads : ReadOne(t) \/ ReadFault(t)
    BY <2>2, ReadContract, Zenon
  <2>3. CASE \E t \in Threads : ReleaseFree(t)
    BY <2>3, FreeContract, Zenon
  <2>4. CASE \E t \in Threads, s \in Sessions : Open(t, s) \/ Release(t, s) \/ AllocCmdId(t, s)
    BY <2>4, CallContract, Zenon
  <2>5. CASE IsrRoute \/ IsrPush
    BY <2>5, IsrContract, Zenon
  <2> QED
    BY <2>1, <2>2, <2>3, <2>4, <2>5, HiddenSteps, Zenon
<1> QED
  BY <1>1, <1>2, Lifetime, Routing, TypeCorrect, PTL DEF Spec, SessionContract, Contract!Spec

-----------------------------------------------------------------------------
(* The SQ and CQ rings when one thread drives the driver: every registered *)
(* command is in one place, whole, and no slot is refilled before it has   *)
(* been read.                                                              *)

(* The one thread.                                                         *)
Lone == CHOOSE t \in Threads : TRUE

Slot(p) == p % QueueDepth

(* The thread between registering its command and ringing the doorbell.    *)
Submitting ==
  pc[Lone] \in {"inc_sess", "inc_total", "index", "operands", "cmd_id", "load", "store", "doorbell"}

(* The first completion in CQ that the handler has not copied.             *)
CqFirst == IF Serving THEN cq_head + 1 ELSE cq_head

CqPositions == CqFirst..reg_cq_tail - 1

(* The places a registered command can be: with its submitter, in SQ, in   *)
(* the device, in CQ.                                                      *)
OwnCmds == IF Submitting THEN {t_cmd[Lone]} ELSE {}
SqCmds == {sq_buf[Slot(p)].cmd : p \in PendingPositions}
RunCmds == {r.cmd : r \in running}
CqCmds == {cq_buf[Slot(p)] : p \in CqPositions}

(* Every registered command is in one place,                               *)
OnePlace ==
  /\ Table = OwnCmds \cup SqCmds \cup RunCmds \cup CqCmds
  /\ OwnCmds \cap SqCmds = {} /\ OwnCmds \cap RunCmds = {} /\ OwnCmds \cap CqCmds = {}
  /\ SqCmds \cap RunCmds = {} /\ SqCmds \cap CqCmds = {} /\ RunCmds \cap CqCmds = {}

(* and there once.                                                         *)
Once ==
  /\ \A p, q \in PendingPositions : sq_buf[Slot(p)].cmd = sq_buf[Slot(q)].cmd => p = q
  /\ \A r, q \in running : r.cmd = q.cmd => r = q
  /\ \A p, q \in CqPositions : cq_buf[Slot(p)] = cq_buf[Slot(q)] => p = q

(* A descriptor has the operands of its command.                           *)
OwnOperands ==
  /\ \A p \in PendingPositions : sq_buf[Slot(p)].ops = sq_buf[Slot(p)].cmd
  /\ \A r \in running : r.ops = r.cmd

(* The slot the submitter fills is the one behind the doorbell.            *)
Filling ==
  /\ sq_tail = IF pc[Lone] = "doorbell" THEN reg_sq_tail + 1 ELSE reg_sq_tail
  /\ pc[Lone] \in {"operands", "cmd_id"} => t_reg[Lone] = Slot(reg_sq_tail)
  /\ pc[Lone] \in {"store", "doorbell"} => t_reg[Lone] = reg_sq_tail
  /\ pc[Lone] \in {"cmd_id", "load", "store", "doorbell"} =>
       sq_buf[Slot(reg_sq_tail)].ops = t_cmd[Lone]
  /\ pc[Lone] \in {"load", "store", "doorbell"} => sq_buf[Slot(reg_sq_tail)].cmd = t_cmd[Lone]

(* The device is behind the doorbell and ahead of the handler.             *)
Behind ==
  /\ dev_sq_head <= reg_sq_tail /\ CqFirst <= reg_cq_tail
  /\ IsFiniteSet(running) /\ \A r \in running : r.pos < dev_sq_head

Own == IF Submitting THEN 1 ELSE 0

(* As many commands are registered as the places hold.                     *)
Census ==
  Cardinality(Table) =
    (reg_sq_tail - dev_sq_head) + Cardinality(running) + (reg_cq_tail - CqFirst) + Own

RingInv == OnePlace /\ Once /\ OwnOperands /\ Filling /\ Behind /\ Census

-----------------------------------------------------------------------------
(* Positions and slots                                                     *)

(* A position has a slot of the ring.                                      *)
LEMMA SlotType == ASSUME NEW p \in Nat PROVE Slot(p) \in 0..QueueDepth - 1
BY CmdPathAssumption DEF Slot

(* Two multiples of the ring size less than a lap apart are the same.      *)
LEMMA OneLap ==
  ASSUME NEW a \in Nat, NEW b \in Nat, NEW n \in Nat, n < QueueDepth,
         QueueDepth * b = QueueDepth * a + n
  PROVE  n = 0
<1> USE CmdPathAssumption
<1>1. CASE b < a
  <2>1. QueueDepth * (b + 1) <= QueueDepth * a /\ QueueDepth * (b + 1) = QueueDepth * b + QueueDepth
    BY <1>1
  <2> QED
    BY <2>1
<1>2. CASE b > a
  <2>1. QueueDepth * (a + 1) <= QueueDepth * b /\ QueueDepth * (a + 1) = QueueDepth * a + QueueDepth
    BY <1>2
  <2> QED
    BY <2>1
<1>3. CASE b = a
  BY <1>3
<1> QED
  BY SMTT(15), <1>1, <1>2, <1>3

(* Positions less than a lap apart have different slots.                   *)
LEMMA SameSlot ==
  ASSUME NEW p \in Nat, NEW q \in Nat, p <= q, q < p + QueueDepth, Slot(p) = Slot(q)
  PROVE  p = q
<1>0. QueueDepth \in Nat \ {0}
  BY CmdPathAssumption
<1> DEFINE x == QueueDepth * (p \div QueueDepth)
           y == QueueDepth * (q \div QueueDepth)
<1>1. p \div QueueDepth \in Nat /\ q \div QueueDepth \in Nat
  BY <1>0
<1>2. x \in Nat /\ y \in Nat
  BY <1>0, <1>1
<1>3. p = x + Slot(p) /\ q = y + Slot(q) /\ Slot(p) \in Nat
  BY <1>0 DEF Slot
<1> HIDE DEF x, y
<1>4. q - p \in Nat /\ q - p < QueueDepth /\ y = x + (q - p)
  BY <1>0, <1>2, <1>3
<1>5. q - p = 0
  BY <1>1, <1>4, OneLap, Zenon DEF x, y
<1> QED
  BY <1>5

(* One thread is the only one.                                             *)
LEMMA Alone == ASSUME Cardinality(Threads) = 1 PROVE Threads = {Lone} /\ Lone \in Threads
<1>1. PICK t : Threads = {t}
  BY FS_Singleton, CmdPathAssumption, Zenon
<1>2. Lone \in Threads
  BY <1>1, Zenon DEF Lone
<1> QED
  BY <1>1, <1>2, Zenon

-----------------------------------------------------------------------------
(* Room in the rings                                                       *)

(* The state the lemmas below start from.                                  *)
Sound ==
  TypeOK /\ RouteInv /\ CqRange /\ InSession /\ CountInv /\ OvershootInv /\ RingInv

(* With one thread, no more commands are registered than a ring has slots. *)
LEMMA TableCap ==
  ASSUME TypeOK, CountInv, OvershootInv, Cardinality(Threads) = 1
  PROVE  Cardinality(Table) \in Nat /\ Cardinality(Table) <= QueueDepth
<1>1. total_inflight \in Int /\ LeavingTotal \in {0, 1} /\ QueueDepth \in Nat
  BY CmdPathAssumption, Zenon DEF TypeOK, LeavingTotal
<1>2. Cardinality(Table) \in Nat /\ Cardinality(Counting) \in Nat
  BY CountedFinite, Zenon
<1>3. /\ total_inflight + Cardinality(Counting) = Cardinality(Table) + LeavingTotal
      /\ total_inflight + Cardinality(Counting) <= QueueDepth + 1 - 1
  BY Zenon DEF CountInv, OvershootInv
<1> QED
  BY <1>1, <1>2, <1>3

(* The types the rings are made of.                                        *)
LEMMA RingTypes ==
  ASSUME TypeOK, Behind
  PROVE  /\ reg_sq_tail \in Nat /\ dev_sq_head \in Nat /\ sq_tail \in Nat
         /\ reg_cq_tail \in Nat /\ cq_head \in Nat /\ CqFirst \in Nat
         /\ Cardinality(running) \in Nat /\ Own \in {0, 1}
<1>1. /\ reg_sq_tail \in Nat /\ dev_sq_head \in Nat /\ sq_tail \in Nat
      /\ reg_cq_tail \in Nat /\ cq_head \in Nat
  BY Zenon DEF TypeOK
<1>2. CqFirst \in Nat
  BY <1>1 DEF CqFirst
<1>3. Cardinality(running) \in Nat
  BY FS_CardinalityType, Zenon DEF Behind
<1> QED
  BY <1>1, <1>2, <1>3, Zenon DEF Own

(* No place holds more than a ring has slots; there is a slot left in SQ   *)
(* for the submitter and in CQ for a command that runs.                    *)
LEMMA Room ==
  ASSUME Sound, Cardinality(Threads) = 1
  PROVE  /\ reg_sq_tail - dev_sq_head <= QueueDepth /\ reg_cq_tail - CqFirst <= QueueDepth
         /\ Submitting => reg_sq_tail - dev_sq_head < QueueDepth
         /\ running # {} => reg_cq_tail - CqFirst < QueueDepth
<1>1. /\ reg_sq_tail \in Nat /\ dev_sq_head \in Nat /\ reg_cq_tail \in Nat /\ CqFirst \in Nat
      /\ Cardinality(running) \in Nat /\ Own \in {0, 1} /\ (Submitting => Own = 1)
      /\ dev_sq_head <= reg_sq_tail /\ CqFirst <= reg_cq_tail
  BY RingTypes, Zenon DEF Sound, RingInv, Behind, Own
<1>2. running # {} => Cardinality(running) # 0
  BY FS_EmptySet, Zenon DEF Sound, RingInv, Behind
<1>3. PICK n \in Nat : n = Cardinality(Table) /\ n <= QueueDepth
  BY TableCap, Zenon DEF Sound
<1>4. n = (reg_sq_tail - dev_sq_head) + Cardinality(running) + (reg_cq_tail - CqFirst) + Own
  BY <1>3, Zenon DEF Sound, RingInv, Census
<1>5. QueueDepth \in Nat
  BY CmdPathAssumption
<1> QED
  BY <1>1, <1>2, <1>3, <1>4, <1>5

(* The slot the submitter fills is no pending one.                         *)
LEMMA FreeSqSlot ==
  ASSUME Sound, Cardinality(Threads) = 1, Submitting, NEW p \in PendingPositions
  PROVE  Slot(p) # Slot(reg_sq_tail)
<1>1. /\ reg_sq_tail \in Nat /\ dev_sq_head \in Nat /\ QueueDepth \in Nat
      /\ reg_sq_tail - dev_sq_head < QueueDepth
  BY RingTypes, Room, CmdPathAssumption, Zenon DEF Sound, RingInv
<1>2. p \in Nat /\ p < reg_sq_tail /\ p <= reg_sq_tail /\ reg_sq_tail < p + QueueDepth /\ p # reg_sq_tail
  BY <1>1 DEF PendingPositions
<1> QED
  BY <1>1, <1>2, SameSlot, Zenon

(* The slot a completion goes to holds no completion still to be copied.   *)
LEMMA FreeCqSlot ==
  ASSUME Sound, Cardinality(Threads) = 1, running # {}, NEW p \in CqPositions
  PROVE  Slot(p) # Slot(reg_cq_tail)
<1>1. /\ reg_cq_tail \in Nat /\ CqFirst \in Nat /\ QueueDepth \in Nat
      /\ reg_cq_tail - CqFirst < QueueDepth
  BY RingTypes, Room, CmdPathAssumption, Zenon DEF Sound, RingInv
<1>2. p \in Nat /\ p < reg_cq_tail /\ p <= reg_cq_tail /\ reg_cq_tail < p + QueueDepth /\ p # reg_cq_tail
  BY <1>1 DEF CqPositions
<1> QED
  BY <1>1, <1>2, SameSlot, Zenon

-----------------------------------------------------------------------------
(* The steps that do not touch the rings                                   *)

RingQuiet ==
  /\ UNCHANGED <<sq_tail, sq_buf, reg_sq_tail, dev_sq_head, running, reg_cq_tail, cq_buf, cmd_table>>
  /\ CqFirst' = CqFirst
  /\ \/ ~ Submitting /\ ~ Submitting'
     \/ pc'[Lone] = pc[Lone] /\ t_cmd'[Lone] = t_cmd[Lone] /\ t_reg'[Lone] = t_reg[Lone]

(* Such a step keeps every part of the invariant.                          *)
LEMMA QuietKeeps == ASSUME RingInv, RingQuiet PROVE RingInv'
<1> USE DEF RingInv, RingQuiet
<1>1. PendingPositions' = PendingPositions /\ CqPositions' = CqPositions /\ Table' = Table
  BY Zenon DEF PendingPositions, CqPositions, Table
<1>2. OwnCmds' = OwnCmds /\ Own' = Own
  BY Zenon DEF OwnCmds, Own, Submitting
<1>3. SqCmds' = SqCmds /\ RunCmds' = RunCmds /\ CqCmds' = CqCmds
  BY <1>1, Zenon DEF SqCmds, RunCmds, CqCmds
<1>4. OnePlace'
  BY <1>1, <1>2, <1>3, Zenon DEF OnePlace
<1>5. Once' /\ OwnOperands' /\ Behind'
  BY <1>1, ZenonT(30) DEF Once, OwnOperands, Behind
<1>6. Census'
  BY <1>1, <1>2, Zenon DEF Census
<1>7. Filling'
  BY Zenon DEF Filling, Submitting
<1> QED
  BY <1>4, <1>5, <1>6, <1>7, Zenon

LoudThread(t) ==
  \/ Admit(t) \/ IncSession(t) \/ IncTotal(t) \/ PickSlot(t) \/ WriteOperands(t) \/ WriteCmdId(t)
  \/ LoadSqTail(t) \/ StoreSqTail(t) \/ Doorbell(t)

(* A thread's call outside of the submission itself.                       *)
LEMMA QuietThread ==
  ASSUME TypeOK, Lone \in Threads, ~ LoudThread(Lone),
         UserCall(Lone) \/ KernelStep(Lone) \/ Disturbance(Lone)
  PROVE  RingQuiet
<1>0. pc \in [Threads -> PcValues]
  BY Zenon DEF TypeOK
<1>1. /\ UNCHANGED <<sqVars, devVars, isrVars, cmd_table>>
      /\ \/ ~ Submitting /\ ~ Submitting'
         \/ pc'[Lone] = pc[Lone] /\ t_cmd'[Lone] = t_cmd[Lone] /\ t_reg'[Lone] = t_reg[Lone]
  <2>1. CASE \E s \in Sessions : Open(Lone, s)
    BY <2>1, Zenon DEF Open, routeVars, callVars
  <2>2. CASE \E s \in Sessions : Release(Lone, s) \/ AllocCmdId(Lone, s)
    BY <1>0, <2>2, ZenonT(30) DEF Release, AllocCmdId, Enter, Goto, routeVars, Submitting
  <2>3. CASE \E s \in Sessions : ReadBegin(Lone, s) \/ Poll(Lone, s)
    BY <1>0, <2>3, Zenon DEF ReadBegin, Poll, Enter, Goto, routeVars, Submitting
  <2>4. CASE ReadQuota(Lone) \/ Refuse(Lone)
    BY <1>0, <2>4, Zenon DEF ReadQuota, Refuse, Goto, routeVars, Submitting
  <2>5. CASE WaitQuota(Lone)
    BY <1>0, <2>5, Zenon DEF WaitQuota, routeVars, Submitting
  <2>6. CASE ReadOne(Lone)
    BY <1>0, <2>6, Zenon DEF ReadOne, Return, Goto, routeVars, Submitting
  <2>7. CASE ReadRaced(Lone) \/ PollReady(Lone) \/ PollSleep(Lone)
    BY <1>0, <2>7, Zenon DEF ReadRaced, PollReady, PollSleep, Return, Goto, routeVars, Submitting
  <2>8. CASE ReleaseWake(Lone)
    BY <1>0, <2>8, Zenon DEF ReleaseWake, QuotaWoken, routeVars, Submitting
  <2>9. CASE ReleaseFree(Lone)
    BY <1>0, <2>9, Zenon DEF ReleaseFree, Return, Goto, routeVars, Submitting
  <2>10. CASE Disturbance(Lone)
    BY <1>0, <2>10, Zenon DEF Disturbance, Interrupted, PollTimeout, ReadFault, Return, Goto,
                              routeVars, Submitting
  <2> QED
    BY <2>1, <2>2, <2>3, <2>4, <2>5, <2>6, <2>7, <2>8, <2>9, <2>10, ZenonT(30)
    DEF UserCall, KernelStep, LoudThread
<1> QED
  BY <1>1, Zenon DEF RingQuiet, sqVars, devVars, isrVars, CqFirst, Serving

(* The handler between two completions, and between two uses of the one it *)
(* has copied.                                                             *)
LEMMA QuietHandler ==
  ASSUME TypeOK, Lone \in Threads, IsrStep, ~ IsrRoute, ~ IsrDropUnknown
  PROVE  RingQuiet
<1>0. pc \in [Threads -> PcValues]
  BY Zenon DEF TypeOK
<1> DEFINE Same == pc'[Lone] = pc[Lone] /\ t_cmd'[Lone] = t_cmd[Lone] /\ t_reg'[Lone] = t_reg[Lone]
           Rings == UNCHANGED <<sq_tail, sq_buf, reg_sq_tail, dev_sq_head, running, reg_cq_tail,
                                cq_buf, cmd_table>>
<1>1. CASE IsrEnter \/ IsrAck \/ IsrReadTail \/ IsrExit
  <2>1. Rings /\ Same
    BY <1>1, Zenon DEF IsrEnter, IsrAck, IsrReadTail, IsrExit, routeVars, sqVars, devVars, callVars
  <2>2. CqFirst' = CqFirst
    BY <1>1, Zenon DEF IsrEnter, IsrAck, IsrReadTail, IsrExit, IsrGoto, CqFirst, Serving
  <2> QED
    BY <2>1, <2>2, Zenon DEF RingQuiet
<1>2. CASE IsrPush \/ IsrDecSession \/ IsrDecTotal
  <2>1. Rings /\ Same
    BY <1>2, Zenon DEF IsrPush, IsrDecSession, IsrDecTotal, routeVars, sqVars, devVars, callVars
  <2>2. CqFirst' = CqFirst
    BY <1>2, Zenon DEF IsrPush, IsrDecSession, IsrDecTotal, IsrGoto, CqFirst, Serving
  <2> QED
    BY <2>1, <2>2, Zenon DEF RingQuiet
<1>3. CASE IsrWakeQuota
  <2>1. Rings /\ (Same \/ (~ Submitting /\ ~ Submitting'))
    BY <1>0, <1>3, Zenon DEF IsrWakeQuota, QuotaWoken, routeVars, sqVars, devVars, callVars, Submitting
  <2>2. CqFirst' = CqFirst
    BY <1>3, Zenon DEF IsrWakeQuota, IsrGoto, CqFirst, Serving
  <2> QED
    BY <2>1, <2>2, Zenon DEF RingQuiet
<1>4. CASE IsrWakeComp
  <2>1. Rings /\ (Same \/ (~ Submitting /\ ~ Submitting'))
    BY <1>0, <1>4, Zenon DEF IsrWakeComp, routeVars, sqVars, devVars, callVars, Submitting
  <2>2. CqFirst' = CqFirst
    BY <1>4, Zenon DEF IsrWakeComp, IsrGoto, CqFirst, Serving
  <2> QED
    BY <2>1, <2>2, Zenon DEF RingQuiet
<1> QED
  BY <1>1, <1>2, <1>3, <1>4, Zenon DEF IsrStep

-----------------------------------------------------------------------------
(* The submitter                                                           *)

(* A step of the submitter that shows the device nothing: what remains is  *)
(* that it fills the right slot.                                           *)
LEMMA HiddenKeeps ==
  ASSUME RingInv, Submitting, Submitting', t_cmd'[Lone] = t_cmd[Lone], CqFirst' = CqFirst,
         UNCHANGED <<reg_sq_tail, dev_sq_head, running, reg_cq_tail, cq_buf, cmd_table>>,
         \A p \in PendingPositions : sq_buf'[Slot(p)] = sq_buf[Slot(p)],
         Filling'
  PROVE  RingInv'
<1>1. PendingPositions' = PendingPositions /\ CqPositions' = CqPositions /\ Table' = Table
  BY Zenon DEF PendingPositions, CqPositions, Table
<1>2. OwnCmds' = OwnCmds /\ Own' = Own
  BY Zenon DEF OwnCmds, Own
<1>3. SqCmds' = SqCmds /\ RunCmds' = RunCmds /\ CqCmds' = CqCmds
  BY <1>1, Zenon DEF SqCmds, RunCmds, CqCmds
<1>4. OnePlace'
  BY <1>1, <1>2, <1>3, Zenon DEF RingInv, OnePlace
<1>5. Once' /\ OwnOperands' /\ Behind'
  <2>1. \A p \in PendingPositions' : sq_buf'[Slot(p)] = sq_buf[Slot(p)] /\ p \in PendingPositions
    BY <1>1, Zenon
  <2>2. \A p, q \in PendingPositions' : sq_buf'[Slot(p)].cmd = sq_buf'[Slot(q)].cmd => p = q
    BY <2>1, ZenonT(30) DEF RingInv, Once
  <2>3. \A p \in PendingPositions' : sq_buf'[Slot(p)].ops = sq_buf'[Slot(p)].cmd
    BY <2>1, Zenon DEF RingInv, OwnOperands
  <2> QED
    BY <1>1, <2>2, <2>3, ZenonT(30) DEF RingInv, Once, OwnOperands, Behind
<1>6. Census'
  BY <1>1, <1>2, Zenon DEF RingInv, Census
<1> QED
  BY <1>4, <1>5, <1>6, Zenon DEF RingInv

(* The counters, the choice of the slot, and sq_tail++.                    *)
LEMMA TailSteps ==
  ASSUME Sound, Lone \in Threads,
         \/ IncSession(Lone) \/ IncTotal(Lone) \/ PickSlot(Lone)
         \/ LoadSqTail(Lone) \/ StoreSqTail(Lone)
  PROVE  RingInv'
<1>0. pc \in [Threads -> PcValues] /\ t_reg \in [Threads -> Nat] /\ RingInv /\ Filling
  BY Zenon DEF Sound, TypeOK, RingInv
<1>1. /\ Submitting /\ Submitting' /\ t_cmd'[Lone] = t_cmd[Lone] /\ CqFirst' = CqFirst
      /\ UNCHANGED <<reg_sq_tail, dev_sq_head, running, reg_cq_tail, cq_buf, cmd_table, sq_buf>>
  BY <1>0, Zenon DEF IncSession, IncTotal, PickSlot, LoadSqTail, StoreSqTail, Goto, routeVars, sqVars,
                     devVars, callVars, isrVars, Submitting, CqFirst, Serving
<1>2. Filling'
  <2>1. CASE IncSession(Lone) \/ IncTotal(Lone)
    BY <1>0, <1>1, <2>1, Zenon DEF IncSession, IncTotal, Goto, sqVars, callVars, Filling
  <2>2. CASE PickSlot(Lone)
    BY <1>0, <1>1, <2>2, Zenon DEF PickSlot, Goto, sqVars, Filling, Slot
  <2>3. CASE LoadSqTail(Lone)
    BY <1>0, <1>1, <2>3, Zenon DEF LoadSqTail, Goto, sqVars, Filling
  <2>4. CASE StoreSqTail(Lone)
    BY <1>0, <1>1, <2>4, Zenon DEF StoreSqTail, Goto, callVars, Filling
  <2> QED
    BY <2>1, <2>2, <2>3, <2>4, Zenon
<1> QED
  BY <1>0, <1>1, <1>2, HiddenKeeps, Zenon

(* Writing one field of a slot leaves the other field and the other slots. *)
LEMMA OpsWritten ==
  ASSUME NEW S, NEW D, NEW f, f \in [D -> [cmd : S, ops : S]], NEW k \in D, NEW v, NEW g,
         g = [f EXCEPT ![k].ops = v]
  PROVE  g[k].ops = v /\ \A i \in D \ {k} : g[i] = f[i]
OBVIOUS

(* Nor does the store of cmd_id change the operands.                       *)
LEMMA CmdWritten ==
  ASSUME NEW S, NEW D, NEW f, f \in [D -> [cmd : S, ops : S]], NEW k \in D, NEW v, NEW g,
         g = [f EXCEPT ![k].cmd = v]
  PROVE  g[k].cmd = v /\ g[k].ops = f[k].ops /\ \A i \in D \ {k} : g[i] = f[i]
OBVIOUS

(* The descriptor is written field by field, in a slot of its own.         *)
LEMMA WriteSteps ==
  ASSUME Sound, Cardinality(Threads) = 1, Lone \in Threads, WriteOperands(Lone) \/ WriteCmdId(Lone)
  PROVE  RingInv'
<1>0. /\ pc \in [Threads -> PcValues] /\ t_reg \in [Threads -> Nat] /\ RingInv /\ Filling
      /\ sq_buf \in [0..QueueDepth - 1 -> [cmd : CmdOrNone, ops : CmdOrNone]]
      /\ reg_sq_tail \in Nat /\ dev_sq_head \in Nat
  BY Zenon DEF Sound, TypeOK, RingInv
<1> DEFINE k == Slot(reg_sq_tail)
<1>1. /\ Submitting /\ Submitting' /\ t_cmd'[Lone] = t_cmd[Lone] /\ CqFirst' = CqFirst
      /\ UNCHANGED <<reg_sq_tail, dev_sq_head, running, reg_cq_tail, cq_buf, cmd_table>>
      /\ t_reg[Lone] = k
  BY <1>0, Zenon DEF WriteOperands, WriteCmdId, Goto, routeVars, devVars, callVars, isrVars, Submitting,
                     CqFirst, Serving, Filling
<1>2. k \in 0..QueueDepth - 1 /\ sq_buf[k] \in [cmd : CmdOrNone, ops : CmdOrNone]
  BY <1>0, SlotType, Zenon
<1>3. ASSUME NEW p \in PendingPositions PROVE Slot(p) # k /\ Slot(p) \in 0..QueueDepth - 1
  <2>1. p \in Nat
    BY <1>0 DEF PendingPositions
  <2> QED
    BY <1>1, <2>1, FreeSqSlot, SlotType, Zenon
<1> HIDE DEF k
<1>4. /\ \A i \in (0..QueueDepth - 1) \ {k} : sq_buf'[i] = sq_buf[i]
      /\ WriteOperands(Lone) => sq_buf'[k].ops = t_cmd[Lone]
      /\ WriteCmdId(Lone) => sq_buf'[k].ops = sq_buf[k].ops /\ sq_buf'[k].cmd = t_cmd[Lone]
  <2>1. CASE WriteOperands(Lone)
    <3>1. sq_buf' = [sq_buf EXCEPT ![k].ops = t_cmd[Lone]]
      BY <1>1, <2>1, Zenon DEF WriteOperands
    <3>2. sq_buf'[k].ops = t_cmd[Lone] /\ \A i \in (0..QueueDepth - 1) \ {k} : sq_buf'[i] = sq_buf[i]
      BY SMTT(15), <1>0, <1>2, <3>1, OpsWritten
    <3>3. ~ WriteCmdId(Lone)
      BY <2>1, Zenon DEF WriteOperands, WriteCmdId, Goto
    <3> QED
      BY <3>2, <3>3, Zenon
  <2>2. CASE WriteCmdId(Lone)
    <3>1. sq_buf' = [sq_buf EXCEPT ![k].cmd = t_cmd[Lone]]
      BY <1>1, <2>2, Zenon DEF WriteCmdId
    <3>2. /\ sq_buf'[k].cmd = t_cmd[Lone] /\ sq_buf'[k].ops = sq_buf[k].ops
          /\ \A i \in (0..QueueDepth - 1) \ {k} : sq_buf'[i] = sq_buf[i]
      BY SMTT(15), <1>0, <1>2, <3>1, CmdWritten
    <3>3. ~ WriteOperands(Lone)
      BY <2>2, Zenon DEF WriteOperands, WriteCmdId, Goto
    <3> QED
      BY <3>2, <3>3, Zenon
  <2> QED
    BY <2>1, <2>2, Zenon
<1>5. Filling'
  <2>1. CASE WriteOperands(Lone)
    BY <1>0, <1>1, <1>4, <2>1, Zenon DEF WriteOperands, Goto, callVars, Filling, k
  <2>2. CASE WriteCmdId(Lone)
    BY <1>0, <1>1, <1>4, <2>2, Zenon DEF WriteCmdId, Goto, callVars, Filling, k
  <2> QED
    BY <2>1, <2>2, Zenon
<1>6. \A p \in PendingPositions : sq_buf'[Slot(p)] = sq_buf[Slot(p)]
  BY <1>3, <1>4, Zenon
<1> QED
  BY <1>0, <1>1, <1>5, <1>6, HiddenKeeps, Zenon

(* The doorbell hands the command from its submitter to SQ.                *)
LEMMA DoorbellStep ==
  ASSUME Sound, Lone \in Threads, Doorbell(Lone)
  PROVE  RingInv'
<1> DEFINE c == t_cmd[Lone]
           n == reg_sq_tail
           id(p) == sq_buf[Slot(p)].cmd
<1>0. /\ pc \in [Threads -> PcValues] /\ reg_sq_tail \in Nat /\ dev_sq_head \in Nat
      /\ dev_sq_head <= reg_sq_tail
      /\ OnePlace /\ Once /\ OwnOperands /\ Filling /\ Behind /\ Census
  BY Zenon DEF Sound, TypeOK, RingInv, Behind
<1>1. /\ pc[Lone] = "doorbell" /\ Submitting /\ ~ Submitting' /\ pc'[Lone] = "idle"
      /\ UNCHANGED <<sq_tail, sq_buf, dev_sq_head, running, reg_cq_tail, cq_buf, cmd_table>>
      /\ CqFirst' = CqFirst
  BY <1>0, Zenon DEF Doorbell, Return, Goto, routeVars, devVars, isrVars, Submitting, CqFirst, Serving
<1>2. reg_sq_tail' = n + 1 /\ sq_tail = n + 1 /\ id(n) = c /\ sq_buf[Slot(n)].ops = c
  BY <1>0, <1>1, Zenon DEF Doorbell, Filling
<1>3. PendingPositions' = PendingPositions \cup {n} /\ n \notin PendingPositions
  BY <1>0, <1>1, <1>2 DEF PendingPositions
<1>4. CqPositions' = CqPositions /\ Table' = Table
  BY <1>1, Zenon DEF CqPositions, Table
<1>5. OwnCmds = {c} /\ OwnCmds' = {} /\ Own = 1 /\ Own' = 0
  BY <1>1, Zenon DEF OwnCmds, Own
<1>6. SqCmds' = SqCmds \cup {c} /\ RunCmds' = RunCmds /\ CqCmds' = CqCmds
  <2>1. RunCmds' = RunCmds /\ CqCmds' = CqCmds
    BY <1>1, <1>4, Zenon DEF RunCmds, CqCmds
  <2>2. SqCmds' = {id(p) : p \in PendingPositions \cup {n}} /\ SqCmds = {id(p) : p \in PendingPositions}
    BY <1>1, <1>3, Zenon DEF SqCmds
  <2> HIDE DEF id
  <2> QED
    BY <1>2, <2>1, <2>2, Zenon
<1> HIDE DEF c
<1>7. OnePlace'
  BY <1>0, <1>4, <1>5, <1>6, Zenon DEF OnePlace
<1>8. \A p \in PendingPositions : id(p) \in SqCmds /\ id(p) # c
  BY <1>0, <1>5, Zenon DEF SqCmds, OnePlace
<1>9. Once'
  <2>1. \A p, q \in PendingPositions' : id(p) = id(q) => p = q
    BY <1>0, <1>2, <1>3, <1>8, Zenon DEF Once
  <2> QED
    BY <1>0, <1>1, <1>4, <2>1, Zenon DEF Once
<1>10. OwnOperands'
  BY <1>0, <1>1, <1>2, <1>3, Zenon DEF OwnOperands
<1>11. Filling'
  BY <1>1, <1>2, Zenon DEF Filling
<1>12. Behind'
  <2>1. dev_sq_head <= n + 1
    BY <1>0
  <2> QED
    BY <1>0, <1>1, <1>2, <2>1, Zenon DEF Behind
<1>13. Census'
  <2>1. Cardinality(running) \in Nat /\ reg_cq_tail \in Nat /\ CqFirst \in Nat
    BY RingTypes, Zenon DEF Sound, RingInv
  <2>2. /\ (n - dev_sq_head) + Cardinality(running) + (reg_cq_tail - CqFirst) + 1
             = ((n + 1) - dev_sq_head) + Cardinality(running) + (reg_cq_tail - CqFirst) + 0
    BY <1>0, <2>1
  <2>3. Cardinality(Table) = (n - dev_sq_head) + Cardinality(running) + (reg_cq_tail - CqFirst) + 1
    BY <1>0, <1>5, Zenon DEF Census
  <2> QED
    BY <1>1, <1>2, <1>4, <1>5, <2>2, <2>3, Zenon DEF Census
<1> QED
  BY <1>7, <1>9, <1>10, <1>11, <1>12, <1>13, Zenon DEF RingInv

-----------------------------------------------------------------------------
(* The device                                                              *)

(* Fetching a descriptor hands its command from SQ to the device.          *)
LEMMA DispatchStep ==
  ASSUME Sound, Dispatch
  PROVE  RingInv'
<1> DEFINE h == dev_sq_head
           id(p) == sq_buf[Slot(p)].cmd
           c == id(h)
           rec == [pos |-> h, cmd |-> c, ops |-> sq_buf[Slot(h)].ops]
<1>0. /\ reg_sq_tail \in Nat /\ h \in Nat
      /\ OnePlace /\ Once /\ OwnOperands /\ Filling /\ Behind /\ Census
  BY Zenon DEF Sound, TypeOK, RingInv
<1>1. /\ h < reg_sq_tail /\ running' = running \cup {rec} /\ dev_sq_head' = h + 1
      /\ UNCHANGED <<sq_tail, sq_buf, reg_sq_tail, reg_cq_tail, cq_buf, cmd_table, pc, t_cmd, t_reg>>
      /\ CqFirst' = CqFirst
  BY Zenon DEF Dispatch, routeVars, sqVars, callVars, isrVars, CqFirst, Serving, Slot
<1>2. PendingPositions = PendingPositions' \cup {h} /\ h \notin PendingPositions'
  BY <1>0, <1>1 DEF PendingPositions
<1>3. /\ CqPositions' = CqPositions /\ Table' = Table /\ OwnCmds' = OwnCmds /\ Own' = Own
      /\ CqCmds' = CqCmds
  BY <1>1, Zenon DEF CqPositions, Table, OwnCmds, Own, Submitting, CqCmds
<1>4. rec.cmd = c /\ rec.pos = h /\ rec.ops = c
  <2>1. sq_buf[Slot(h)].ops = c
    BY <1>0, <1>2, Zenon DEF OwnOperands
  <2> QED
    BY <2>1
<1>5. /\ SqCmds' = {id(p) : p \in PendingPositions'}
      /\ SqCmds = {id(p) : p \in PendingPositions}
      /\ \A p, q \in PendingPositions : id(p) = id(q) => p = q
  <2>1. SqCmds' = {id(p) : p \in PendingPositions'}
    BY <1>1, Zenon DEF SqCmds
  <2>2. \A p, q \in PendingPositions : id(p) = id(q) => p = q
    BY <1>0, Zenon DEF Once
  <2> QED
    BY <2>1, <2>2, Zenon DEF SqCmds
<1> HIDE DEF rec
<1>6. RunCmds' = RunCmds \cup {c}
  BY <1>1, <1>4, Zenon DEF RunCmds
<1> HIDE DEF id
<1>7. SqCmds = SqCmds' \cup {c} /\ c \notin SqCmds'
  <2>1. \A x : x \in SqCmds <=> \E p \in PendingPositions : x = id(p)
    BY <1>5, Zenon
  <2>2. \A x : x \in SqCmds' <=> \E p \in PendingPositions' : x = id(p)
    BY <1>5, Zenon
  <2>3. \A x : x \in SqCmds <=> x \in SqCmds' \/ x = c
    BY <1>2, <2>1, <2>2, Zenon
  <2>4. c \notin SqCmds'
    BY <1>2, <1>5, <2>2, Zenon
  <2> QED
    BY <2>3, <2>4, Zenon
<1> HIDE DEF c, h
<1>8. c \notin RunCmds /\ c \notin OwnCmds /\ c \notin CqCmds
  BY <1>0, <1>7, Zenon DEF OnePlace
<1>9. OnePlace'
  BY <1>0, <1>3, <1>6, <1>7, <1>8, Zenon DEF OnePlace
<1>10. \A r \in running : r.cmd # c
  BY <1>8, Zenon DEF RunCmds
<1>11. Once'
  <2>1. \A r, q \in running' : r.cmd = q.cmd => r = q
    BY <1>0, <1>1, <1>4, <1>10, Zenon DEF Once
  <2>2. \A p, q \in PendingPositions' : sq_buf'[Slot(p)].cmd = sq_buf'[Slot(q)].cmd => p = q
    BY <1>1, <1>2, <1>5, Zenon DEF id
  <2> QED
    BY <1>0, <1>1, <1>3, <2>1, <2>2, Zenon DEF Once
<1>12. OwnOperands'
  BY <1>0, <1>1, <1>2, <1>4, Zenon DEF OwnOperands
<1>13. Filling'
  BY <1>0, <1>1, Zenon DEF Filling
<1>14. Behind' /\ rec \notin running
  <2>1. h + 1 <= reg_sq_tail /\ h < h + 1 /\ ~ h < h
    BY <1>0, <1>1
  <2>2. \A r \in running : r.pos \in Nat /\ r.pos < h
    BY Zenon DEF Sound, TypeOK, RingInv, Behind, h
  <2>3. \A r \in running : r.pos < h + 1
    BY <1>0, <2>2
  <2>4. IsFiniteSet(running')
    BY <1>0, <1>1, FS_AddElement, Zenon DEF Behind
  <2>5. \A r \in running' : r.pos < h + 1
    BY <1>1, <1>4, <2>1, <2>3, Zenon
  <2>6. rec \notin running
    BY <1>4, <2>1, <2>2, Zenon
  <2> QED
    BY <1>0, <1>1, <2>1, <2>4, <2>5, <2>6, Zenon DEF Behind
<1>15. Census'
  <2>1. Cardinality(running) \in Nat /\ reg_cq_tail \in Nat /\ CqFirst \in Nat /\ Own \in {0, 1}
    BY RingTypes, Zenon DEF Sound, RingInv
  <2>2. Cardinality(running') = Cardinality(running) + 1
    BY <1>0, <1>1, <1>14, FS_AddElement, Zenon DEF Behind
  <2>3. /\ (reg_sq_tail - h) + Cardinality(running) + (reg_cq_tail - CqFirst) + Own
             = (reg_sq_tail - (h + 1)) + (Cardinality(running) + 1) + (reg_cq_tail - CqFirst) + Own
    BY <1>0, <2>1
  <2>4. Cardinality(Table) = (reg_sq_tail - h) + Cardinality(running) + (reg_cq_tail - CqFirst) + Own
    BY <1>0, Zenon DEF Census, h
  <2> QED
    BY <1>1, <1>3, <2>2, <2>3, <2>4, Zenon DEF Census
<1> QED
  BY <1>9, <1>11, <1>12, <1>13, <1>14, <1>15, Zenon DEF RingInv

(* Finishing a command hands it from the device to CQ.                     *)
LEMMA CompleteStep ==
  ASSUME Sound, Cardinality(Threads) = 1, NEW r \in running, Complete(r)
  PROVE  RingInv'
<1> DEFINE n == reg_cq_tail
           c == r.cmd
           entry(p) == cq_buf[Slot(p)]
           entered(p) == cq_buf'[Slot(p)]
<1>0. /\ n \in Nat /\ CqFirst \in Nat /\ CqFirst <= n
      /\ cq_buf \in [0..QueueDepth - 1 -> CmdOrNone]
      /\ OnePlace /\ Once /\ OwnOperands /\ Filling /\ Behind /\ Census
  <2>1. CqFirst \in Nat
    BY RingTypes, Zenon DEF Sound, RingInv
  <2> QED
    BY <2>1, Zenon DEF Sound, TypeOK, RingInv, Behind
<1>1. /\ running' = running \ {r} /\ reg_cq_tail' = n + 1
      /\ cq_buf' = [cq_buf EXCEPT ![Slot(n)] = c]
      /\ UNCHANGED <<sq_tail, sq_buf, reg_sq_tail, dev_sq_head, cmd_table, pc, t_cmd, t_reg>>
      /\ CqFirst' = CqFirst
  BY Zenon DEF Complete, routeVars, sqVars, callVars, isrVars, CqFirst, Serving, Slot
<1>2. CqPositions' = CqPositions \cup {n} /\ n \notin CqPositions
  BY <1>0, <1>1 DEF CqPositions
<1>3. /\ PendingPositions' = PendingPositions /\ Table' = Table /\ OwnCmds' = OwnCmds /\ Own' = Own
      /\ SqCmds' = SqCmds
  BY <1>1, Zenon DEF PendingPositions, Table, OwnCmds, Own, Submitting, SqCmds
<1>4. entered(n) = c /\ \A p \in CqPositions : entered(p) = entry(p)
  <2>1. Slot(n) \in 0..QueueDepth - 1
    BY <1>0, SlotType, Zenon
  <2>2. ASSUME NEW p \in CqPositions PROVE Slot(p) # Slot(n) /\ Slot(p) \in 0..QueueDepth - 1
    <3>1. p \in Nat
      BY <1>0 DEF CqPositions
    <3> QED
      BY <3>1, FreeCqSlot, SlotType, Zenon
  <2> QED
    BY <1>0, <1>1, <2>1, <2>2, Zenon
<1>5. \A x : x \in CqCmds <=> \E p \in CqPositions : x = entry(p)
  BY Zenon DEF CqCmds
<1>6. \A x : x \in CqCmds' <=> \E p \in CqPositions' : x = entered(p)
  BY Zenon DEF CqCmds
<1>7. \A p, q \in CqPositions : entry(p) = entry(q) => p = q
  BY <1>0, Zenon DEF Once
<1> HIDE DEF entry, entered
<1>8. CqCmds' = CqCmds \cup {c}
  <2>1. \A x : x \in CqCmds' <=> x \in CqCmds \/ x = c
    BY <1>2, <1>4, <1>5, <1>6, ZenonT(30)
  <2> QED
    BY <2>1, Zenon
<1>9. \A q \in running : q.cmd = c => q = r
  BY <1>0, Zenon DEF Once
<1>10. RunCmds = RunCmds' \cup {c} /\ c \notin RunCmds'
  <2>1. \A x : x \in RunCmds <=> \E q \in running : x = q.cmd
    BY Zenon DEF RunCmds
  <2>2. \A x : x \in RunCmds' <=> \E q \in running' : x = q.cmd
    BY Zenon DEF RunCmds
  <2>3. \A x : x \in RunCmds <=> x \in RunCmds' \/ x = c
    BY <1>1, <2>1, <2>2, ZenonT(30)
  <2>4. c \notin RunCmds'
    BY <1>1, <1>9, <2>2, Zenon
  <2> QED
    BY <2>3, <2>4, Zenon
<1> HIDE DEF c
<1>11. c \notin CqCmds /\ c \notin OwnCmds /\ c \notin SqCmds
  BY <1>0, <1>10, Zenon DEF OnePlace
<1>12. OnePlace'
  BY <1>0, <1>3, <1>8, <1>10, <1>11, Zenon DEF OnePlace
<1>13. Once'
  <2>1. \A p \in CqPositions : entry(p) # c
    BY <1>5, <1>11, Zenon
  <2>2. ASSUME NEW p \in CqPositions', NEW q \in CqPositions', entered(p) = entered(q)
        PROVE  p = q
    <3>1. CASE p \in CqPositions /\ q \in CqPositions
      BY <1>4, <1>7, <2>2, <3>1, Zenon
    <3>2. CASE p \in CqPositions /\ q = n
      BY <1>4, <2>1, <2>2, <3>2, Zenon
    <3>3. CASE p = n /\ q \in CqPositions
      BY <1>4, <2>1, <2>2, <3>3, Zenon
    <3> QED
      BY <1>2, <3>1, <3>2, <3>3, Zenon
  <2>3. \A p, q \in CqPositions' : cq_buf'[Slot(p)] = cq_buf'[Slot(q)] => p = q
    BY <2>2, Zenon DEF entered
  <2> QED
    BY <1>0, <1>1, <1>3, <2>3, Zenon DEF Once
<1>14. OwnOperands'
  BY <1>0, <1>1, <1>3, Zenon DEF OwnOperands
<1>15. Filling'
  BY <1>0, <1>1, Zenon DEF Filling
<1>16. Behind'
  <2>1. CqFirst <= n + 1
    BY <1>0
  <2>2. IsFiniteSet(running')
    BY <1>0, <1>1, FS_RemoveElement, Zenon DEF Behind
  <2> QED
    BY <1>0, <1>1, <2>1, <2>2, Zenon DEF Behind
<1>17. Census'
  <2>1. /\ Cardinality(running) \in Nat /\ reg_sq_tail \in Nat /\ dev_sq_head \in Nat
        /\ Own \in {0, 1}
    BY RingTypes, Zenon DEF Sound, RingInv
  <2>2. Cardinality(running') = Cardinality(running) - 1
    BY <1>0, <1>1, FS_RemoveElement, Zenon DEF Behind
  <2>3. (reg_sq_tail - dev_sq_head) + Cardinality(running) + (n - CqFirst) + Own
          = (reg_sq_tail - dev_sq_head) + (Cardinality(running) - 1) + ((n + 1) - CqFirst) + Own
    BY <1>0, <2>1
  <2>4. Cardinality(Table) = (reg_sq_tail - dev_sq_head) + Cardinality(running) + (n - CqFirst) + Own
    BY <1>0, Zenon DEF Census
  <2> QED
    BY <1>1, <1>3, <2>2, <2>3, <2>4, Zenon DEF Census
<1> QED
  BY <1>12, <1>13, <1>14, <1>15, <1>16, <1>17, Zenon DEF RingInv

-----------------------------------------------------------------------------
(* The table                                                               *)

(* The next entry of CQ is a registered command.                           *)
LEMMA NextEntry ==
  ASSUME Sound, isr_pc = "loop", cq_head # isr_tail
  PROVE  /\ CqFirst = cq_head /\ cq_head \in CqPositions /\ cq_head < reg_cq_tail
         /\ cq_buf[Slot(cq_head)] \in CqCmds
         /\ cq_buf[Slot(cq_head)] \in Cmds /\ cmd_table[cq_buf[Slot(cq_head)]] # NoSession
<1>0. cq_head \in Nat /\ isr_tail \in Nat /\ reg_cq_tail \in Nat
  BY Zenon DEF Sound, TypeOK
<1>1. CqFirst = cq_head
  BY Zenon DEF CqFirst, Serving
<1>2. cq_head <= isr_tail /\ isr_tail <= reg_cq_tail
  BY Zenon DEF Sound, CqRange
<1>3. cq_head \in CqPositions /\ cq_head < reg_cq_tail
  BY <1>0, <1>1, <1>2 DEF CqPositions
<1>4. cq_buf[Slot(cq_head)] \in CqCmds
  BY <1>3, Zenon DEF CqCmds
<1>5. cq_buf[Slot(cq_head)] \in Table
  BY <1>4, Zenon DEF Sound, RingInv, OnePlace
<1> QED
  BY <1>1, <1>3, <1>4, <1>5, Zenon DEF Table

(* The handler never meets a completion of an unknown command.             *)
LEMMA NoneUnknown == ASSUME Sound PROVE ~ IsrDropUnknown
<1> SUFFICES ASSUME IsrDropUnknown PROVE FALSE
  BY Zenon
<1>1. /\ isr_pc = "loop" /\ cq_head # isr_tail
      /\ cq_buf[Slot(cq_head)] \in Cmds => cmd_table[cq_buf[Slot(cq_head)]] = NoSession
  BY Zenon DEF IsrDropUnknown, IsrGoto, Slot
<1> QED
  BY <1>1, NextEntry, Zenon

(* Routing takes the command out of CQ and out of cmd_table at once.       *)
LEMMA IsrRouteStep ==
  ASSUME Sound, IsrRoute
  PROVE  RingInv'
<1> DEFINE h == cq_head
           entry(p) == cq_buf[Slot(p)]
           c == entry(h)
<1>0. /\ h \in Nat /\ reg_cq_tail \in Nat /\ cmd_table \in [Cmds -> Sessions \cup {NoSession}]
      /\ OnePlace /\ Once /\ OwnOperands /\ Filling /\ Behind /\ Census
  BY Zenon DEF Sound, TypeOK, RingInv
<1>1. /\ isr_pc = "loop" /\ isr_pc' = "push" /\ cq_head # isr_tail /\ cq_head' = h
      /\ c \in Cmds /\ cmd_table' = [cmd_table EXCEPT ![c] = NoSession]
      /\ UNCHANGED <<sq_tail, sq_buf, reg_sq_tail, dev_sq_head, running, reg_cq_tail, cq_buf,
                     pc, t_cmd, t_reg>>
  BY Zenon DEF IsrRoute, IsrGoto, sqVars, devVars, callVars, Slot
<1>2. /\ CqFirst = h /\ h \in CqPositions /\ h < reg_cq_tail
      /\ c \in CqCmds /\ cmd_table[c] # NoSession
  BY <1>1, NextEntry, Zenon
<1>3. CqFirst' = h + 1
  BY <1>1, Zenon DEF CqFirst, Serving
<1>4. CqPositions = CqPositions' \cup {h} /\ h \notin CqPositions'
  BY SMTT(15), <1>0, <1>1, <1>2, <1>3 DEF CqPositions
<1>5. /\ PendingPositions' = PendingPositions /\ OwnCmds' = OwnCmds /\ Own' = Own
      /\ SqCmds' = SqCmds /\ RunCmds' = RunCmds
  BY <1>1, Zenon DEF PendingPositions, OwnCmds, Own, Submitting, SqCmds, RunCmds
<1>6. \A x : x \in CqCmds <=> \E p \in CqPositions : x = entry(p)
  BY Zenon DEF CqCmds
<1>7. \A x : x \in CqCmds' <=> \E p \in CqPositions' : x = entry(p)
  BY <1>1, Zenon DEF CqCmds
<1>8. \A p, q \in CqPositions : entry(p) = entry(q) => p = q
  BY <1>0, Zenon DEF Once
<1> HIDE DEF entry
<1>9. CqCmds = CqCmds' \cup {c} /\ c \notin CqCmds'
  <2>1. \A x : x \in CqCmds <=> x \in CqCmds' \/ x = c
    BY <1>4, <1>6, <1>7, Zenon
  <2>2. ASSUME c \in CqCmds' PROVE FALSE
    <3>1. PICK p \in CqPositions' : c = entry(p)
      BY <1>7, <2>2, Zenon
    <3>2. p \in CqPositions /\ p # h
      BY <1>4, Zenon
    <3> QED
      BY <1>2, <1>8, <3>1, <3>2, Zenon
  <2> QED
    BY <2>1, <2>2, Zenon
<1> HIDE DEF c
<1>10. Table' = Table \ {c} /\ c \in Table
  BY <1>0, <1>1, <1>2 DEF Table
<1>11. c \notin RunCmds /\ c \notin OwnCmds /\ c \notin SqCmds
  BY <1>0, <1>2, Zenon DEF OnePlace
<1>12. OnePlace'
  <2>1. Table' = OwnCmds \cup SqCmds \cup RunCmds \cup CqCmds'
    BY <1>0, <1>9, <1>10, <1>11, Zenon DEF OnePlace
  <2>2. OwnCmds \cap CqCmds' = {} /\ SqCmds \cap CqCmds' = {} /\ RunCmds \cap CqCmds' = {}
    BY <1>0, <1>9, Zenon DEF OnePlace
  <2> QED
    BY <1>0, <1>5, <2>1, <2>2, Zenon DEF OnePlace
<1>13. Once'
  <2>1. \A p, q \in CqPositions' : entry(p) = entry(q) => p = q
    BY <1>4, <1>8, Zenon
  <2>2. \A p, q \in CqPositions' : cq_buf'[Slot(p)] = cq_buf'[Slot(q)] => p = q
    BY <1>1, <2>1, Zenon DEF entry
  <2> QED
    BY <1>0, <1>1, <1>5, <2>2, Zenon DEF Once
<1>14. OwnOperands'
  BY <1>0, <1>1, <1>5, Zenon DEF OwnOperands
<1>15. Filling'
  BY <1>0, <1>1, Zenon DEF Filling
<1>16. Behind'
  <2>1. h + 1 <= reg_cq_tail
    BY <1>0, <1>2
  <2> QED
    BY <1>0, <1>1, <1>3, <2>1, Zenon DEF Behind
<1>17. Census'
  <2>1. /\ Cardinality(running) \in Nat /\ reg_sq_tail \in Nat /\ dev_sq_head \in Nat
        /\ Own \in {0, 1}
    BY RingTypes, Zenon DEF Sound, RingInv
  <2>2. Cardinality(Table') = Cardinality(Table) - 1 /\ Cardinality(Table) \in Nat
    BY <1>10, CountedFinite, FS_RemoveElement, Zenon
  <2>3. Cardinality(Table) = (reg_sq_tail - dev_sq_head) + Cardinality(running) + (reg_cq_tail - h) + Own
    BY <1>0, <1>2, Zenon DEF Census
  <2>4. Cardinality(Table) - 1
          = (reg_sq_tail - dev_sq_head) + Cardinality(running) + (reg_cq_tail - (h + 1)) + Own
    BY SMTT(15), <1>0, <2>1, <2>2, <2>3
  <2> QED
    BY <1>1, <1>3, <1>5, <2>2, <2>4, Zenon DEF Census
<1> QED
  BY <1>12, <1>13, <1>14, <1>15, <1>16, <1>17, Zenon DEF RingInv

(* Admission registers a command that is nowhere yet.                      *)
LEMMA AdmitStep ==
  ASSUME Sound, Lone \in Threads, Admit(Lone)
  PROVE  RingInv'
<1> DEFINE c == t_cmd[Lone]
<1>0. /\ pc \in [Threads -> PcValues] /\ cmd_table \in [Cmds -> Sessions \cup {NoSession}]
      /\ OnePlace /\ Once /\ OwnOperands /\ Filling /\ Behind /\ Census
  BY Zenon DEF Sound, TypeOK, RingInv
<1>1. /\ pc[Lone] = "admit" /\ pc'[Lone] = "inc_sess" /\ ~ Submitting /\ Submitting'
      /\ cmd_table' = [cmd_table EXCEPT ![c] = t_sess[Lone]]
      /\ UNCHANGED <<sq_tail, sq_buf, reg_sq_tail, dev_sq_head, running, reg_cq_tail, cq_buf,
                     t_cmd, t_reg>>
      /\ CqFirst' = CqFirst
  BY <1>0, Zenon DEF Admit, Goto, sqVars, devVars, callVars, isrVars, Submitting, CqFirst, Serving
<1>2. c \in Cmds /\ cmd_table[c] = NoSession /\ t_sess[Lone] \in Sessions /\ t_sess[Lone] # NoSession
  <2>1. Holding(Lone)
    BY <1>1, Zenon DEF Holding
  <2>2. c \in Cmds /\ t_sess[Lone] \in Sessions /\ Fresh(c)
    BY <2>1, Zenon DEF Sound, RouteInv
  <2> QED
    BY <2>2, CmdPathAssumption, Zenon DEF Fresh
<1>3. OwnCmds = {} /\ OwnCmds' = {c} /\ Own = 0 /\ Own' = 1
  BY <1>1, Zenon DEF OwnCmds, Own
<1> HIDE DEF c
<1>4. Table' = Table \cup {c} /\ c \notin Table
  BY <1>0, <1>1, <1>2 DEF Table
<1>5. /\ PendingPositions' = PendingPositions /\ CqPositions' = CqPositions
      /\ SqCmds' = SqCmds /\ RunCmds' = RunCmds /\ CqCmds' = CqCmds
  BY <1>1, Zenon DEF PendingPositions, CqPositions, SqCmds, RunCmds, CqCmds
<1>6. OnePlace'
  <2>1. c \notin SqCmds /\ c \notin RunCmds /\ c \notin CqCmds
    BY <1>0, <1>4, Zenon DEF OnePlace
  <2> QED
    BY <1>0, <1>3, <1>4, <1>5, <2>1, Zenon DEF OnePlace
<1>7. Once' /\ OwnOperands'
  BY <1>0, <1>1, <1>5, Zenon DEF Once, OwnOperands
<1>8. Filling'
  BY <1>0, <1>1, Zenon DEF Filling
<1>9. Behind'
  BY <1>0, <1>1, Zenon DEF Behind
<1>10. Census'
  <2>1. /\ Cardinality(running) \in Nat /\ reg_sq_tail \in Nat /\ dev_sq_head \in Nat
        /\ reg_cq_tail \in Nat /\ CqFirst \in Nat
    BY RingTypes, Zenon DEF Sound, RingInv
  <2>2. Cardinality(Table') = Cardinality(Table) + 1 /\ Cardinality(Table) \in Nat
    BY <1>4, CountedFinite, FS_AddElement, Zenon
  <2>3. Cardinality(Table)
          = (reg_sq_tail - dev_sq_head) + Cardinality(running) + (reg_cq_tail - CqFirst) + 0
    BY <1>0, <1>3, Zenon DEF Census
  <2>4. Cardinality(Table) + 1
          = (reg_sq_tail - dev_sq_head) + Cardinality(running) + (reg_cq_tail - CqFirst) + 1
    BY <2>1, <2>2, <2>3
  <2> QED
    BY <1>1, <1>3, <2>2, <2>4, Zenon DEF Census
<1> QED
  BY <1>6, <1>7, <1>8, <1>9, <1>10, Zenon DEF RingInv

-----------------------------------------------------------------------------
(* Every step keeps the rings whole.                                       *)
LEMMA RingStep ==
  ASSUME Sound, Cardinality(Threads) = 1, [Next]_vars
  PROVE  RingInv'
<1>0. Threads = {Lone} /\ Lone \in Threads /\ TypeOK /\ RingInv
  BY Alone, Zenon DEF Sound
<1>1. CASE UserCall(Lone) \/ KernelStep(Lone) \/ Disturbance(Lone)
  <2>1. CASE LoudThread(Lone)
    BY <1>0, <2>1, AdmitStep, TailSteps, WriteSteps, DoorbellStep, Zenon DEF LoudThread
  <2>2. CASE ~ LoudThread(Lone)
    BY <1>0, <1>1, <2>2, QuietThread, QuietKeeps, Zenon
  <2> QED
    BY <2>1, <2>2, Zenon
<1>2. CASE DeviceStep
  BY <1>2, DispatchStep, CompleteStep, Zenon DEF DeviceStep
<1>3. CASE IsrStep
  BY <1>0, <1>3, IsrRouteStep, NoneUnknown, QuietHandler, QuietKeeps, Zenon
<1>4. CASE UNCHANGED vars
  <2>1. RingQuiet
    BY <1>4, Zenon DEF vars, sqVars, devVars, routeVars, callVars, isrVars, RingQuiet, CqFirst, Serving
  <2> QED
    BY <1>0, <2>1, QuietKeeps, Zenon
<1>5. CASE \E t \in Threads : UserCall(t) \/ KernelStep(t) \/ Disturbance(t)
  BY <1>0, <1>1, <1>5, Zenon
<1> QED
  BY <1>2, <1>3, <1>4, <1>5, Zenon DEF Next

(* The rings start empty.                                                  *)
LEMMA InitRing == ASSUME Init, Lone \in Threads PROVE RingInv
<1>1. /\ sq_tail = 0 /\ reg_sq_tail = 0 /\ dev_sq_head = 0 /\ reg_cq_tail = 0 /\ cq_head = 0
      /\ running = {} /\ pc[Lone] = "idle" /\ isr_pc = "idle"
      /\ cmd_table = [x \in Cmds |-> NoSession]
  BY Zenon DEF Init
<1>2. ~ Submitting /\ CqFirst = 0 /\ Own = 0 /\ OwnCmds = {} /\ Table = {} /\ RunCmds = {}
  BY <1>1, Zenon DEF Submitting, CqFirst, Serving, Own, OwnCmds, Table, RunCmds
<1>3. PendingPositions = {} /\ CqPositions = {}
  BY <1>1, <1>2 DEF PendingPositions, CqPositions
<1>4. SqCmds = {} /\ CqCmds = {}
  BY <1>3, Zenon DEF SqCmds, CqCmds
<1>5. OnePlace /\ Once /\ OwnOperands
  BY <1>1, <1>2, <1>3, <1>4, Zenon DEF OnePlace, Once, OwnOperands
<1>6. Filling
  BY <1>1, Zenon DEF Filling
<1>7. Behind
  BY SMTT(15), <1>1, <1>2, FS_EmptySet DEF Behind
<1>8. Census
  <2>1. Cardinality(Table) = 0 /\ Cardinality(running) = 0
    BY <1>1, <1>2, FS_EmptySet, Zenon
  <2> QED
    BY SMTT(15), <1>1, <1>2, <2>1 DEF Census
<1> QED
  BY <1>5, <1>6, <1>7, <1>8, Zenon DEF RingInv

(* With one thread inside the driver, every registered command is in one   *)
(* place, whole: with its submitter, in SQ, in the device or in CQ.        *)
THEOREM RingsWhole == ASSUME Cardinality(Threads) = 1 PROVE Spec => []Sound
<1>1. Init => Sound
  <2> SUFFICES ASSUME Init PROVE Sound
    BY Zenon
  <2>1. CqRange
    BY DEF Init, CqRange, Serving
  <2>2. InSession
    BY Zenon DEF Init, InSession
  <2>3. RingInv
    BY InitRing, Alone, Zenon
  <2> QED
    BY <2>1, <2>2, <2>3, InitType, InitRoute, InitCount, InitOvershoot, Zenon DEF Sound
<1>2. Sound /\ TypeOK' /\ [Next]_vars => Sound'
  <2> SUFFICES ASSUME Sound, TypeOK', [Next]_vars PROVE Sound'
    BY Zenon
  <2>1. RouteInv' /\ CqRange' /\ InSession'
    BY RouteStep, CqRangeStep, InSessionStep, Zenon DEF Sound
  <2>2. CountInv' /\ OvershootInv'
    BY CountStep, OvershootStep, Zenon DEF Sound, InSession
  <2>3. RingInv'
    BY RingStep, Zenon
  <2> QED
    BY <2>1, <2>2, <2>3, Zenon DEF Sound
<1> QED
  BY <1>1, <1>2, TypeCorrect, PTL DEF Spec

(* A command the rings hold is registered.                                 *)
LEMMA Intactness ==
  ASSUME Sound
  PROVE  /\ \A r \in running : Intact(r)
         /\ \A p \in PendingPositions : Intact(sq_buf[Slot(p)])
         /\ \A r \in running, p \in PendingPositions : r.cmd # sq_buf[Slot(p)].cmd
<1>0. OnePlace /\ OwnOperands
  BY Zenon DEF Sound, RingInv
<1>1. ASSUME NEW r \in running PROVE r.cmd \in RunCmds /\ r.cmd \in Table /\ r.ops = r.cmd
  BY <1>0, Zenon DEF OnePlace, RunCmds, OwnOperands
<1>2. ASSUME NEW p \in PendingPositions
      PROVE  /\ sq_buf[Slot(p)].cmd \in SqCmds /\ sq_buf[Slot(p)].cmd \in Table
             /\ sq_buf[Slot(p)].ops = sq_buf[Slot(p)].cmd
  BY <1>0, Zenon DEF OnePlace, SqCmds, OwnOperands
<1>3. \A c \in Table : c \in Cmds /\ cmd_table[c] # NoSession
  BY Zenon DEF Table
<1>4. RunCmds \cap SqCmds = {}
  BY <1>0, Zenon DEF OnePlace
<1> QED
  BY <1>1, <1>2, <1>3, <1>4, Zenon DEF Intact

(* With one thread, no SQ slot is refilled before the device has fetched   *)
(* it, and every descriptor it has been shown is one registered command    *)
(* with its own operands, shown once.                                      *)
THEOREM DescriptorsAlwaysIntact ==
  ASSUME Cardinality(Threads) = 1 PROVE Spec => []DescriptorsIntact
<1>1. Sound => DescriptorsIntact
  <2> SUFFICES ASSUME Sound PROVE DescriptorsIntact
    BY Zenon
  <2>1. sq_tail - dev_sq_head <= QueueDepth
    <3>1. reg_sq_tail \in Nat /\ dev_sq_head \in Nat /\ QueueDepth \in Nat
      BY RingTypes, CmdPathAssumption, Zenon DEF Sound, RingInv
    <3>2. /\ reg_sq_tail - dev_sq_head <= QueueDepth
          /\ pc[Lone] = "doorbell" => reg_sq_tail - dev_sq_head < QueueDepth
      BY Room, Zenon DEF Submitting
    <3>3. sq_tail = IF pc[Lone] = "doorbell" THEN reg_sq_tail + 1 ELSE reg_sq_tail
      BY Zenon DEF Sound, RingInv, Filling
    <3> QED
      BY <3>1, <3>2, <3>3
  <2>2. /\ \A p, q \in PendingPositions : sq_buf[Slot(p)].cmd = sq_buf[Slot(q)].cmd => p = q
        /\ \A r, q \in running : r.cmd = q.cmd => r = q
    BY Zenon DEF Sound, RingInv, Once
  <2>3. \A p : Slot(p) = p % QueueDepth
    BY Zenon DEF Slot
  <2> HIDE DEF Slot
  <2> QED
    BY <2>1, <2>2, <2>3, Intactness, Zenon DEF DescriptorsIntact
<1> QED
  BY <1>1, RingsWhole, PTL

(* With one thread, the device never overwrites a completion that the      *)
(* handler has not copied, although commands are let in before cq_head and *)
(* CQ_HEAD move.                                                           *)
THEOREM CqNeverOverwritten ==
  ASSUME Cardinality(Threads) = 1 PROVE Spec => []CqNotOverwritten
<1>1. Sound => CqNotOverwritten
  <2> SUFFICES ASSUME Sound PROVE CqNotOverwritten
    BY Zenon
  <2>1. reg_cq_tail \in Nat /\ cq_head \in Nat
    BY Zenon DEF Sound, TypeOK
  <2>2. reg_cq_tail - CqFirst <= QueueDepth
    BY Room, Zenon
  <2>3. CqFirst = cq_head + IF Serving THEN 1 ELSE 0
    BY <2>1 DEF CqFirst
  <2> QED
    BY <2>2, <2>3, Zenon DEF CqNotOverwritten, Serving
<1> QED
  BY <1>1, RingsWhole, PTL
=============================================================================
