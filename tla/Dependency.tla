----------------------------- MODULE Dependency -----------------------------
(***************************************************************************)
(* Track C's DependencyEngine and CommandGroup: deferred commands that are *)
(* submitted once the fences, groups and other deferred commands they      *)
(* depend on have completed.  Source: src/track-c/runtime/                 *)
(* dma_accel_dependency.cpp and dma_accel_command_group.cpp.               *)
(*                                                                         *)
(* One thread makes the calls; commands complete behind its back and their *)
(* fences become ready when the Stream is pumped.  The Stream is reduced   *)
(* to that (module Stream has the detail).  A fence is known by its        *)
(* command: one of Fences, submitted directly, or a deferred one.          *)
(***************************************************************************)
EXTENDS Integers, Sequences, Functions

CONSTANTS
  Fences,  \* commands submitted directly, before the calls modelled here
  Groups,  \* CommandGroups
  MaxCmds, \* bound: deferred commands
  MaxDeps  \* bound: dependencies of each kind a command has

ASSUME DependencyAssumption ==
  /\ MaxCmds \in Nat /\ MaxDeps \in Nat
  /\ 1..MaxCmds \cap Fences = {}

Cmds == 1..MaxCmds

VARIABLES
  registered,   \* size of registry_; its entries are the commands 1..registered
  fence_deps, group_deps, pending_deps, \* of each deferred command, in order
  submitted, blocked,
  members,      \* fences_ of each group
  sealed,       \* sealed_
  held,         \* fences in the caller's hands
  result,       \* how a command completed ("none": it has not)
  ready,        \* fences that are ready
  at,           \* progress(): index in registry_ (0: not running)
  hasty         \* submitted while a group they depend on was open (history)

depVars == <<fence_deps, group_deps, pending_deps>>
groupVars == <<members, sealed>>
vars == <<registered, depVars, submitted, blocked, groupVars, held, result, ready, at, hasty>>

Items == Cmds \cup Fences

Init ==
  /\ registered = 0
  /\ fence_deps = [c \in Cmds |-> <<>>]
  /\ group_deps = [c \in Cmds |-> <<>>]
  /\ pending_deps = [c \in Cmds |-> <<>>]
  /\ submitted = {} /\ blocked = {}
  /\ members = [g \in Groups |-> <<>>]
  /\ sealed = {}
  /\ held = Fences
  /\ result = [x \in Items |-> "none"]
  /\ ready = {}
  /\ at = 0
  /\ hasty = {}

Posted == {x \in Items : result[x] # "none"}

-----------------------------------------------------------------------------
(* The caller: groups and deferred commands                                *)

(* Mutant: a sealed group still takes fences.                              *)
AddUnchecked(g, f) ==
  /\ at = 0
  /\ f \in held
  /\ members' = [members EXCEPT ![g] = Append(@, f)]
  /\ held' = held \ {f}
  /\ UNCHANGED <<registered, depVars, submitted, blocked, sealed, result, ready, at, hasty>>

Add(g, f) ==
  /\ at = 0
  /\ f \in held /\ g \notin sealed
  /\ members' = [members EXCEPT ![g] = Append(@, f)]
  /\ held' = held \ {f}
  /\ UNCHANGED <<registered, depVars, submitted, blocked, sealed, result, ready, at, hasty>>

Seal(g) ==
  /\ at = 0
  /\ sealed' = sealed \cup {g}
  /\ UNCHANGED <<registered, depVars, submitted, blocked, members, held, result, ready,
                 at, hasty>>

(* query() and wait(): whatever they return, they have pumped the Stream.  *)
Query(g) ==
  /\ at = 0
  /\ g \in sealed
  /\ ready' = Posted
  /\ UNCHANGED <<registered, depVars, submitted, blocked, groupVars, held, result, at,
                 hasty>>

DeferSubmit ==
  /\ at = 0
  /\ registered < MaxCmds
  /\ registered' = registered + 1
  /\ UNCHANGED <<depVars, submitted, blocked, groupVars, held, result, ready, at, hasty>>

(* depends_on() throws on a command that has been submitted.               *)
MayDepend(c) == at = 0 /\ c <= registered /\ c \notin submitted

(* Mutant: a dependency may be added after the fact.                       *)
DependsOnFenceLate(c, f) ==
  /\ at = 0 /\ c <= registered
  /\ f \in held /\ Len(fence_deps[c]) < MaxDeps
  /\ fence_deps' = [fence_deps EXCEPT ![c] = Append(@, f)]
  /\ held' = held \ {f}
  /\ UNCHANGED <<registered, group_deps, pending_deps, submitted, blocked, groupVars,
                 result, ready, at, hasty>>

DependsOnFence(c, f) ==
  /\ MayDepend(c)
  /\ f \in held /\ Len(fence_deps[c]) < MaxDeps
  /\ fence_deps' = [fence_deps EXCEPT ![c] = Append(@, f)]
  /\ held' = held \ {f}
  /\ UNCHANGED <<registered, group_deps, pending_deps, submitted, blocked, groupVars,
                 result, ready, at, hasty>>

DependsOnGroup(c, g) ==
  /\ MayDepend(c)
  /\ Len(group_deps[c]) < MaxDeps
  /\ group_deps' = [group_deps EXCEPT ![c] = Append(@, g)]
  /\ UNCHANGED <<registered, fence_deps, pending_deps, submitted, blocked, groupVars,
                 held, result, ready, at, hasty>>

(* S is closed under pending_deps.                                         *)
Closed(S) == \A c \in S : Range(pending_deps[c]) \subseteq S

(* Mutant: only direct dependencies are looked at.                         *)
ReachableDirect(from, target) == from = target \/ target \in Range(pending_deps[from])

(* reachable(): target is in every closed set that from is in.             *)
Reachable(from, target) ==
  \A S \in SUBSET Cmds : from \in S /\ Closed(S) => target \in S

DependsOnPending(c, d) ==
  /\ MayDepend(c)
  /\ d <= registered /\ Len(pending_deps[c]) < MaxDeps
  /\ ~ Reachable(d, c)
  /\ pending_deps' = [pending_deps EXCEPT ![c] = Append(@, d)]
  /\ UNCHANGED <<registered, fence_deps, group_deps, submitted, blocked, groupVars,
                 held, result, ready, at, hasty>>

-----------------------------------------------------------------------------
(* progress(): pump the Stream, then one pass over registry_               *)

(* What checking a list of dependencies in order comes to: the first one   *)
(* that is not "ok" decides.                                               *)
Verdict(outcomes) ==
  IF \E i \in DOMAIN outcomes :
       outcomes[i] = "pending" /\ \A j \in 1..(i - 1) : outcomes[j] = "ok"
  THEN "pending"
  ELSE IF \E i \in DOMAIN outcomes : outcomes[i] = "failed" THEN "failed" ELSE "ok"

FenceOutcome(f) == IF f \in ready THEN result[f] ELSE "pending"

GroupOutcome(g) == Verdict([i \in DOMAIN members[g] |-> FenceOutcome(members[g][i])])

(* Mutant: a command that is not submitted yet counts as failed.           *)
PendingOutcomeHarsh(d) ==
  IF d \notin submitted THEN "failed" ELSE FenceOutcome(d)

(* Mutant: a command that is blocked counts as one not submitted yet.      *)
PendingOutcomeForgets(d) ==
  IF d \notin submitted THEN "pending" ELSE FenceOutcome(d)

PendingOutcome(d) ==
  IF d \in blocked THEN "failed"
  ELSE IF d \notin submitted THEN "pending" ELSE FenceOutcome(d)

Eligibility(c) ==
  Verdict(<<Verdict([i \in DOMAIN fence_deps[c] |-> FenceOutcome(fence_deps[c][i])]),
            Verdict([i \in DOMAIN group_deps[c] |-> GroupOutcome(group_deps[c][i])]),
            Verdict([i \in DOMAIN pending_deps[c] |-> PendingOutcome(pending_deps[c][i])])>>)

ProgressCall ==
  /\ at = 0
  /\ ready' = Posted
  /\ at' = 1
  /\ UNCHANGED <<registered, depVars, submitted, blocked, groupVars, held, result, hasty>>

(* The next command the pass does something about: neither submitted nor   *)
(* blocked, and not waiting.  Those before it are left as they are.        *)
Decides(c) ==
  /\ c \in at..registered \ (submitted \cup blocked) /\ Eligibility(c) # "pending"
  /\ \A b \in at..(c - 1) \ (submitted \cup blocked) : Eligibility(b) = "pending"

Block(c) ==
  /\ at > 0 /\ Decides(c) /\ Eligibility(c) = "failed"
  /\ blocked' = blocked \cup {c}
  /\ at' = c + 1
  /\ UNCHANGED <<registered, depVars, submitted, groupVars, held, result, ready, hasty>>

(* submit_fn(): throttling may pump the Stream on the way.                 *)
SubmitNow(c) ==
  /\ at > 0 /\ Decides(c) /\ Eligibility(c) = "ok"
  /\ submitted' = submitted \cup {c}
  /\ hasty' = IF Range(group_deps[c]) \subseteq sealed THEN hasty ELSE hasty \cup {c}
  /\ (ready' = ready \/ ready' = Posted)
  /\ at' = c + 1
  /\ UNCHANGED <<registered, depVars, blocked, groupVars, held, result>>

(* submit_fn() throws: the pass ends, the command stays undecided.         *)
SubmitThrows(c) ==
  /\ at > 0 /\ Decides(c) /\ Eligibility(c) = "ok"
  /\ (ready' = ready \/ ready' = Posted)
  /\ at' = 0
  /\ UNCHANGED <<registered, depVars, submitted, blocked, groupVars, held, result, hasty>>

PassEnds ==
  /\ at > 0 /\ \A c \in Cmds : ~ Decides(c)
  /\ at' = 0
  /\ UNCHANGED <<registered, depVars, submitted, blocked, groupVars, held, result, ready,
                 hasty>>

-----------------------------------------------------------------------------
(* The driver and the device                                               *)

Complete(x, outcome) ==
  /\ x \in Fences \cup submitted /\ result[x] = "none"
  /\ result' = [result EXCEPT ![x] = outcome]
  /\ UNCHANGED <<registered, depVars, submitted, blocked, groupVars, held, ready, at,
                 hasty>>

-----------------------------------------------------------------------------
Calls ==
  \/ DeferSubmit
  \/ \E g \in Groups : Seal(g) \/ Query(g) \/ \E f \in Fences : Add(g, f)
  \/ \E c \in Cmds :
       \/ \E f \in Fences : DependsOnFence(c, f)
       \/ \E g \in Groups : DependsOnGroup(c, g)
       \/ \E d \in Cmds : DependsOnPending(c, d)

Pass == PassEnds \/ \E c \in Cmds : Block(c)

Device == \E x \in Items, outcome \in {"ok", "failed"} : Complete(x, outcome)

Next ==
  \/ Calls \/ ProgressCall \/ Pass \/ Device
  \/ \E c \in Cmds : SubmitNow(c) \/ SubmitThrows(c)

Spec == Init /\ [][Next]_vars

-----------------------------------------------------------------------------
(* Properties                                                              *)

(* The vectors and flags of the engine and the groups.                     *)
TypeOK ==
  /\ registered \in 0..MaxCmds
  /\ fence_deps \in [Cmds -> Seq(Fences)]
  /\ group_deps \in [Cmds -> Seq(Groups)]
  /\ pending_deps \in [Cmds -> Seq(Cmds)]
  /\ submitted \subseteq Cmds /\ blocked \subseteq Cmds
  /\ members \in [Groups -> Seq(Fences)]
  /\ sealed \subseteq Groups
  /\ held \subseteq Fences
  /\ result \in [Items -> {"none", "ok", "failed"}]
  /\ ready \subseteq Items
  /\ at \in 0..registered + 1
  /\ hasty \subseteq Cmds

Ok(x) == x \in ready /\ result[x] = "ok"

(* A command is submitted only after everything it depends on has          *)
(* completed with DMA_ACCEL_OK, and nothing is added to that later,        *)
(* provided the groups it depends on were sealed.                          *)
DependenciesFirst ==
  \A c \in submitted :
    /\ \A f \in Range(fence_deps[c]) : Ok(f)
    /\ c \notin hasty => \A g \in Range(group_deps[c]) : \A f \in Range(members[g]) : Ok(f)
    /\ \A d \in Range(pending_deps[c]) : d \in submitted /\ Ok(d)

(* The commands c waits for, directly or not, c included.                  *)
Upstream(c) == {d \in Cmds : Reachable(c, d)}

(* A command is blocked only if a command it waits for, directly or        *)
(* through others, failed; and it is never submitted.                      *)
BlockedJustified ==
  \A c \in blocked :
    /\ c \notin submitted
    /\ \E d \in Upstream(c) :
         \/ \E f \in Range(fence_deps[d]) : result[f] = "failed"
         \/ \E g \in Range(group_deps[d]) : \E f \in Range(members[g]) : result[f] = "failed"
         \/ d # c /\ result[d] = "failed"

(* depends_on() refuses cycles: no set of deferred commands wait only on   *)
(* one another.                                                            *)
Acyclic ==
  \A S \in SUBSET Cmds :
    S # {} => \E c \in S : Range(pending_deps[c]) \cap S = {}

(* What query() and wait() say of a group: GroupStatus.                    *)
Aggregate(g) ==
  IF \E f \in Range(members[g]) : f \notin ready THEN "Pending"
  ELSE IF \E f \in Range(members[g]) : result[f] # "ok" THEN "SomeFailed"
  ELSE "AllOk"

(* The answer query() or wait() gives of a sealed group whose commands are *)
(* complete is the same ever after.                                        *)
AnswerStable ==
  [][\A g \in sealed : Aggregate(g) # "Pending" =>
       g \in sealed' /\ Aggregate(g)' = Aggregate(g)]_vars

Waiting == 1..registered \ (submitted \cup blocked)

(* Deferred commands never wait on one another only: when every command    *)
(* given to the device has completed and the Stream has been pumped, the   *)
(* next pass of progress() submits or blocks one that is waiting.          *)
NoStall ==
  Fences \cup submitted \subseteq ready /\ Waiting # {} =>
    \E c \in Waiting : Eligibility(c) # "pending"
=============================================================================
