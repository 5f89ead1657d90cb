---------------------------- MODULE StreamProofs ----------------------------
(***************************************************************************)
(* Proofs about Stream for any number of Streams, sessions and commands:   *)
(* pump() knows every completion it reads, and with a completion ring at   *)
(* least as long as submission_order_ may grow, outstanding_ is exact.     *)
(***************************************************************************)
EXTENDS Stream, TLAPS

-----------------------------------------------------------------------------
(* Sequences and what is in them                                           *)

(* What is in a sequence, and that nothing is in it twice.                 *)
Elems(q) == {q[i] : i \in DOMAIN q}
Distinct(q) == \A i, j \in 1..Len(q) : q[i] = q[j] => i = j

(* The commands of a session whose completion pump() has not read.         *)
Known(f) == inflight[f] \cup Unread(f)

StreamType ==
  /\ alive \in SUBSET Streams
  /\ fd \in [Streams -> Fds \cup {NoFd}]
  /\ outstanding \in [Streams -> SUBSET Cmds]
  /\ order \in [Streams -> Seq(Cmds)]
  /\ ready \in SUBSET Cmds
  /\ issued \in 0..MaxCmds
  /\ inflight \in [Fds -> SUBSET Cmds]
  /\ ring \in [Fds -> Seq(Cmds)]

(* A call runs on a Stream that has an fd, pump() inside one that pumps;   *)
(* and throttling waits for the head of submission_order_.                 *)
CallInv ==
  /\ pumping => op \in {"throttle", "wait", "pump"}
  /\ op # "none" => on \in Streams /\ fd[on] # NoFd
  /\ op \in {"throttle", "ioctl"} => issued < MaxCmds
  /\ op = "throttle" => order[on] # <<>> /\ awaited = Head(order[on])

(* A session belongs to one Stream, and is empty when it belongs to none.  *)
OwnerInv ==
  /\ \A s \in Streams : s \notin alive => fd[s] = NoFd /\ outstanding[s] = {} /\ order[s] = <<>>
  /\ \A s, r \in Streams : fd[s] = fd[r] /\ fd[s] # NoFd => s = r
  /\ \A s \in Streams : fd[s] # NoFd => fd[s] \in opened
  /\ \A f \in Fds : (\A s \in Streams : fd[s] # f) => inflight[f] = {} /\ ring[f] = <<>>

(* A command is in one place.                                              *)
PlaceInv ==
  /\ \A f \in Fds : Distinct(ring[f]) /\ inflight[f] \cap Unread(f) = {}
  /\ \A f, g \in Fds : f # g => Known(f) \cap Known(g) = {}
  /\ \A f \in Fds : Known(f) \subseteq 1..issued /\ Known(f) \cap ready = {}
  /\ ready \subseteq 1..issued

(* What a Stream that was not moved has outstanding.                       *)
ExactInv ==
  /\ \A s \in Streams : fd[s] \notin moved \cup {NoFd} =>
       /\ outstanding[s] \subseteq Known(fd[s])
       /\ outstanding[s] \subseteq Elems(order[s])
       /\ Len(order[s]) <= QueueDepth
  /\ op = "ioctl" /\ fd[on] \notin moved => Len(order[on]) < QueueDepth

-----------------------------------------------------------------------------
(* What is in a sequence.                                                  *)
LEMMA ElemsIs ==
  ASSUME NEW S, NEW q \in Seq(S), NEW x
  PROVE  x \in Elems(q) <=> \E i \in 1..Len(q) : x = q[i]
BY DEF Elems

(* push_back() and the driver's ring add an entry at the end.              *)
LEMMA AppendElems ==
  ASSUME NEW S, NEW q \in Seq(S), NEW x \in S
  PROVE  /\ Append(q, x) \in Seq(S) /\ Len(Append(q, x)) = Len(q) + 1
         /\ Elems(Append(q, x)) = Elems(q) \cup {x}
         /\ Distinct(q) /\ x \notin Elems(q) => Distinct(Append(q, x))
<1> DEFINE n == Append(q, x)
           l == Len(q) + 1
<1>1. /\ n \in Seq(S) /\ Len(n) = l /\ Len(q) \in Nat
      /\ \A i \in 1..Len(q) : n[i] = q[i]
      /\ n[l] = x
  OBVIOUS
<1>2. \A i : i \in 1..l <=> i \in 1..Len(q) \/ i = l
  BY <1>1
<1>3. \A i, j \in 1..Len(q) : i # l /\ j # l
  BY <1>1
<1> HIDE DEF n, l
<1>4. ASSUME NEW y PROVE y \in Elems(n) <=> y \in Elems(q) \/ y = x
  <2>1. y \in Elems(n) <=> \E i \in 1..l : y = n[i]
    BY <1>1 DEF Elems
  <2>2. y \in Elems(q) <=> \E i \in 1..Len(q) : y = q[i]
    BY ElemsIs, Zenon
  <2> QED BY <1>1, <1>2, <2>1, <2>2, Zenon
<1>5. ASSUME Distinct(q), x \notin Elems(q) PROVE Distinct(n)
  <2>1. \A i \in 1..Len(q) : q[i] # x
    BY <1>5, ElemsIs, Zenon
  <2>2. \A i, j \in 1..l : n[i] = n[j] => i = j
    BY <1>1, <1>2, <1>3, <1>5, <2>1 DEF Distinct
  <2> QED BY <1>1, <2>2, Zenon DEF Distinct
<1>6. Elems(n) = Elems(q) \cup {x}
  BY <1>4, Zenon
<1> QED BY <1>1, <1>5, <1>6, Zenon DEF n, l

(* pop_front() takes the head; the ring loses its oldest entry.            *)
LEMMA TailElems ==
  ASSUME NEW S, NEW q \in Seq(S), q # <<>>
  PROVE  /\ Tail(q) \in Seq(S) /\ Len(Tail(q)) = Len(q) - 1
         /\ Elems(Tail(q)) \subseteq Elems(q)
         /\ Elems(q) \subseteq Elems(Tail(q)) \cup {Head(q)}
         /\ Distinct(q) => Distinct(Tail(q))
<1> DEFINE t == Tail(q)
           l == Len(q) - 1
<1>1. /\ t \in Seq(S) /\ Len(t) = l /\ Len(q) \in Nat \ {0} /\ l \in Nat
      /\ \A i \in 1..l : t[i] = q[i + 1]
      /\ Head(q) = q[1]
  OBVIOUS
<1>2. /\ \A i \in 1..l : i + 1 \in 1..Len(q)
      /\ \A i \in 1..Len(q) : i = 1 \/ (i - 1 \in 1..l /\ (i - 1) + 1 = i)
      /\ \A i, j \in 1..l : i + 1 = j + 1 => i = j
  BY <1>1
<1> HIDE DEF t, l
<1>3. \A y : y \in Elems(t) <=> \E i \in 1..l : y = t[i]
  <2>1. DOMAIN t = 1..l
    BY <1>1
  <2> QED BY <2>1, Zenon DEF Elems
<1>4. \A y : y \in Elems(q) <=> \E i \in 1..Len(q) : y = q[i]
  BY ElemsIs, Zenon
<1>5. ASSUME NEW y \in Elems(t) PROVE y \in Elems(q)
  BY <1>1, <1>2, <1>3, <1>4
<1>6. ASSUME NEW y \in Elems(q), y # Head(q) PROVE y \in Elems(t)
  <2>1. PICK i \in 1..Len(q) : y = q[i]
    BY <1>4, Zenon
  <2>2. i - 1 \in 1..l /\ (i - 1) + 1 = i
    BY <1>1, <1>2, <1>6, <2>1, Zenon
  <2>3. y = t[i - 1]
    BY <1>1, <2>1, <2>2, Zenon
  <2> QED BY <1>3, <2>2, <2>3, Zenon
<1>7. ASSUME Distinct(q) PROVE Distinct(t)
  <2>1. ASSUME NEW i \in 1..l, NEW j \in 1..l, t[i] = t[j] PROVE i = j
    <3>1. q[i + 1] = q[j + 1] /\ i + 1 \in 1..Len(q) /\ j + 1 \in 1..Len(q)
      BY <1>1, <1>2, <2>1, Zenon
    <3>2. i + 1 = j + 1
      BY <1>7, <3>1, Zenon DEF Distinct
    <3> QED BY <1>2, <3>2, Zenon
  <2> QED BY <1>1, <2>1, Zenon DEF Distinct
<1>8. Elems(t) \subseteq Elems(q) /\ Elems(q) \subseteq Elems(t) \cup {Head(q)}
  BY <1>5, <1>6, Zenon
<1> QED BY <1>1, <1>7, <1>8, Zenon DEF t, l

(* read() takes the first n entries.                                       *)
LEMMA RestElems ==
  ASSUME NEW S, NEW q \in Seq(S), NEW n \in 0..Len(q), Distinct(q)
  PROVE  /\ SubSeq(q, n + 1, Len(q)) \in Seq(S)
         /\ Distinct(SubSeq(q, n + 1, Len(q)))
         /\ Elems(SubSeq(q, n + 1, Len(q))) = Elems(q) \ {q[i] : i \in 1..n}
         /\ {q[i] : i \in 1..n} \subseteq Elems(q)
<1> DEFINE t == SubSeq(q, n + 1, Len(q))
           l == Len(q) - n
<1>1. Len(q) \in Nat /\ n \in Nat /\ l \in Nat /\ n <= Len(q)
  OBVIOUS
<1>2. /\ t \in Seq(S) /\ Len(t) = l
      /\ \A i \in 1..l : t[i] = q[n + i]
  <2> DEFINE m == n + 1
  <2>1. m \in 1..Len(q) + 1 /\ Len(q) - m + 1 = l /\ \A i : i \in 1..l => m + i - 1 = n + i
    BY <1>1
  <2>2. /\ SubSeq(q, m, Len(q)) \in Seq(S) /\ Len(SubSeq(q, m, Len(q))) = Len(q) - m + 1
        /\ \A i \in 1..(Len(q) - m + 1) : SubSeq(q, m, Len(q))[i] = q[m + i - 1]
    <3>1. m \in 1..Len(q) + 1 BY <2>1
    <3> HIDE DEF m
    <3> QED BY <1>1, <3>1
  <2> QED BY <2>1, <2>2, Zenon
<1>3. /\ \A i \in 1..l : n + i \in 1..Len(q) /\ n + i \notin 1..n
      /\ \A i \in 1..Len(q) : i \in 1..n \/ (i - n \in 1..l /\ n + (i - n) = i)
      /\ \A i, j \in 1..l : n + i = n + j => i = j
      /\ \A i \in 1..n : i \in 1..Len(q)
  BY <1>1
<1> HIDE DEF t, l
<1>4. \A y : y \in Elems(t) <=> \E i \in 1..l : y = t[i]
  <2>1. t \in Seq(S) /\ Len(t) = l
    BY <1>2, Zenon
  <2>2. \A y : y \in Elems(t) <=> \E i \in 1..Len(t) : y = t[i]
    BY <2>1, ElemsIs, Zenon
  <2> QED BY <2>1, <2>2, Zenon
<1>5. \A y : y \in Elems(q) <=> \E i \in 1..Len(q) : y = q[i]
  BY ElemsIs, Zenon
<1>6. Distinct(t)
  <2>1. ASSUME NEW i \in 1..l, NEW j \in 1..l, t[i] = t[j] PROVE i = j
    <3>1. q[n + i] = q[n + j] /\ n + i \in 1..Len(q) /\ n + j \in 1..Len(q)
      BY <1>2, <1>3, <2>1, Zenon
    <3>2. n + i = n + j
      BY <3>1, Zenon DEF Distinct
    <3> QED BY <1>3, <3>2, Zenon
  <2> QED BY <1>2, <2>1, Zenon DEF Distinct
<1>7. {q[i] : i \in 1..n} \subseteq Elems(q)
  BY <1>3, <1>5, Zenon
<1>8. ASSUME NEW y \in Elems(t) PROVE y \in Elems(q) \ {q[i] : i \in 1..n}
  <2>1. PICK i \in 1..l : y = q[n + i]
    BY <1>2, <1>4
  <2>2. n + i \in 1..Len(q) /\ n + i \notin 1..n
    BY <1>3, Zenon
  <2>3. \A j \in 1..n : q[j] # y
    BY <1>3, <2>1, <2>2, Zenon DEF Distinct
  <2> QED BY <1>5, <2>1, <2>2, <2>3, Zenon
<1>9. ASSUME NEW y \in Elems(q) \ {q[i] : i \in 1..n} PROVE y \in Elems(t)
  <2>1. PICK i \in 1..Len(q) : y = q[i]
    BY <1>5, Zenon
  <2>2. i \notin 1..n
    BY <1>9, <2>1, Zenon
  <2>3. i - n \in 1..l /\ n + (i - n) = i
    BY <1>3, <2>2, Zenon
  <2>4. y = t[i - n]
    BY <1>2, <2>1, <2>3, Zenon
  <2> QED BY <1>4, <2>3, <2>4, Zenon
<1>10. Elems(t) = Elems(q) \ {q[i] : i \in 1..n}
  BY <1>8, <1>9, Zenon
<1> QED BY <1>2, <1>6, <1>7, <1>10, Zenon DEF t

-----------------------------------------------------------------------------
(* What the steps do to a session                                          *)

(* A completion moves the command from inflight to the ring, which may     *)
(* lose its oldest entry to it.                                            *)
LEMMA CompleteKnown ==
  ASSUME StreamType, PlaceInv, NEW f \in Fds, NEW c \in inflight[f], Complete(f, c)
  PROVE  /\ \A g \in Fds : g # f => inflight'[g] = inflight[g] /\ ring'[g] = ring[g]
         /\ inflight' \in [Fds -> SUBSET Cmds] /\ ring' \in [Fds -> Seq(Cmds)]
         /\ inflight'[f] = inflight[f] \ {c}
         /\ Distinct(ring'[f])
         /\ Unread(f)' \subseteq Unread(f) \cup {c}
         /\ Len(ring[f]) < CompRingSize => Unread(f)' = Unread(f) \cup {c}
<1> DEFINE q == IF Len(ring[f]) >= CompRingSize THEN Tail(ring[f]) ELSE ring[f]
           n == Append(q, c)
<1>1. /\ ring[f] \in Seq(Cmds) /\ c \in Cmds /\ inflight[f] \in SUBSET Cmds
      /\ Distinct(ring[f]) /\ c \notin Elems(ring[f])
  BY Zenon DEF StreamType, PlaceInv, Unread, Elems
<1>2. /\ ring \in [Fds -> Seq(Cmds)] /\ inflight \in [Fds -> SUBSET Cmds]
      /\ ring' = [ring EXCEPT ![f] = n]
      /\ inflight' = [inflight EXCEPT ![f] = inflight[f] \ {c}]
  BY Zenon DEF StreamType, Complete
<1>3. /\ q \in Seq(Cmds) /\ Distinct(q) /\ Elems(q) \subseteq Elems(ring[f])
      /\ Len(ring[f]) < CompRingSize => q = ring[f]
  <2>1. CASE Len(ring[f]) >= CompRingSize
    <3>1. ring[f] # <<>> /\ q = Tail(ring[f]) /\ ~ (Len(ring[f]) < CompRingSize)
      BY <1>1, <2>1, StreamAssumption
    <3> QED BY <1>1, <3>1, TailElems, Zenon
  <2>2. CASE ~ (Len(ring[f]) >= CompRingSize)
    BY <1>1, <2>2, Zenon
  <2> QED BY <2>1, <2>2, Zenon
<1> HIDE DEF q
<1>4. n \in Seq(Cmds) /\ Elems(n) = Elems(q) \cup {c} /\ Distinct(n)
  BY <1>1, <1>3, AppendElems
<1> HIDE DEF n
<1>5. ring'[f] = n /\ inflight'[f] = inflight[f] \ {c}
  BY <1>2, Zenon
<1>6. \A g \in Fds : g # f => inflight'[g] = inflight[g] /\ ring'[g] = ring[g]
  BY <1>2, Zenon
<1>7. inflight' \in [Fds -> SUBSET Cmds] /\ ring' \in [Fds -> Seq(Cmds)]
  BY <1>1, <1>2, <1>4, Zenon
<1>8. Unread(f) = Elems(ring[f]) /\ Unread(f)' = Elems(n)
  BY <1>5, Zenon DEF Unread, Elems
<1> QED BY <1>3, <1>4, <1>5, <1>6, <1>7, <1>8, Zenon

(* pump() takes what it read off the ring.                                 *)
LEMMA PumpKnown ==
  ASSUME StreamType, CallInv, PlaceInv, PumpBatch
  PROVE  /\ on \in Streams /\ fd[on] \in Fds
         /\ inflight' = inflight /\ fd' = fd /\ ring' \in [Fds -> Seq(Cmds)]
         /\ \A g \in Fds : g # fd[on] => ring'[g] = ring[g]
         /\ Distinct(ring'[fd[on]])
         /\ \E got \in SUBSET Unread(fd[on]) :
              /\ Elems(ring'[fd[on]]) = Unread(fd[on]) \ got
              /\ ready' = ready \cup (got \cap outstanding[on])
              /\ outstanding' = [outstanding EXCEPT ![on] = outstanding[on] \ got]
<1> DEFINE f == fd[on]
           q == ring[f]
           k == ReadCount
           t == SubSeq(q, k + 1, Len(q))
           got == {q[i] : i \in 1..k}
<1>1. on \in Streams /\ f \in Fds
  BY Zenon DEF PumpBatch, CallInv, StreamType
<1>2. /\ q \in Seq(Cmds) /\ Distinct(q)
      /\ ring \in [Fds -> Seq(Cmds)]
  BY <1>1, Zenon DEF StreamType, PlaceInv
<1>3. k \in 0..Len(q)
  BY <1>2, StreamAssumption DEF ReadCount
<1>4. /\ ring' = [ring EXCEPT ![f] = t]
      /\ ready' = ready \cup (got \cap outstanding[on])
      /\ outstanding' = [outstanding EXCEPT ![on] = outstanding[on] \ got]
      /\ inflight' = inflight /\ fd' = fd
  BY Zenon DEF PumpBatch, Apply
<1> HIDE DEF k
<1>5. /\ t \in Seq(Cmds) /\ Distinct(t) /\ Elems(t) = Elems(q) \ got
      /\ got \subseteq Elems(q)
  BY <1>2, <1>3, RestElems, Zenon
<1> HIDE DEF t, got, q, f
<1>6. /\ ring'[f] = t /\ ring' \in [Fds -> Seq(Cmds)]
      /\ \A g \in Fds : g # f => ring'[g] = ring[g]
  BY <1>1, <1>2, <1>4, <1>5, Zenon
<1>7. Elems(ring'[fd[on]]) = Elems(t) /\ Unread(fd[on]) = Elems(q) /\ f = fd[on]
  BY <1>6, Zenon DEF Unread, Elems, q, f
<1>8. /\ got \in SUBSET Unread(fd[on])
      /\ Elems(ring'[fd[on]]) = Unread(fd[on]) \ got
  BY <1>5, <1>7, Zenon
<1>9. /\ on \in Streams /\ fd[on] \in Fds
      /\ ring' \in [Fds -> Seq(Cmds)]
      /\ \A g \in Fds : g # fd[on] => ring'[g] = ring[g]
      /\ Distinct(ring'[fd[on]])
  BY <1>1, <1>5, <1>6, Zenon DEF f
<1> QED BY <1>4, <1>8, <1>9, Zenon

-----------------------------------------------------------------------------
(* The steps preserve the invariant                                        *)

StreamInv == StreamType /\ CallInv /\ OwnerInv /\ PlaceInv /\ NoStrayCompletion

(* Before the first Stream there is nothing to own.                        *)
LEMMA InitInv == Init => StreamInv /\ ExactInv
<1> SUFFICES ASSUME Init PROVE StreamInv /\ ExactInv
  BY Zenon
<1>1. StreamType
  BY StreamAssumption DEF Init, StreamType, Cmds
<1>2. CallInv /\ OwnerInv /\ NoStrayCompletion /\ ExactInv
  BY Zenon DEF Init, CallInv, OwnerInv, NoStrayCompletion, ExactInv
<1>3. \A f \in Fds : ring[f] = <<>> /\ inflight[f] = {} /\ Unread(f) = {} /\ Known(f) = {}
  BY DEF Init, Unread, Known
<1>4. PlaceInv
  BY <1>3 DEF Init, PlaceInv, Distinct
<1> QED BY <1>1, <1>2, <1>4, Zenon DEF StreamInv

(* Steps that only change the call in progress.                            *)
LEMMA SameInv ==
  ASSUME StreamInv, UNCHANGED <<objVars, ready, issued, drvVars>>
  PROVE  StreamType' /\ OwnerInv' /\ PlaceInv' /\ NoStrayCompletion'
<1>1. UNCHANGED <<alive, fd, outstanding, order, ready, issued, moved, opened, inflight, ring>>
  BY Zenon DEF objVars, drvVars
<1>2. StreamType'
  BY <1>1, Zenon DEF StreamInv, StreamType
<1>3. OwnerInv'
  BY <1>1, Zenon DEF StreamInv, OwnerInv
<1>4. \A f \in Fds : Unread(f)' = Unread(f) /\ Known(f)' = Known(f)
  BY <1>1, Zenon DEF Unread, Known
<1>5. PlaceInv'
  BY <1>1, <1>4, Zenon DEF StreamInv, PlaceInv
<1>6. NoStrayCompletion'
  BY <1>1 DEF StreamInv, NoStrayCompletion, Unread
<1> QED BY <1>2, <1>3, <1>5, <1>6, Zenon

(* Entering and leaving a call move no command.                            *)
LEMMA EnterStep ==
  ASSUME StreamInv,
         \/ \E s \in Streams : Submit(s) \/ PumpCall(s) \/ \E c \in Cmds : WaitCall(s, c)
         \/ SubmitThrows \/ WaitDone \/ GiveUp \/ PollReturns
  PROVE  StreamInv'
<1>1. UNCHANGED <<objVars, ready, issued, drvVars>>
  BY Zenon DEF Submit, PumpCall, WaitCall, SubmitThrows, WaitDone, GiveUp, PollReturns
<1>2. UNCHANGED <<fd, order, issued>>
  BY <1>1, Zenon DEF objVars
<1>3. CallInv'
  <2>1. ASSUME NEW s \in Streams, Submit(s) PROVE CallInv'
    <3>1. order[s] \in Seq(Cmds)
      BY Zenon DEF StreamInv, StreamType
    <3>2. Len(order[s]) >= QueueDepth => order[s] # <<>>
      BY <3>1, StreamAssumption
    <3>3. op = "none" /\ fd[s] # NoFd /\ on' = s /\ op' \in {"throttle", "ioctl"} /\ pumping' = pumping
      BY <2>1, Zenon DEF Submit, Enter
    <3>4. op' = "throttle" => order[s] # <<>> /\ awaited' = Head(order[s])
      BY <2>1, <3>2, Zenon DEF Submit, Enter
    <3>5. issued < MaxCmds
      BY <2>1, Zenon DEF Submit
    <3>6. ~ pumping
      BY <3>3, Zenon DEF StreamInv, CallInv
    <3> QED BY <1>2, <3>3, <3>4, <3>5, <3>6, Zenon DEF CallInv
  <2>2. ASSUME NEW s \in Streams, PumpCall(s) PROVE CallInv'
    BY <1>2, <2>2, Zenon DEF CallInv, PumpCall, Enter
  <2>3. ASSUME NEW s \in Streams, NEW c \in Cmds, WaitCall(s, c) PROVE CallInv'
    BY <1>2, <2>3, Zenon DEF CallInv, WaitCall, Enter, StreamInv
  <2>4. ASSUME SubmitThrows \/ WaitDone \/ GiveUp PROVE CallInv'
    BY <1>2, <2>4 DEF CallInv, SubmitThrows, WaitDone, GiveUp, Leave, StreamInv
  <2>5. ASSUME PollReturns PROVE CallInv'
    BY <1>2, <2>5, Zenon DEF CallInv, PollReturns, StreamInv
  <2> QED BY <2>1, <2>2, <2>3, <2>4, <2>5, Zenon
<1> QED BY <1>1, <1>3, SameInv, Zenon DEF StreamInv

(* No call is in progress while Stream objects come and go.                *)
LEMMA IdleCall ==
  ASSUME CallInv, op = "none", UNCHANGED callVars
  PROVE  CallInv'
BY Zenon DEF CallInv, callVars

(* A new Stream opens a session of its own.                                *)
LEMMA ConstructStep ==
  ASSUME StreamInv, NEW s \in Streams, NEW f \in Fds, Construct(s, f)
  PROVE  StreamInv'
<1>1. /\ op = "none" /\ s \notin alive /\ f \notin opened
      /\ alive' = alive \cup {s} /\ fd' = [fd EXCEPT ![s] = f] /\ opened' = opened \cup {f}
      /\ UNCHANGED <<outstanding, order, ready, issued, moved, inflight, ring, callVars>>
  BY Zenon DEF Construct
<1>2. fd \in [Streams -> Fds \cup {NoFd}] /\ f # NoFd
  BY StreamAssumption, Zenon DEF StreamInv, StreamType
<1>3. /\ fd[s] = NoFd /\ outstanding[s] = {} /\ order[s] = <<>>
      /\ \A r \in Streams : fd[r] # f
      /\ inflight[f] = {} /\ ring[f] = <<>>
  BY <1>1, <1>2 DEF StreamInv, OwnerInv
<1>4. fd'[s] = f /\ \A r \in Streams : r # s => fd'[r] = fd[r]
  BY <1>1, <1>2, Zenon
<1>5. StreamType'
  BY <1>1, Zenon DEF StreamInv, StreamType
<1>6. CallInv'
  BY <1>1, IdleCall, Zenon DEF StreamInv
<1>7. OwnerInv'
  <2>1. \A r \in Streams : r \notin alive' => fd'[r] = NoFd /\ outstanding'[r] = {} /\ order'[r] = <<>>
    BY <1>1, <1>4, Zenon DEF StreamInv, OwnerInv
  <2>2. \A r, u \in Streams : fd'[r] = fd'[u] /\ fd'[r] # NoFd => r = u
    BY <1>3, <1>4, ZenonT(30) DEF StreamInv, OwnerInv
  <2>3. \A r \in Streams : fd'[r] # NoFd => fd'[r] \in opened'
    <3>1. \A r \in Streams : fd[r] # NoFd => fd[r] \in opened
      BY Zenon DEF StreamInv, OwnerInv
    <3> QED BY <1>1, <1>4, <3>1
  <2>4. ASSUME NEW g \in Fds, \A r \in Streams : fd'[r] # g PROVE inflight'[g] = {} /\ ring'[g] = <<>>
    <3>1. g # f /\ \A r \in Streams : fd[r] # g
      BY <1>2, <1>3, <1>4, <2>4, StreamAssumption, Zenon
    <3> QED BY <1>1, <3>1, Zenon DEF StreamInv, OwnerInv
  <2> QED BY <2>1, <2>2, <2>3, <2>4, Zenon DEF OwnerInv
<1>8. \A g \in Fds : Unread(g)' = Unread(g) /\ Known(g)' = Known(g)
  BY <1>1, Zenon DEF Unread, Known
<1>9. PlaceInv'
  BY <1>1, <1>8, Zenon DEF StreamInv, PlaceInv
<1>10. NoStrayCompletion'
  <2>1. Unread(f) = {}
    BY <1>3 DEF Unread
  <2>2. ASSUME NEW r \in Streams, fd'[r] # NoFd
        PROVE  inflight'[fd'[r]] \cup Unread(fd[r])' \subseteq outstanding'[r]
    <3>1. CASE r = s
      BY <1>1, <1>3, <1>4, <2>1, <3>1 DEF Unread
    <3>2. CASE r # s
      BY <1>1, <1>2, <1>4, <2>2, <3>2 DEF Unread, StreamInv, NoStrayCompletion
    <3> QED BY <3>1, <3>2, Zenon
  <2> QED BY <2>2, Zenon DEF NoStrayCompletion
<1> QED BY <1>5, <1>6, <1>7, <1>9, <1>10, Zenon DEF StreamInv

(* A session closed, or not, and handed from r to s, or to none.           *)
LEMMA CloseKnown ==
  ASSUME StreamInv, NEW s \in Streams, Closed(fd[s]), issued' = issued, ready' = ready
  PROVE  /\ inflight' \in [Fds -> SUBSET Cmds] /\ ring' \in [Fds -> Seq(Cmds)]
         /\ PlaceInv'
         /\ \A g \in Fds : g = fd[s] => inflight'[g] = {} /\ ring'[g] = <<>>
         /\ \A g \in Fds : g # fd[s] => inflight'[g] = inflight[g] /\ ring'[g] = ring[g]
<1>1. /\ inflight' = [g \in Fds |-> IF g = fd[s] THEN {} ELSE inflight[g]]
      /\ ring' = [g \in Fds |-> IF g = fd[s] THEN <<>> ELSE ring[g]]
  BY Zenon DEF Closed
<1>2. /\ \A g \in Fds : g = fd[s] => inflight'[g] = {} /\ ring'[g] = <<>>
      /\ \A g \in Fds : g # fd[s] => inflight'[g] = inflight[g] /\ ring'[g] = ring[g]
  BY <1>1, Zenon
<1>3. inflight \in [Fds -> SUBSET Cmds] /\ ring \in [Fds -> Seq(Cmds)]
  BY Zenon DEF StreamInv, StreamType
<1>4. inflight' \in [Fds -> SUBSET Cmds] /\ ring' \in [Fds -> Seq(Cmds)]
  BY <1>1, <1>3
<1>5. \A g \in Fds : g = fd[s] => Unread(g)' = {} /\ Known(g)' = {} /\ Distinct(ring'[g])
  BY <1>2 DEF Unread, Known, Distinct
<1>6. \A g \in Fds : g # fd[s] => Unread(g)' = Unread(g) /\ Known(g)' = Known(g)
  BY <1>2, ZenonT(30) DEF Unread, Known
<1>7. PlaceInv'
  <2>1. ASSUME NEW g \in Fds PROVE Distinct(ring'[g]) /\ inflight'[g] \cap Unread(g)' = {}
    BY <1>2, <1>5, <1>6, Zenon DEF StreamInv, PlaceInv
  <2>2. ASSUME NEW g \in Fds PROVE Known(g)' \subseteq Known(g)
    BY <1>5, <1>6, Zenon
  <2>3. /\ \A f, g \in Fds : f # g => Known(f)' \cap Known(g)' = {}
        /\ \A f \in Fds : Known(f)' \subseteq 1..issued /\ Known(f)' \cap ready = {}
        /\ ready \subseteq 1..issued
    BY <2>2, Zenon DEF StreamInv, PlaceInv
  <2> QED BY <2>1, <2>3, Zenon DEF PlaceInv
<1> QED BY <1>2, <1>4, <1>7, Zenon

(* Nothing is closed when there is no fd.                                  *)
LEMMA CloseNone ==
  ASSUME StreamType, NEW s \in Streams, fd[s] = NoFd, UNCHANGED <<inflight, ring, opened>>
  PROVE  Closed(fd[s])
<1>1. inflight \in [Fds -> SUBSET Cmds] /\ ring \in [Fds -> Seq(Cmds)]
  BY Zenon DEF StreamType
<1>2. \A g \in Fds : g # fd[s]
  BY StreamAssumption, Zenon
<1>3. /\ inflight = [g \in Fds |-> IF g = fd[s] THEN {} ELSE inflight[g]]
      /\ ring = [g \in Fds |-> IF g = fd[s] THEN <<>> ELSE ring[g]]
  BY <1>1, <1>2, Zenon
<1> QED BY <1>3, Zenon DEF Closed

(* A move hands the session on and closes the one the target had.          *)
LEMMA MoveStep ==
  ASSUME StreamInv, NEW s \in Streams, NEW r \in Streams, MoveConstruct(s, r) \/ MoveAssign(s, r)
  PROVE  StreamInv' /\ Closed(fd[s]) /\ s # r /\ order' = order /\ op' = op /\ on' = on
         /\ fd' = [fd EXCEPT ![s] = fd[r], ![r] = NoFd] /\ moved' = moved \cup {fd[r]}
         /\ outstanding' = [outstanding EXCEPT ![s] = outstanding[r], ![r] = {}]
<1>1. /\ op = "none" /\ s # r /\ r \in alive
      /\ alive' = alive \cup {s}
      /\ fd' = [fd EXCEPT ![s] = fd[r], ![r] = NoFd]
      /\ outstanding' = [outstanding EXCEPT ![s] = outstanding[r], ![r] = {}]
      /\ moved' = moved \cup {fd[r]}
      /\ UNCHANGED <<order, ready, issued, callVars, opened>>
  BY DEF MoveConstruct, MoveAssign, Closed
<1>2. Closed(fd[s])
  <2>1. CASE MoveConstruct(s, r)
    <3>1. fd[s] = NoFd /\ UNCHANGED <<inflight, ring, opened>>
      BY <2>1, Zenon DEF MoveConstruct, StreamInv, OwnerInv
    <3> QED BY <3>1, CloseNone, Zenon DEF StreamInv
  <2>2. CASE MoveAssign(s, r)
    BY <2>2, Zenon DEF MoveAssign
  <2> QED BY <2>1, <2>2, Zenon
<1>3. /\ inflight' \in [Fds -> SUBSET Cmds] /\ ring' \in [Fds -> Seq(Cmds)]
      /\ PlaceInv'
      /\ \A g \in Fds : g = fd[s] => inflight'[g] = {} /\ ring'[g] = <<>>
      /\ \A g \in Fds : g # fd[s] => inflight'[g] = inflight[g] /\ ring'[g] = ring[g]
  BY <1>1, <1>2, CloseKnown, Zenon
<1>4. /\ fd \in [Streams -> Fds \cup {NoFd}] /\ outstanding \in [Streams -> SUBSET Cmds]
      /\ alive \in SUBSET Streams
  BY Zenon DEF StreamInv, StreamType
<1>5. /\ fd'[s] = fd[r] /\ fd'[r] = NoFd
      /\ outstanding'[s] = outstanding[r] /\ outstanding'[r] = {}
      /\ \A u \in Streams : u \notin {s, r} => fd'[u] = fd[u] /\ outstanding'[u] = outstanding[u]
  BY <1>1, <1>4, Zenon
<1>6. StreamType'
  <2>1. fd' \in [Streams -> Fds \cup {NoFd}] /\ outstanding' \in [Streams -> SUBSET Cmds]
    BY <1>1, <1>4, Zenon
  <2> QED BY <1>1, <1>3, <1>4, <2>1, Zenon DEF StreamInv, StreamType
<1>7. CallInv'
  BY <1>1, IdleCall, Zenon DEF StreamInv
<1>8. OwnerInv'
  <2>1. \A u \in Streams : u \notin alive' => fd'[u] = NoFd /\ outstanding'[u] = {} /\ order'[u] = <<>>
    BY <1>1, <1>5, Zenon DEF StreamInv, OwnerInv
  <2>2. ASSUME NEW u \in Streams, NEW v \in Streams, fd'[u] = fd'[v], fd'[u] # NoFd PROVE u = v
    BY <1>5, <2>2 DEF StreamInv, OwnerInv
  <2>3. \A u \in Streams : fd'[u] # NoFd => fd'[u] \in opened'
    <3>1. \A u \in Streams : fd[u] # NoFd => fd[u] \in opened
      BY Zenon DEF StreamInv, OwnerInv
    <3>2. opened' = opened
      BY <1>1, Zenon
    <3> QED BY <1>5, <3>1, <3>2, Zenon
  <2>4. ASSUME NEW g \in Fds, \A u \in Streams : fd'[u] # g PROVE inflight'[g] = {} /\ ring'[g] = <<>>
    <3>1. CASE g = fd[s]
      BY <1>3, <3>1, Zenon
    <3>2. CASE g # fd[s]
      <4>1. \A u \in Streams : fd[u] # g
        BY <1>5, <2>4, <3>2, Zenon
      <4> QED BY <1>3, <3>2, <4>1, Zenon DEF StreamInv, OwnerInv
    <3> QED BY <3>1, <3>2, Zenon
  <2> QED BY <2>1, <2>2, <2>3, <2>4, Zenon DEF OwnerInv
<1>9. NoStrayCompletion'
  <2>1. ASSUME NEW u \in Streams, fd'[u] # NoFd
        PROVE  inflight'[fd'[u]] \cup Unread(fd[u])' \subseteq outstanding'[u]
    <3> DEFINE v == IF u = s THEN r ELSE u
    <3>1. v \in Streams /\ v # s /\ fd'[u] = fd[v] /\ outstanding'[u] = outstanding[v]
      BY <1>1, <1>5, <2>1, Zenon
    <3> HIDE DEF v
    <3>2. fd[v] \in Fds /\ fd[v] # NoFd
      BY <1>4, <2>1, <3>1, Zenon
    <3>3. fd[v] # fd[s]
      BY <3>1, <3>2, Zenon DEF StreamInv, OwnerInv
    <3>4. inflight'[fd[v]] = inflight[fd[v]] /\ ring'[fd[v]] = ring[fd[v]]
      BY <1>3, <3>2, <3>3, Zenon
    <3>5. inflight[fd[v]] \cup Unread(fd[v]) \subseteq outstanding[v]
      BY <3>1, <3>2, Zenon DEF StreamInv, NoStrayCompletion
    <3> QED BY <3>1, <3>4, <3>5, Zenon DEF Unread
  <2> QED BY <2>1, Zenon DEF NoStrayCompletion
<1>10. op' = op /\ on' = on
  BY <1>1, Zenon DEF callVars
<1> QED BY <1>1, <1>2, <1>3, <1>6, <1>7, <1>8, <1>9, <1>10, Zenon DEF StreamInv

(* The destructor closes the session, and the driver forgets its commands. *)
LEMMA DestroyStep ==
  ASSUME StreamInv, NEW s \in Streams, Destroy(s)
  PROVE  StreamInv'
<1>1. /\ op = "none"
      /\ alive' = alive \ {s} /\ fd' = [fd EXCEPT ![s] = NoFd]
      /\ outstanding' = [outstanding EXCEPT ![s] = {}] /\ order' = [order EXCEPT ![s] = <<>>]
      /\ Closed(fd[s])
      /\ UNCHANGED <<ready, issued, callVars, opened>>
  BY Zenon DEF Destroy, Closed
<1>2. /\ inflight' \in [Fds -> SUBSET Cmds] /\ ring' \in [Fds -> Seq(Cmds)]
      /\ PlaceInv'
      /\ \A g \in Fds : g = fd[s] => inflight'[g] = {} /\ ring'[g] = <<>>
      /\ \A g \in Fds : g # fd[s] => inflight'[g] = inflight[g] /\ ring'[g] = ring[g]
  BY <1>1, CloseKnown, Zenon
<1>3. /\ fd \in [Streams -> Fds \cup {NoFd}] /\ outstanding \in [Streams -> SUBSET Cmds]
      /\ alive \in SUBSET Streams /\ order \in [Streams -> Seq(Cmds)]
  BY Zenon DEF StreamInv, StreamType
<1>4. /\ fd'[s] = NoFd /\ outstanding'[s] = {} /\ order'[s] = <<>>
      /\ \A u \in Streams : u # s => fd'[u] = fd[u] /\ outstanding'[u] = outstanding[u] /\ order'[u] = order[u]
  BY <1>1, <1>3, Zenon
<1>5. StreamType'
  <2>1. /\ fd' \in [Streams -> Fds \cup {NoFd}] /\ outstanding' \in [Streams -> SUBSET Cmds]
        /\ order' \in [Streams -> Seq(Cmds)]
    BY <1>1, <1>3
  <2> QED BY <1>1, <1>2, <1>3, <2>1, Zenon DEF StreamInv, StreamType
<1>6. CallInv'
  BY <1>1, IdleCall, Zenon DEF StreamInv
<1>7. OwnerInv'
  <2>1. \A u \in Streams : u \notin alive' => fd'[u] = NoFd /\ outstanding'[u] = {} /\ order'[u] = <<>>
    BY <1>1, <1>4, Zenon DEF StreamInv, OwnerInv
  <2>2. ASSUME NEW u \in Streams, NEW v \in Streams, fd'[u] = fd'[v], fd'[u] # NoFd PROVE u = v
    BY <1>4, <2>2 DEF StreamInv, OwnerInv
  <2>3. \A u \in Streams : fd'[u] # NoFd => fd'[u] \in opened'
    BY <1>1, <1>4 DEF StreamInv, OwnerInv
  <2>4. ASSUME NEW g \in Fds, \A u \in Streams : fd'[u] # g PROVE inflight'[g] = {} /\ ring'[g] = <<>>
    <3>1. CASE g = fd[s]
      BY <1>2, <3>1, Zenon
    <3>2. CASE g # fd[s]
      <4>1. \A u \in Streams : fd[u] # g
        BY <1>4, <2>4, <3>2, Zenon
      <4> QED BY <1>2, <3>2, <4>1, Zenon DEF StreamInv, OwnerInv
    <3> QED BY <3>1, <3>2, Zenon
  <2> QED BY <2>1, <2>2, <2>3, <2>4, Zenon DEF OwnerInv
<1>8. NoStrayCompletion'
  <2>1. ASSUME NEW u \in Streams, fd'[u] # NoFd
        PROVE  inflight'[fd'[u]] \cup Unread(fd[u])' \subseteq outstanding'[u]
    <3>1. u # s /\ fd'[u] = fd[u] /\ outstanding'[u] = outstanding[u]
      BY <1>4, <2>1, Zenon
    <3>2. fd[u] \in Fds /\ fd[u] # NoFd
      BY <1>3, <2>1, <3>1, Zenon
    <3>3. fd[u] # fd[s]
      BY <3>1, <3>2, Zenon DEF StreamInv, OwnerInv
    <3>4. inflight'[fd[u]] = inflight[fd[u]] /\ ring'[fd[u]] = ring[fd[u]]
      BY <1>2, <3>2, <3>3, Zenon
    <3>5. inflight[fd[u]] \cup Unread(fd[u]) \subseteq outstanding[u]
      BY <3>2, Zenon DEF StreamInv, NoStrayCompletion
    <3> QED BY <3>1, <3>4, <3>5, Zenon DEF Unread
  <2> QED BY <2>1, Zenon DEF NoStrayCompletion
<1> QED BY <1>2, <1>5, <1>6, <1>7, <1>8, Zenon DEF StreamInv

(* Throttling forgets a command whose fence is ready, so none that the     *)
(* driver may still report.                                                *)
LEMMA ThrottledStep ==
  ASSUME StreamInv, Throttled
  PROVE  StreamInv'
<1>1. /\ op = "throttle" /\ ~ pumping /\ awaited \in ready
      /\ outstanding' = [outstanding EXCEPT ![on] = outstanding[on] \ {awaited}]
      /\ order' = [order EXCEPT ![on] = Tail(order[on])]
      /\ op' = "ioctl"
      /\ UNCHANGED <<alive, fd, ready, issued, inflight, ring, opened, on, pumping>>
  BY Zenon DEF Throttled, drvVars
<1>2. on \in Streams /\ fd[on] # NoFd /\ order[on] # <<>> /\ issued < MaxCmds
  BY <1>1, Zenon DEF StreamInv, CallInv
<1>3. /\ outstanding \in [Streams -> SUBSET Cmds] /\ order \in [Streams -> Seq(Cmds)]
      /\ alive \in SUBSET Streams /\ fd \in [Streams -> Fds \cup {NoFd}]
  BY Zenon DEF StreamInv, StreamType
<1>4. /\ outstanding' \in [Streams -> SUBSET Cmds] /\ outstanding'[on] = outstanding[on] \ {awaited}
      /\ \A s \in Streams : s # on => outstanding'[s] = outstanding[s] /\ order'[s] = order[s]
  BY <1>1, <1>2, <1>3, Zenon
<1>5. order' \in [Streams -> Seq(Cmds)]
  <2> DEFINE t == Tail(order[on])
  <2>1. t \in Seq(Cmds)
    BY <1>2, <1>3
  <2> HIDE DEF t
  <2>2. order' = [order EXCEPT ![on] = t]
    BY <1>1, Zenon DEF t
  <2> QED BY <1>3, <2>1, <2>2, Zenon
<1>6. StreamType'
  BY <1>1, <1>4, <1>5, Zenon DEF StreamInv, StreamType
<1>7. CallInv'
  BY <1>1, <1>2, Zenon DEF CallInv
<1>8. OwnerInv'
  <2>1. on \in alive
    BY <1>2, Zenon DEF StreamInv, OwnerInv
  <2>2. \A s \in Streams : s \notin alive' => fd'[s] = NoFd /\ outstanding'[s] = {} /\ order'[s] = <<>>
    BY <1>1, <1>4, <2>1, Zenon DEF StreamInv, OwnerInv
  <2> QED BY <1>1, <2>2, Zenon DEF StreamInv, OwnerInv
<1>9. \A f \in Fds : Unread(f)' = Unread(f) /\ Known(f)' = Known(f)
  BY <1>1, Zenon DEF Unread, Known
<1>10. PlaceInv'
  BY <1>1, <1>9, Zenon DEF StreamInv, PlaceInv
<1>11. NoStrayCompletion'
  <2>1. ASSUME NEW s \in Streams, fd[s] # NoFd
        PROVE  inflight[fd[s]] \cup Unread(fd[s]) \subseteq outstanding'[s]
    <3>1. inflight[fd[s]] \cup Unread(fd[s]) \subseteq outstanding[s]
      BY <2>1, Zenon DEF StreamInv, NoStrayCompletion
    <3>2. fd[s] \in Fds
      BY <1>3, <2>1, Zenon
    <3>3. awaited \notin inflight[fd[s]] \cup Unread(fd[s])
      BY <1>1, <3>2, Zenon DEF StreamInv, PlaceInv, Known
    <3>4. CASE s = on
      BY <1>4, <3>1, <3>3, <3>4, Zenon
    <3>5. CASE s # on
      BY <1>4, <3>1, <3>5, Zenon
    <3> QED BY <3>4, <3>5, Zenon
  <2>2. \A s \in Streams : Unread(fd[s])' = Unread(fd[s]) /\ fd'[s] = fd[s] /\ inflight'[fd[s]] = inflight[fd[s]]
    BY <1>1, Zenon DEF Unread
  <2>3. inflight' = inflight /\ fd' = fd
    BY <1>1, Zenon
  <2> QED BY <2>1, <2>2, <2>3, Zenon DEF NoStrayCompletion
<1> QED BY <1>6, <1>7, <1>8, <1>10, <1>11, Zenon DEF StreamInv

(* The driver's new cmd_id is not in use anywhere.                         *)
LEMMA DoSubmitStep ==
  ASSUME StreamInv, DoSubmit
  PROVE  StreamInv'
<1>1. op = "ioctl" /\ on \in Streams /\ fd[on] # NoFd /\ issued < MaxCmds /\ ~ pumping
  BY Zenon DEF StreamInv, CallInv, DoSubmit
<1>2. /\ outstanding \in [Streams -> SUBSET Cmds] /\ order \in [Streams -> Seq(Cmds)]
      /\ fd \in [Streams -> Fds \cup {NoFd}] /\ inflight \in [Fds -> SUBSET Cmds]
  BY Zenon DEF StreamInv, StreamType
<1>3. issued \in 0..MaxCmds /\ MaxCmds \in Nat
  BY StreamAssumption, Zenon DEF StreamInv, StreamType
<1>4. PICK c \in Cmds : c = issued + 1
  BY <1>1, <1>3 DEF Cmds
<1>5. PICK f \in Fds : f = fd[on]
  BY <1>1, <1>2, Zenon
<1>6. /\ issued' = c /\ inflight' = [inflight EXCEPT ![f] = inflight[f] \cup {c}]
      /\ outstanding' = [outstanding EXCEPT ![on] = outstanding[on] \cup {c}]
      /\ order' = [order EXCEPT ![on] = Append(order[on], c)]
      /\ op' = "none"
      /\ UNCHANGED <<alive, fd, ready, opened, ring, pumping>>
  BY <1>4, <1>5, Zenon DEF DoSubmit, Accept, Leave
<1>7. c \in 0..MaxCmds /\ c \notin 1..issued /\ 1..issued \subseteq 1..c /\ c \in 1..c
  BY <1>1, <1>3, <1>4
<1>8. /\ outstanding' \in [Streams -> SUBSET Cmds] /\ outstanding'[on] = outstanding[on] \cup {c}
      /\ \A s \in Streams : s # on => outstanding'[s] = outstanding[s] /\ order'[s] = order[s]
  BY <1>1, <1>2, <1>6, Zenon
<1>9. order' \in [Streams -> Seq(Cmds)]
  <2> DEFINE n == Append(order[on], c)
  <2>1. n \in Seq(Cmds)
    BY <1>1, <1>2
  <2> HIDE DEF n
  <2>2. order' = [order EXCEPT ![on] = n]
    BY <1>6, Zenon DEF n
  <2> QED BY <1>2, <2>1, <2>2, Zenon
<1>10. /\ inflight' \in [Fds -> SUBSET Cmds] /\ inflight'[f] = inflight[f] \cup {c}
       /\ \A g \in Fds : g # f => inflight'[g] = inflight[g]
  BY <1>2, <1>6, Zenon
<1>11. StreamType'
  BY <1>6, <1>7, <1>8, <1>9, <1>10, Zenon DEF StreamInv, StreamType
<1>12. CallInv'
  BY <1>1, <1>6, Zenon DEF CallInv
<1>13. OwnerInv'
  <2>1. on \in alive
    BY <1>1, Zenon DEF StreamInv, OwnerInv
  <2>2. \A s \in Streams : s \notin alive' => fd'[s] = NoFd /\ outstanding'[s] = {} /\ order'[s] = <<>>
    BY <1>6, <1>8, <2>1, Zenon DEF StreamInv, OwnerInv
  <2>3. ASSUME NEW g \in Fds, \A s \in Streams : fd[s] # g PROVE inflight'[g] = {} /\ ring'[g] = <<>>
    <3>1. g # f
      BY <1>1, <1>5, <2>3, Zenon
    <3> QED BY <1>6, <1>10, <2>3, <3>1, Zenon DEF StreamInv, OwnerInv
  <2> QED BY <1>6, <2>2, <2>3, Zenon DEF StreamInv, OwnerInv
<1>14. /\ \A g \in Fds : Unread(g)' = Unread(g)
       /\ Known(f)' = Known(f) \cup {c}
       /\ \A g \in Fds : g # f => Known(g)' = Known(g)
  <2>1. \A g \in Fds : Unread(g)' = Unread(g)
    BY <1>6, Zenon DEF Unread
  <2> QED BY <1>10, <2>1, Zenon DEF Known
<1>15. PlaceInv'
  <2>1. \A g \in Fds : Known(g) \subseteq 1..issued /\ Unread(g) \subseteq Known(g) /\ c \notin Known(g)
    BY <1>7, Zenon DEF StreamInv, PlaceInv, Known
  <2>2. ASSUME NEW g \in Fds PROVE Distinct(ring'[g]) /\ inflight'[g] \cap Unread(g)' = {}
    <3>1. Distinct(ring'[g]) /\ inflight[g] \cap Unread(g)' = {}
      BY <1>6, <1>14, Zenon DEF StreamInv, PlaceInv
    <3> QED BY <1>10, <1>14, <2>1, <3>1, Zenon
  <2>3. ASSUME NEW g \in Fds, NEW h \in Fds, g # h PROVE Known(g)' \cap Known(h)' = {}
    <3>1. Known(g) \cap Known(h) = {}
      BY <2>3, Zenon DEF StreamInv, PlaceInv
    <3> QED BY <1>14, <2>1, <2>3, <3>1
  <2>4. ASSUME NEW g \in Fds PROVE Known(g)' \subseteq 1..c /\ Known(g)' \cap ready = {}
    <3>1. ready \subseteq 1..issued /\ Known(g) \cap ready = {}
      BY Zenon DEF StreamInv, PlaceInv
    <3> QED BY <1>7, <1>14, <2>1, <3>1
  <2>5. ready \subseteq 1..c
    BY <1>7, Zenon DEF StreamInv, PlaceInv
  <2> QED BY <1>6, <2>2, <2>3, <2>4, <2>5, Zenon DEF PlaceInv
<1>16. NoStrayCompletion'
  <2>1. ASSUME NEW s \in Streams, fd[s] # NoFd
        PROVE  inflight'[fd[s]] \cup Unread(fd[s])' \subseteq outstanding'[s]
    <3>1. PICK g \in Fds : g = fd[s]
      BY <1>2, <2>1, Zenon
    <3>2. Known(g) \subseteq outstanding[s]
      BY <2>1, <3>1, Zenon DEF StreamInv, NoStrayCompletion, Known
    <3>3. Known(g)' \subseteq outstanding'[s]
      <4>1. CASE s = on
        BY <1>5, <1>8, <1>14, <3>1, <3>2, <4>1, Zenon
      <4>2. CASE s # on
        <5>1. g # f
          BY <1>1, <1>5, <2>1, <3>1, <4>2, Zenon DEF StreamInv, OwnerInv
        <5> QED BY <1>8, <1>14, <3>2, <4>2, <5>1, Zenon
      <4> QED BY <4>1, <4>2, Zenon
    <3>4. fd'[s] = g
      BY <1>6, <3>1, Zenon
    <3> QED BY <3>1, <3>3, <3>4, Zenon DEF Known, Unread
  <2>2. fd' = fd
    BY <1>6, Zenon
  <2> QED BY <2>1, <2>2, Zenon DEF NoStrayCompletion
<1> QED BY <1>11, <1>12, <1>13, <1>15, <1>16, Zenon DEF StreamInv

(* pump() takes what it reads out of the ring and makes it ready.          *)
LEMMA PumpStep ==
  ASSUME StreamInv, PumpBatch
  PROVE  StreamInv'
<1>1. /\ on \in Streams /\ fd[on] \in Fds
      /\ inflight' = inflight /\ fd' = fd /\ ring' \in [Fds -> Seq(Cmds)]
      /\ \A g \in Fds : g # fd[on] => ring'[g] = ring[g]
      /\ Distinct(ring'[fd[on]])
  BY PumpKnown, Zenon DEF StreamInv
<1>2. PICK f \in Fds : f = fd[on]
  BY <1>1, Zenon
<1>3. PICK got \in SUBSET Unread(f) :
        /\ Elems(ring'[f]) = Unread(f) \ got
        /\ ready' = ready \cup (got \cap outstanding[on])
        /\ outstanding' = [outstanding EXCEPT ![on] = outstanding[on] \ got]
  BY <1>2, PumpKnown, Zenon DEF StreamInv
<1>4. UNCHANGED <<alive, order, issued, opened>>
  BY Zenon DEF PumpBatch, Apply
<1>5. /\ outstanding \in [Streams -> SUBSET Cmds] /\ ready \in SUBSET Cmds
      /\ fd \in [Streams -> Fds \cup {NoFd}]
  BY Zenon DEF StreamInv, StreamType
<1>6. /\ outstanding' \in [Streams -> SUBSET Cmds] /\ outstanding'[on] = outstanding[on] \ got
      /\ \A s \in Streams : s # on => outstanding'[s] = outstanding[s]
  BY <1>1, <1>3, <1>5, Zenon
<1>7. ready' \in SUBSET Cmds
  <2>1. outstanding[on] \in SUBSET Cmds
    BY <1>1, <1>5, Zenon
  <2> QED BY <1>3, <1>5, <2>1, Zenon
<1>8. StreamType'
  BY <1>1, <1>4, <1>6, <1>7, Zenon DEF StreamInv, StreamType
<1>9. CallInv'
  <2>1. pumping /\ op \in {"throttle", "wait", "pump"} /\ fd[on] # NoFd
    BY Zenon DEF PumpBatch, StreamInv, CallInv
  <2>2. CASE op' = "none" /\ ~ pumping'
    BY <2>2, Zenon DEF CallInv
  <2>3. CASE UNCHANGED <<op, on, awaited>>
    BY <1>1, <1>4, <2>1, <2>3, Zenon DEF StreamInv, CallInv
  <2>4. (op' = "none" /\ ~ pumping') \/ UNCHANGED <<op, on, awaited>>
    <3>1. /\ pumping' = (ReadCount = Batch)
          /\ IF ReadCount < Batch /\ op = "pump" THEN Leave ELSE UNCHANGED <<op, on, awaited>>
      BY Zenon DEF PumpBatch, Apply
    <3> DEFINE k == ReadCount
    <3>2. k \in Nat /\ Batch \in Nat
      <4>1. ring[fd[on]] \in Seq(Cmds)
        BY <1>1, Zenon DEF StreamInv, StreamType
      <4> QED BY <4>1, StreamAssumption DEF ReadCount
    <3> HIDE DEF k
    <3>3. k < Batch => ~ (k = Batch)
      BY <3>2
    <3>4. CASE k < Batch /\ op = "pump"
      BY <3>1, <3>3, <3>4, Zenon DEF k, Leave
    <3>5. CASE ~ (k < Batch /\ op = "pump")
      BY <3>1, <3>5, Zenon DEF k
    <3> QED BY <3>4, <3>5, Zenon
  <2> QED BY <2>2, <2>3, <2>4, Zenon
<1>10. OwnerInv'
  <2>1. on \in alive
    <3>1. fd[on] # NoFd
      BY <1>1, StreamAssumption, Zenon
    <3> QED BY <1>1, <3>1, Zenon DEF StreamInv, OwnerInv
  <2>2. \A s \in Streams : s \notin alive' => fd'[s] = NoFd /\ outstanding'[s] = {} /\ order'[s] = <<>>
    BY <1>1, <1>4, <1>6, <2>1, Zenon DEF StreamInv, OwnerInv
  <2>3. ASSUME NEW g \in Fds, \A s \in Streams : fd[s] # g PROVE inflight'[g] = {} /\ ring'[g] = <<>>
    BY <1>1, <2>3, Zenon DEF StreamInv, OwnerInv
  <2> QED BY <1>1, <1>4, <2>2, <2>3, Zenon DEF StreamInv, OwnerInv
<1>11. /\ Unread(f)' = Unread(f) \ got
       /\ \A g \in Fds : g # f => Unread(g)' = Unread(g)
  <2>1. Unread(f)' = Elems(ring'[f])
    BY Zenon DEF Unread, Elems
  <2>2. ASSUME NEW g \in Fds, g # f PROVE Unread(g)' = Unread(g)
    BY <1>1, <1>2, <2>2 DEF Unread
  <2> QED BY <1>3, <2>1, <2>2, Zenon
<1>12. /\ Known(f)' = Known(f) \ got
       /\ \A g \in Fds : g # f => Known(g)' = Known(g)
  <2>1. inflight[f] \cap Unread(f) = {}
    BY Zenon DEF StreamInv, PlaceInv
  <2> QED BY <1>1, <1>11, <2>1, Zenon DEF Known
<1>13. PlaceInv'
  <2>1. /\ \A g \in Fds : Known(g) \subseteq 1..issued /\ Known(g)' \subseteq Known(g) /\ Known(g) \cap ready = {}
        /\ ready \subseteq 1..issued /\ got \subseteq Known(f)
    BY <1>12, Zenon DEF StreamInv, PlaceInv, Known
  <2>2. ASSUME NEW g \in Fds PROVE Distinct(ring'[g]) /\ inflight'[g] \cap Unread(g)' = {}
    <3>1. Distinct(ring[g]) /\ inflight[g] \cap Unread(g) = {}
      BY Zenon DEF StreamInv, PlaceInv
    <3>2. CASE g = f
      BY <1>1, <1>2, <1>11, <3>1, <3>2, Zenon
    <3>3. CASE g # f
      BY <1>1, <1>2, <1>11, <3>1, <3>3, Zenon
    <3> QED BY <3>2, <3>3, Zenon
  <2>3. ASSUME NEW g \in Fds, NEW h \in Fds, g # h PROVE Known(g)' \cap Known(h)' = {}
    <3>1. Known(g) \cap Known(h) = {}
      BY <2>3, Zenon DEF StreamInv, PlaceInv
    <3> QED BY <2>1, <3>1, Zenon
  <2>4. ASSUME NEW g \in Fds PROVE Known(g)' \subseteq 1..issued /\ Known(g)' \cap ready' = {}
    <3>1. Known(g)' \cap got = {}
      <4>1. CASE g = f
        BY <1>12, <4>1, Zenon
      <4>2. CASE g # f
        <5>1. Known(g) \cap Known(f) = {}
          BY <4>2, Zenon DEF StreamInv, PlaceInv
        <5> QED BY <2>1, <5>1, Zenon
      <4> QED BY <4>1, <4>2, Zenon
    <3> QED BY <1>3, <2>1, <3>1, Zenon
  <2>5. ready' \subseteq 1..issued
    BY <1>3, <2>1, Zenon
  <2> QED BY <1>4, <2>2, <2>3, <2>4, <2>5, Zenon DEF PlaceInv
<1>14. NoStrayCompletion'
  <2>1. ASSUME NEW s \in Streams, fd[s] # NoFd
        PROVE  inflight'[fd[s]] \cup Unread(fd[s])' \subseteq outstanding'[s]
    <3>1. PICK g \in Fds : g = fd[s]
      BY <1>5, <2>1, Zenon
    <3>2. Known(g) \subseteq outstanding[s]
      BY <2>1, <3>1, Zenon DEF StreamInv, NoStrayCompletion, Known
    <3>3. Known(g)' \subseteq outstanding'[s]
      <4>1. CASE s = on
        BY <1>2, <1>6, <1>12, <3>1, <3>2, <4>1, Zenon
      <4>2. CASE s # on
        <5>1. g # f
          BY <1>1, <1>2, <2>1, <3>1, <4>2, Zenon DEF StreamInv, OwnerInv
        <5> QED BY <1>6, <1>12, <3>2, <4>2, <5>1, Zenon
      <4> QED BY <4>1, <4>2, Zenon
    <3>4. fd'[s] = g
      BY <1>1, <3>1, Zenon
    <3> QED BY <3>1, <3>3, <3>4, Zenon DEF Known, Unread
  <2> QED BY <1>1, <2>1, Zenon DEF NoStrayCompletion
<1> QED BY <1>8, <1>9, <1>10, <1>13, <1>14, Zenon DEF StreamInv

(* A completion goes to the end of the ring, and a full ring drops its     *)
(* oldest.                                                                 *)
LEMMA CompleteStep ==
  ASSUME StreamInv, NEW f \in Fds, NEW c \in inflight[f], Complete(f, c)
  PROVE  StreamInv'
<1>1. /\ \A g \in Fds : g # f => inflight'[g] = inflight[g] /\ ring'[g] = ring[g]
      /\ inflight' \in [Fds -> SUBSET Cmds] /\ ring' \in [Fds -> Seq(Cmds)]
      /\ inflight'[f] = inflight[f] \ {c}
      /\ Distinct(ring'[f])
      /\ Unread(f)' \subseteq Unread(f) \cup {c}
  BY CompleteKnown, Zenon DEF StreamInv
<1>2. UNCHANGED <<alive, fd, outstanding, order, ready, issued, moved, opened, op, on, awaited, pumping>>
  BY Zenon DEF Complete, objVars, callVars
<1>3. StreamType'
  BY <1>1, <1>2, Zenon DEF StreamInv, StreamType
<1>4. CallInv'
  BY <1>2, Zenon DEF StreamInv, CallInv
<1>5. OwnerInv'
  <2>1. ASSUME NEW g \in Fds, \A s \in Streams : fd[s] # g PROVE inflight'[g] = {} /\ ring'[g] = <<>>
    <3>1. inflight[g] = {} /\ ring[g] = <<>>
      BY <2>1, Zenon DEF StreamInv, OwnerInv
    <3> QED BY <1>1, <3>1, Zenon
  <2> QED BY <1>2, <2>1, Zenon DEF StreamInv, OwnerInv
<1>6. \A g \in Fds : Known(g)' \subseteq Known(g)
  <2>1. ASSUME NEW g \in Fds, g # f PROVE Known(g)' = Known(g)
    BY <1>1, <2>1, Zenon DEF Known, Unread
  <2>2. Known(f)' \subseteq Known(f)
    BY <1>1, Zenon DEF Known
  <2> QED BY <2>1, <2>2, Zenon
<1>7. PlaceInv'
  <2>1. ASSUME NEW g \in Fds PROVE Distinct(ring'[g]) /\ inflight'[g] \cap Unread(g)' = {}
    <3>1. Distinct(ring[g]) /\ inflight[g] \cap Unread(g) = {}
      BY Zenon DEF StreamInv, PlaceInv
    <3>2. CASE g = f
      BY <1>1, <3>1, <3>2, Zenon
    <3>3. CASE g # f
      BY <1>1, <3>1, <3>3 DEF Unread
    <3> QED BY <3>2, <3>3, Zenon
  <2>2. /\ \A g, h \in Fds : g # h => Known(g)' \cap Known(h)' = {}
        /\ \A g \in Fds : Known(g)' \subseteq 1..issued /\ Known(g)' \cap ready = {}
        /\ ready \subseteq 1..issued
    BY <1>6, Zenon DEF StreamInv, PlaceInv
  <2> QED BY <1>2, <2>1, <2>2, Zenon DEF PlaceInv
<1>8. NoStrayCompletion'
  <2>1. ASSUME NEW s \in Streams, fd[s] # NoFd
        PROVE  inflight'[fd[s]] \cup Unread(fd[s])' \subseteq outstanding'[s]
    <3>1. PICK g \in Fds : g = fd[s]
      BY <2>1, Zenon DEF StreamInv, StreamType
    <3>2. Known(g) \subseteq outstanding[s]
      BY <2>1, <3>1, Zenon DEF StreamInv, NoStrayCompletion, Known
    <3>3. Known(g)' \subseteq outstanding'[s]
      BY <1>2, <1>6, <3>2, Zenon
    <3>4. fd'[s] = g
      BY <1>2, <3>1, Zenon
    <3> QED BY <3>1, <3>3, <3>4, Zenon DEF Known, Unread
  <2>2. fd' = fd
    BY <1>2, Zenon
  <2> QED BY <2>1, <2>2, Zenon DEF NoStrayCompletion
<1> QED BY <1>3, <1>4, <1>5, <1>7, <1>8, Zenon DEF StreamInv

(* Every step keeps the invariant.                                         *)
LEMMA StreamStep == StreamInv /\ [Next]_vars => StreamInv'
<1> SUFFICES ASSUME StreamInv, [Next]_vars PROVE StreamInv'
  BY Zenon
<1>1. CASE ObjectStep
  BY <1>1, ConstructStep, MoveStep, DestroyStep, Zenon DEF ObjectStep
<1>2. CASE Calls \/ CallStep \/ SubmitThrows \/ GiveUp
  BY <1>2, EnterStep, ThrottledStep, DoSubmitStep, PumpStep, Zenon DEF Calls, CallStep
<1>3. CASE DriverStep
  BY <1>3, CompleteStep, Zenon DEF DriverStep
<1>4. CASE UNCHANGED vars
  <2>1. UNCHANGED <<objVars, ready, issued, drvVars>> /\ UNCHANGED <<fd, order, issued, op, on, awaited, pumping>>
    BY <1>4, Zenon DEF vars, objVars, callVars
  <2>2. CallInv'
    BY <2>1, Zenon DEF StreamInv, CallInv
  <2> QED BY <2>1, <2>2, SameInv, Zenon DEF StreamInv
<1> QED BY <1>1, <1>2, <1>3, <1>4, Zenon DEF Next

-----------------------------------------------------------------------------
(* outstanding_ is exact                                                   *)

INSTANCE FiniteSetTheorems

(* A list without repetitions is shorter than one that has its elements    *)
(* and another.                                                            *)
LEMMA Shorter ==
  ASSUME NEW S, NEW q \in Seq(S), NEW p \in Seq(S), Distinct(q),
         NEW x, x \notin Elems(q), Elems(q) \cup {x} \subseteq Elems(p)
  PROVE  Len(q) < Len(p)
<1> DEFINE l == Len(q)
           m == Len(p)
           at(i) == IF i = 0 THEN x ELSE q[i]
           f == [i \in 0..l |-> CHOOSE j \in 1..m : p[j] = at(i)]
<1>1. l \in Nat /\ m \in Nat
  OBVIOUS
<1>2. /\ \A y : y \in Elems(q) <=> \E i \in 1..l : y = q[i]
      /\ \A y : y \in Elems(p) <=> \E i \in 1..m : y = p[i]
  BY ElemsIs, Zenon
<1> HIDE DEF l, m
<1>3. \A i \in 0..l : i = 0 \/ i \in 1..l
  BY <1>1
<1>4. ASSUME NEW i \in 0..l PROVE f[i] \in 1..m /\ p[f[i]] = at(i)
  <2>1. at(i) \in Elems(q) \cup {x}
    BY <1>2, <1>3, Zenon
  <2>2. \E j \in 1..m : p[j] = at(i)
    BY <1>2, <2>1, Zenon
  <2> QED BY <2>2, Zenon
<1>5. ASSUME NEW i \in 0..l, NEW j \in 0..l, at(i) = at(j) PROVE i = j
  <2>1. CASE i = 0 \/ j = 0
    BY <1>2, <1>3, <1>5, <2>1, Zenon
  <2>2. CASE i # 0 /\ j # 0
    BY <1>3, <1>5, <2>2, Zenon DEF Distinct, l
  <2> QED BY <2>1, <2>2, Zenon
<1>6. f \in [0..l -> 1..m]
  BY <1>4, Zenon
<1> HIDE DEF f, at
<1>7. SUFFICES ASSUME ~ (l < m) PROVE FALSE
  BY Zenon DEF l, m
<1>8. /\ IsFiniteSet(0..l) /\ Cardinality(0..l) = l + 1
      /\ IsFiniteSet(1..m) /\ Cardinality(1..m) = m
  BY <1>1, FS_Interval
<1>9. Cardinality(1..m) < Cardinality(0..l)
  BY <1>1, <1>7, <1>8
<1>10. \E i, j \in 0..l : i # j /\ f[i] = f[j]
  BY <1>6, <1>8, <1>9, FS_PigeonHole, Zenon
<1> QED BY <1>4, <1>5, <1>10, ZenonT(30)

(* Backpressure keeps the ring of a Stream that was not moved from         *)
(* dropping an entry.                                                      *)
LEMMA RingHasRoom ==
  ASSUME StreamInv, ExactInv, QueueDepth <= CompRingSize,
         NEW s \in Streams, fd[s] \notin moved \cup {NoFd}, NEW c \in inflight[fd[s]]
  PROVE  Len(ring[fd[s]]) < CompRingSize
<1>1. PICK f \in Fds : f = fd[s]
  BY Zenon DEF StreamInv, StreamType
<1>2. /\ ring[f] \in Seq(Cmds) /\ order[s] \in Seq(Cmds)
      /\ Distinct(ring[f]) /\ inflight[f] \cap Unread(f) = {}
  BY Zenon DEF StreamInv, StreamType, PlaceInv
<1>3. Known(f) \subseteq outstanding[s]
  BY <1>1, Zenon DEF StreamInv, NoStrayCompletion, Known
<1>4. outstanding[s] \subseteq Elems(order[s]) /\ Len(order[s]) <= QueueDepth
  BY Zenon DEF ExactInv
<1>5. Unread(f) = Elems(ring[f])
  BY Zenon DEF Unread, Elems
<1>6. c \notin Elems(ring[f]) /\ Elems(ring[f]) \cup {c} \subseteq Elems(order[s])
  BY <1>1, <1>2, <1>3, <1>4, <1>5, Zenon DEF Known
<1>7. Len(ring[f]) < Len(order[s])
  BY <1>2, <1>6, Shorter, Zenon
<1>8. Len(ring[f]) \in Nat /\ Len(order[s]) \in Nat
  BY <1>2
<1> QED BY <1>1, <1>4, <1>7, <1>8, StreamAssumption

(* A Stream whose own state, and whose session, does not change stays      *)
(* exact.                                                                  *)
LEMMA ExactKept ==
  ASSUME ExactInv, NEW s \in Streams, fd'[s] \notin moved' \cup {NoFd},
         fd'[s] = fd[s], outstanding'[s] = outstanding[s], order'[s] = order[s],
         fd[s] \notin moved' => fd[s] \notin moved,
         inflight'[fd[s]] = inflight[fd[s]], ring'[fd[s]] = ring[fd[s]]
  PROVE  /\ outstanding'[s] \subseteq Known(fd[s])'
         /\ outstanding'[s] \subseteq Elems(order'[s])
         /\ Len(order'[s]) <= QueueDepth
<1>1. fd[s] \notin moved \cup {NoFd}
  BY Zenon
<1>2. /\ outstanding[s] \subseteq Known(fd[s])
      /\ outstanding[s] \subseteq Elems(order[s])
      /\ Len(order[s]) <= QueueDepth
  BY <1>1, Zenon DEF ExactInv
<1>3. Known(fd[s])' = Known(fd[s])
  BY Zenon DEF Known, Unread
<1> QED BY <1>2, <1>3, Zenon

(* With a ring no shorter than submission_order_ may grow, a Stream that   *)
(* was not moved never misses a completion.                                *)
LEMMA ExactStep ==
  ASSUME QueueDepth <= CompRingSize, StreamInv, ExactInv, [Next]_vars
  PROVE  ExactInv'
<1> DEFINE E(s) == /\ outstanding[s] \subseteq Known(fd[s])
                   /\ outstanding[s] \subseteq Elems(order[s])
                   /\ Len(order[s]) <= QueueDepth
<1>1. /\ \A s \in Streams : fd[s] \notin moved \cup {NoFd} => E(s)
      /\ op = "ioctl" /\ fd[on] \notin moved => Len(order[on]) < QueueDepth
  BY Zenon DEF ExactInv
<1>2. /\ outstanding \in [Streams -> SUBSET Cmds] /\ order \in [Streams -> Seq(Cmds)]
      /\ fd \in [Streams -> Fds \cup {NoFd}] /\ inflight \in [Fds -> SUBSET Cmds]
      /\ ring \in [Fds -> Seq(Cmds)]
  BY Zenon DEF StreamInv, StreamType
<1> SUFFICES /\ \A s \in Streams : fd'[s] \notin moved' \cup {NoFd} => E(s)'
             /\ op' = "ioctl" /\ fd'[on'] \notin moved' => Len(order'[on']) < QueueDepth
  BY Zenon DEF ExactInv
<1> HIDE DEF E
<1>3. ASSUME UNCHANGED <<objVars, moved, inflight, ring>>
      PROVE  \A s \in Streams : fd'[s] \notin moved' \cup {NoFd} => E(s)'
  <2>1. UNCHANGED <<fd, outstanding, order, moved, inflight, ring>>
    BY <1>3, Zenon DEF objVars
  <2> QED BY <1>1, <2>1 DEF E, Known, Unread
<1>4. ASSUME NEW s \in Streams, NEW f \in Fds, Construct(s, f)
      PROVE  \A u \in Streams : fd'[u] \notin moved' \cup {NoFd} => E(u)'
  <2>1. /\ s \notin alive /\ fd' = [fd EXCEPT ![s] = f]
        /\ UNCHANGED <<outstanding, order, moved, inflight, ring>>
    BY <1>4, Zenon DEF Construct
  <2>2. outstanding[s] = {} /\ order[s] = <<>>
    BY <2>1, Zenon DEF StreamInv, OwnerInv
  <2>3. ASSUME NEW u \in Streams, fd'[u] \notin moved' \cup {NoFd} PROVE E(u)'
    <3>1. CASE u = s
      BY <2>1, <2>2, <3>1, StreamAssumption DEF E
    <3>2. CASE u # s
      <4>1. fd'[u] = fd[u]
        BY <1>2, <2>1, <3>2, Zenon
      <4> QED BY <2>1, <2>3, <4>1, ExactKept, Zenon DEF E
    <3> QED BY <3>1, <3>2, Zenon
  <2> QED BY <2>3, Zenon
<1>5. ASSUME NEW s \in Streams, NEW r \in Streams, MoveConstruct(s, r) \/ MoveAssign(s, r)
      PROVE  \A u \in Streams : fd'[u] \notin moved' \cup {NoFd} => E(u)'
  <2>1. /\ Closed(fd[s]) /\ s # r /\ order' = order
        /\ fd' = [fd EXCEPT ![s] = fd[r], ![r] = NoFd] /\ moved' = moved \cup {fd[r]}
        /\ outstanding' = [outstanding EXCEPT ![s] = outstanding[r], ![r] = {}]
    BY <1>5, MoveStep, Zenon
  <2>2. ASSUME NEW u \in Streams, fd'[u] \notin moved' \cup {NoFd} PROVE E(u)'
    <3>1. u # s /\ u # r /\ fd'[u] = fd[u] /\ outstanding'[u] = outstanding[u]
      BY <1>2, <2>1, <2>2, Zenon
    <3>2. fd[u] \in Fds /\ fd[u] # fd[s]
      BY <1>2, <2>2, <3>1, Zenon DEF StreamInv, OwnerInv
    <3>3. inflight'[fd[u]] = inflight[fd[u]] /\ ring'[fd[u]] = ring[fd[u]]
      BY <2>1, <3>2, Zenon DEF Closed
    <3> QED BY <2>1, <2>2, <3>1, <3>3, ExactKept, Zenon DEF E
  <2> QED BY <2>2, Zenon
<1>6. ASSUME NEW s \in Streams, Destroy(s)
      PROVE  \A u \in Streams : fd'[u] \notin moved' \cup {NoFd} => E(u)'
  <2>1. /\ Closed(fd[s]) /\ moved' = moved
        /\ fd' = [fd EXCEPT ![s] = NoFd]
        /\ outstanding' = [outstanding EXCEPT ![s] = {}] /\ order' = [order EXCEPT ![s] = <<>>]
    BY <1>6, Zenon DEF Destroy
  <2>2. ASSUME NEW u \in Streams, fd'[u] \notin moved' \cup {NoFd} PROVE E(u)'
    <3>1. u # s /\ fd'[u] = fd[u] /\ outstanding'[u] = outstanding[u] /\ order'[u] = order[u]
      BY <1>2, <2>1, <2>2, Zenon
    <3>2. fd[u] \in Fds /\ fd[u] # fd[s]
      BY <1>2, <2>2, <3>1, Zenon DEF StreamInv, OwnerInv
    <3>3. inflight'[fd[u]] = inflight[fd[u]] /\ ring'[fd[u]] = ring[fd[u]]
      BY <2>1, <3>2, Zenon DEF Closed
    <3> QED BY <2>1, <2>2, <3>1, <3>3, ExactKept, Zenon DEF E
  <2> QED BY <2>2, Zenon
<1>7. CASE ObjectStep
  <2>1. op = "none" /\ op' = op
    BY <1>7, Zenon DEF ObjectStep, Construct, MoveConstruct, MoveAssign, Destroy, callVars
  <2> QED BY <1>4, <1>5, <1>6, <1>7, <2>1, Zenon DEF ObjectStep
<1>8. CASE Calls
  <2>1. UNCHANGED <<objVars, moved, inflight, ring>>
    BY <1>8, Zenon DEF Calls, Submit, PumpCall, WaitCall, drvVars
  <2>2. fd' = fd /\ order' = order /\ moved' = moved
    BY <2>1, Zenon DEF objVars
  <2>3. ASSUME op' = "ioctl" PROVE Len(order'[on']) < QueueDepth
    <3>1. PICK s \in Streams : Submit(s)
      BY <1>8, <2>3, Zenon DEF Calls, PumpCall, WaitCall, Enter
    <3>2. on' = s /\ ~ (Len(order[s]) >= QueueDepth)
      BY <2>3, <3>1, Zenon DEF Submit, Enter
    <3>3. Len(order[s]) \in Nat
      BY <1>2
    <3> QED BY <2>2, <3>2, <3>3, StreamAssumption
  <2> QED BY <1>3, <2>1, <2>3, Zenon
<1>9. CASE SubmitThrows \/ GiveUp \/ WaitDone \/ PollReturns
  <2>1. UNCHANGED <<objVars, moved, inflight, ring>> /\ op' # "ioctl"
    BY <1>9, Zenon DEF SubmitThrows, GiveUp, WaitDone, PollReturns, Leave, drvVars
  <2> QED BY <1>3, <2>1, Zenon
<1>10. CASE UNCHANGED vars
  <2>1. UNCHANGED <<objVars, moved, inflight, ring>> /\ UNCHANGED <<op, on, fd, order, moved>>
    BY <1>10, Zenon DEF vars, objVars, drvVars, callVars
  <2> QED BY <1>1, <1>3, <2>1, Zenon
<1>11. CASE Throttled
  <2>1. /\ op = "throttle" /\ op' = "ioctl" /\ on' = on
        /\ outstanding' = [outstanding EXCEPT ![on] = outstanding[on] \ {awaited}]
        /\ order' = [order EXCEPT ![on] = Tail(order[on])]
        /\ UNCHANGED <<fd, moved, inflight, ring>>
    BY <1>11, Zenon DEF Throttled, drvVars
  <2>2. on \in Streams /\ order[on] # <<>> /\ awaited = Head(order[on]) /\ fd[on] # NoFd
    BY <2>1, Zenon DEF StreamInv, CallInv
  <2>3. /\ outstanding'[on] = outstanding[on] \ {awaited} /\ order'[on] = Tail(order[on])
        /\ \A s \in Streams : s # on => outstanding'[s] = outstanding[s] /\ order'[s] = order[s]
    BY <1>2, <2>1, <2>2, Zenon
  <2>4. ASSUME fd[on] \notin moved
        PROVE  E(on)' /\ Len(order'[on]) < QueueDepth
    <3>1. E(on)
      BY <1>1, <2>2, <2>4, Zenon
    <3>2. order[on] \in Seq(Cmds) /\ Len(order[on]) \in Nat
      BY <1>2, <2>2
    <3>3. /\ Len(Tail(order[on])) = Len(order[on]) - 1
          /\ Elems(order[on]) \subseteq Elems(Tail(order[on])) \cup {awaited}
      BY <2>2, <3>2, TailElems, Zenon
    <3>4. /\ outstanding'[on] \subseteq Elems(order'[on])
          /\ Len(order'[on]) <= QueueDepth /\ Len(order'[on]) < QueueDepth
      BY <2>3, <3>1, <3>2, <3>3, StreamAssumption DEF E
    <3>5. outstanding'[on] \subseteq Known(fd[on])'
      <4>1. Known(fd[on])' = Known(fd[on])
        BY <2>1, Zenon DEF Known, Unread
      <4> QED BY <2>3, <3>1, <4>1, Zenon DEF E
    <3> QED BY <2>1, <3>4, <3>5, Zenon DEF E
  <2>5. ASSUME NEW s \in Streams, fd'[s] \notin moved' \cup {NoFd} PROVE E(s)'
    <3>1. CASE s = on
      BY <2>1, <2>4, <2>5, <3>1, Zenon
    <3>2. CASE s # on
      BY <2>1, <2>3, <2>5, <3>2, ExactKept, Zenon DEF E
    <3> QED BY <3>1, <3>2, Zenon
  <2> QED BY <2>1, <2>4, <2>5, Zenon
<1>12. CASE DoSubmit
  <2>1. PICK c : c = issued + 1
    BY Zenon
  <2>2. /\ op = "ioctl" /\ op' = "none"
        /\ inflight' = [inflight EXCEPT ![fd[on]] = inflight[fd[on]] \cup {c}]
        /\ outstanding' = [outstanding EXCEPT ![on] = outstanding[on] \cup {c}]
        /\ order' = [order EXCEPT ![on] = Append(order[on], c)]
        /\ UNCHANGED <<fd, moved, ring>>
    BY <1>12, <2>1, Zenon DEF DoSubmit, Accept, Leave
  <2>3. on \in Streams /\ fd[on] \in Fds /\ issued < MaxCmds
    BY <1>2, <2>2, Zenon DEF StreamInv, CallInv
  <2>4. /\ outstanding'[on] = outstanding[on] \cup {c} /\ order'[on] = Append(order[on], c)
        /\ inflight'[fd[on]] = inflight[fd[on]] \cup {c}
        /\ \A s \in Streams : s # on => outstanding'[s] = outstanding[s] /\ order'[s] = order[s]
        /\ \A g \in Fds : g # fd[on] => inflight'[g] = inflight[g]
    BY <1>2, <2>2, <2>3, Zenon
  <2>5. c \in Cmds
    BY <2>1, <2>3, StreamAssumption DEF StreamInv, StreamType, Cmds
  <2>6. ASSUME NEW s \in Streams, s = on, fd[on] \notin moved PROVE E(s)'
    <3>1. E(on) /\ Len(order[on]) < QueueDepth
      BY <1>1, <2>2, <2>3, <2>6, StreamAssumption, Zenon
    <3>2. order[on] \in Seq(Cmds) /\ Len(order[on]) \in Nat
      BY <1>2, <2>3
    <3>3. /\ Len(Append(order[on], c)) = Len(order[on]) + 1
          /\ Elems(Append(order[on], c)) = Elems(order[on]) \cup {c}
      BY <2>5, <3>2, AppendElems
    <3>4. /\ outstanding'[on] \subseteq Elems(order'[on])
          /\ Len(order'[on]) <= QueueDepth
      BY <2>4, <3>1, <3>2, <3>3, StreamAssumption DEF E
    <3>5. PICK f \in Fds : f = fd[on]
      BY <2>3, Zenon
    <3>6. Unread(f)' = Unread(f)
      BY <2>2, Zenon DEF Unread
    <3>7. outstanding'[on] \subseteq Known(f)'
      BY <2>4, <3>1, <3>5, <3>6 DEF E, Known
    <3>8. fd'[s] = f
      BY <2>2, <2>6, <3>5, Zenon
    <3>9. Known(fd[s])' = Known(f)'
      BY <3>8, Zenon DEF Known, Unread
    <3> QED BY <2>6, <3>4, <3>7, <3>9, Zenon DEF E
  <2>7. ASSUME NEW s \in Streams, fd'[s] \notin moved' \cup {NoFd} PROVE E(s)'
    <3>1. CASE s = on
      BY <2>2, <2>6, <2>7, <3>1, Zenon
    <3>2. CASE s # on
      <4>1. fd[s] # fd[on] /\ fd[s] \in Fds
        BY <1>2, <2>2, <2>3, <2>7, <3>2, Zenon DEF StreamInv, OwnerInv
      <4>2. inflight'[fd[s]] = inflight[fd[s]] /\ ring'[fd[s]] = ring[fd[s]]
        BY <2>2, <2>4, <4>1, Zenon
      <4> QED BY <2>2, <2>4, <2>7, <3>2, <4>2, ExactKept, Zenon DEF E
    <3> QED BY <3>1, <3>2, Zenon
  <2> QED BY <2>2, <2>7, Zenon
<1>13. CASE PumpBatch
  <2>1. /\ on \in Streams /\ fd[on] \in Fds
        /\ inflight' = inflight /\ fd' = fd /\ ring' \in [Fds -> Seq(Cmds)]
        /\ \A g \in Fds : g # fd[on] => ring'[g] = ring[g]
    BY <1>13, PumpKnown, Zenon DEF StreamInv
  <2>2. PICK f \in Fds : f = fd[on]
    BY <2>1, Zenon
  <2>3. PICK got \in SUBSET Unread(f) :
          /\ Elems(ring'[f]) = Unread(f) \ got
          /\ outstanding' = [outstanding EXCEPT ![on] = outstanding[on] \ got]
    BY <1>13, <2>2, PumpKnown, Zenon DEF StreamInv
  <2>4. moved' = moved /\ order' = order
    BY <1>13, Zenon DEF PumpBatch, Apply
  <2>5. op' # "ioctl"
    BY <1>13, Zenon DEF PumpBatch, Apply, Leave, StreamInv, CallInv
  <2>6. /\ outstanding'[on] = outstanding[on] \ got
        /\ \A s \in Streams : s # on => outstanding'[s] = outstanding[s]
    BY <1>2, <2>1, <2>3, Zenon
  <2>7. ASSUME NEW s \in Streams, fd'[s] \notin moved' \cup {NoFd} PROVE E(s)'
    <3>1. CASE s = on
      <4>1. E(s)
        BY <1>1, <2>1, <2>4, <2>7, Zenon
      <4>2. Unread(f)' = Unread(f) \ got
        BY <2>3, Zenon DEF Unread, Elems
      <4>3. outstanding'[s] \subseteq Known(f)'
        BY <2>1, <2>2, <2>6, <3>1, <4>1, <4>2, Zenon DEF E, Known
      <4>4. Known(fd[s])' = Known(f)'
        BY <2>1, <2>2, <3>1, Zenon DEF Known, Unread
      <4> QED BY <2>4, <2>6, <3>1, <4>1, <4>3, <4>4, Zenon DEF E
    <3>2. CASE s # on
      <4>1. fd[s] # fd[on] /\ fd[s] \in Fds
        BY <1>2, <2>1, <2>7, <3>2, Zenon DEF StreamInv, OwnerInv
      <4> QED BY <2>1, <2>4, <2>6, <2>7, <3>2, <4>1, ExactKept, Zenon DEF E
    <3> QED BY <3>1, <3>2, Zenon
  <2> QED BY <2>5, <2>7, Zenon
<1>14. CASE DriverStep
  <2>1. PICK f \in Fds : \E c \in inflight[f] : Complete(f, c)
    BY <1>14, Zenon DEF DriverStep
  <2>2. PICK c \in inflight[f] : Complete(f, c)
    BY <2>1, Zenon
  <2>3. /\ \A g \in Fds : g # f => inflight'[g] = inflight[g] /\ ring'[g] = ring[g]
        /\ inflight'[f] = inflight[f] \ {c}
        /\ Len(ring[f]) < CompRingSize => Unread(f)' = Unread(f) \cup {c}
    BY <2>2, CompleteKnown, Zenon DEF StreamInv
  <2>4. UNCHANGED <<fd, outstanding, order, moved, op, on>>
    BY <2>2, Zenon DEF Complete, objVars, callVars
  <2>5. ASSUME NEW s \in Streams, fd'[s] \notin moved' \cup {NoFd} PROVE E(s)'
    <3>1. CASE fd[s] = f
      <4>1. E(s) /\ fd[s] \notin moved \cup {NoFd}
        BY <1>1, <2>4, <2>5, Zenon
      <4>2. Len(ring[f]) < CompRingSize
        BY <2>2, <3>1, <4>1, RingHasRoom, Zenon
      <4>3. Known(f)' = Known(f)
        BY <2>2, <2>3, <4>2, Zenon DEF Known
      <4>4. Known(fd[s])' = Known(f)'
        BY <2>4, <3>1, Zenon DEF Known, Unread
      <4> QED BY <2>4, <3>1, <4>1, <4>3, <4>4, Zenon DEF E
    <3>2. CASE fd[s] # f
      <4>1. fd[s] \in Fds
        BY <1>2, <2>4, <2>5, Zenon
      <4> QED BY <2>3, <2>4, <2>5, <3>2, <4>1, ExactKept, Zenon DEF E
    <3> QED BY <3>1, <3>2, Zenon
  <2> QED BY <1>1, <2>4, <2>5, Zenon
<1> QED BY <1>7, <1>8, <1>9, <1>10, <1>11, <1>12, <1>13, <1>14, Zenon DEF Next, CallStep

(* pump() never reads a completion that is not in outstanding_, however    *)
(* Streams are constructed, moved and destroyed between the calls, and     *)
(* whatever the driver's ring dropped: what a session can still report is  *)
(* always known to the one Stream that holds its fd.                       *)
THEOREM PumpKnowsAll == Spec => []NoStrayCompletion
<1>1. Init => StreamInv
  BY InitInv, Zenon
<1>2. StreamInv => NoStrayCompletion
  BY Zenon DEF StreamInv
<1> QED BY <1>1, <1>2, StreamStep, PTL DEF Spec

(* With a completion ring at least as long as submission_order_ may grow   *)
(* (64 and 16 in the source), no completion of a Stream that was not moved *)
(* is ever dropped: outstanding_ is what the session has still to report,  *)
(* and a fence is ready only after its own completion has been read.       *)
THEOREM OutstandingAlwaysExact ==
  ASSUME QueueDepth <= CompRingSize
  PROVE  Spec => []OutstandingExact
<1>1. Init => StreamInv /\ ExactInv
  BY InitInv, Zenon
<1>2. StreamInv /\ ExactInv /\ [Next]_vars => StreamInv' /\ ExactInv'
  BY StreamStep, ExactStep, Zenon
<1>3. StreamInv /\ ExactInv => OutstandingExact
  <2> SUFFICES ASSUME StreamInv, ExactInv PROVE OutstandingExact
    BY Zenon
  <2>1. ASSUME NEW s \in Streams, fd[s] \notin moved \cup {NoFd}
        PROVE  outstanding[s] = inflight[fd[s]] \cup Unread(fd[s])
    <3>1. outstanding[s] \subseteq Known(fd[s])
      BY <2>1, Zenon DEF ExactInv
    <3>2. Known(fd[s]) \subseteq outstanding[s]
      BY <2>1, Zenon DEF StreamInv, NoStrayCompletion, Known
    <3> QED BY <3>1, <3>2, Zenon DEF Known
  <2>2. ASSUME NEW c \in ready PROVE c <= issued /\ \A f \in Fds : c \notin inflight[f] \cup Unread(f)
    <3>1. c \in 1..issued /\ issued \in Nat
      BY StreamAssumption DEF StreamInv, PlaceInv, StreamType
    <3>2. \A f \in Fds : c \notin Known(f)
      BY Zenon DEF StreamInv, PlaceInv
    <3> QED BY <3>1, <3>2 DEF Known
  <2> QED BY <2>1, <2>2, Zenon DEF OutstandingExact
<1> QED BY <1>1, <1>2, <1>3, PTL DEF Spec
=============================================================================
