----------------------------- MODULE MCCmdPath -----------------------------
(***************************************************************************)
(* Instances of CmdPath for TLC.                                           *)
(***************************************************************************)
EXTENDS CmdPath, TLC

CONSTANTS t1, t2, s1, s2

(* One thread drives every session (StreamScheduler, Scheduler).           *)
OneDriver == (t1 :> {s1, s2})

(* One thread per session (the multi-threaded tests of track-c).           *)
OwnSession == (t1 :> {s1}) @@ (t2 :> {s2})

(* A session shared by two threads, and one of them has a second.          *)
SharedSession == (t1 :> {s1}) @@ (t2 :> {s1, s2})

=============================================================================
