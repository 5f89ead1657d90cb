----------------------------- MODULE MCWorkload -----------------------------
(* An instance of Workload for TLC. *)
EXTENDS Workload
=============================================================================
