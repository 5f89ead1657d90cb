---------------------------- MODULE MCDependency ----------------------------
(***************************************************************************)
(* Instances of Dependency for TLC.                                        *)
(***************************************************************************)
EXTENDS Dependency
=============================================================================
