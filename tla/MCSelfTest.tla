----------------------------- MODULE MCSelfTest -----------------------------
(* Instances of SelfTest.                                                  *)
EXTENDS SelfTest
=============================================================================
