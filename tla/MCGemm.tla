------------------------------- MODULE MCGemm -------------------------------
(* An instance of Gemm for TLC. *)
EXTENDS Gemm
=============================================================================
