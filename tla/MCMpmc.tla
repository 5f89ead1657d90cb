------------------------------- MODULE MCMpmc -------------------------------
(* An instance of Mpmc for TLC.                                            *)
EXTENDS Mpmc
=============================================================================
