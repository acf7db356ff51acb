------------------------------- MODULE MCHome -------------------------------
(* Instances of Home for TLC.                                              *)
EXTENDS Home
=============================================================================
