------------------------------ MODULE MCStudio ------------------------------
(* Instances of Studio for TLC: one account's device, two pages instead of *)
(* five.                                                                   *)
EXTENDS Studio

CONSTANTS me, t1, t2
=============================================================================
