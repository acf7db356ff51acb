----------------------------- MODULE MCSession -----------------------------
(* Instances of Session for TLC: two accounts, one of them to be           *)
(* registered.                                                             *)
EXTENDS Session

CONSTANTS old, new
=============================================================================
