------------------------------ MODULE MCWrites ------------------------------
(* Model values for the instances of module Writes.                         *)
EXTENDS Writes

CONSTANTS u1, u2
=============================================================================
