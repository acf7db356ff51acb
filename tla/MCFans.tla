------------------------------- MODULE MCFans -------------------------------
(* Instances of Fans for TLC: the artist and one reader.                   *)
EXTENDS Fans

CONSTANTS artist, reader
=============================================================================
