------------------------------ MODULE MCNotices ------------------------------
(* An instance of Notices for TLC: two accounts, one of which has become a  *)
(* fan; the notices that follow are likes and fans of either.               *)
EXTENDS Notices

CONSTANTS me, s1, s2, c1, c2

OneFan == << [uid |-> s1, type |-> "fan"] >>
=============================================================================
