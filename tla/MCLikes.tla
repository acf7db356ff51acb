------------------------------ MODULE MCLikes ------------------------------
(* Instances of Likes for TLC: the author alone, or the author and another *)
(* account.  The accounts behave differently, so there is no symmetry.     *)
EXTENDS Likes

CONSTANTS author, reader

\* The pair's run explores what follows an edit or a deletion, not both.
OneMenuUse == edits + deletes <= 1
=============================================================================
