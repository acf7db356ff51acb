------------------------------ MODULE MCListens ------------------------------
(***************************************************************************)
(* TLC instance of Listens: two documents, of which only one may be looked *)
(* up at a time, two calls, and the bound below.                           *)
(***************************************************************************)
EXTENDS Listens

\* A mishap befalls at most one call of each kind; a second one only a
\* collection that never held a second document, and a third one call alone.
FewerEachTime ==
    /\ mishaps >= 1 => \A k, l \in DOMAIN listeners :
                           k # l => listeners[k].kind # listeners[l].kind
    /\ mishaps >= 2 => \A v \in DOMAIN history : In(history[v]) \subseteq {1}
    /\ mishaps >= 3 => Len(listeners) = 1
=============================================================================
