----------------------------- MODULE MCReactor -----------------------------
(* Small instances of Reactor: more connections than the workers and the   *)
(* queue can hold, so that the accept loop blocks with one in hand.        *)
EXTENDS Reactor

CONSTANTS c1, c2, c3, c4, c5, w1, w2, nil
=============================================================================
