------------------------------ MODULE MCLayer4 ------------------------------
(* One more client than the connection limit; two workers that may race to *)
(* create the session of one client, and a socket for a second session.    *)
EXTENDS Layer4

CONSTANTS c1, c2, u1, w1, w2, nilClient
=============================================================================
