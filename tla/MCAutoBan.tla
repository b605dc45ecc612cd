----------------------------- MODULE MCAutoBan -----------------------------
(* Small instances of AutoBan: one or two addresses and a short clock.     *)
EXTENDS AutoBan, TLC

CONSTANTS ip1, ip2, k1, k2

\* A patient configuration and a strict one, to be exchanged by reloads.
MCLimits ==
    {[maxViolations |-> 2, window |-> 2, banDuration |-> 1, maxTemporaryBans |-> 2],
     [maxViolations |-> 1, window |-> 1, banDuration |-> 2, maxTemporaryBans |-> 1]}
=============================================================================
