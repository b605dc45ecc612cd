------------------------------ MODULE Bulkhead ------------------------------
(***************************************************************************)
(* What the route bulkhead promises: a family of counting semaphores.  A   *)
(* request holds at most one slot, takes it in one step and only below the *)
(* cap, keeps it where it took it, and gives it back itself.               *)
(***************************************************************************)
EXTENDS Integers, FiniteSets

CONSTANTS
    Users,     \* who may hold a slot
    Counters,  \* the semaphores
    Cap,       \* [Counters -> Nat]
    Free       \* the value of a user without a slot

VARIABLE held  \* [Users -> Counters \cup {Free}]

Holders(c) == {u \in Users : held[u] = c}

Init == held = [u \in Users |-> Free]

Acquire(u, c) ==
    /\ held[u] = Free
    /\ Cardinality(Holders(c)) < Cap[c]
    /\ held' = [held EXCEPT ![u] = c]

Release(u) ==
    /\ held[u] # Free
    /\ held' = [held EXCEPT ![u] = Free]

Next == \E u \in Users : Release(u) \/ \E c \in Counters : Acquire(u, c)

Spec == Init /\ [][Next]_held
=============================================================================
