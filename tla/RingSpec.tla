------------------------------ MODULE RingSpec ------------------------------
(***************************************************************************)
(* What the thread ring promises: a thread joins behind the current one,   *)
(* leaves, and any thread of the ring may become the current one.  The     *)
(* idle thread, once in, never leaves.                                     *)
(***************************************************************************)
EXTENDS Ring

CONSTANTS Threads, Idle

VARIABLE ring

Init == ring = <<>>

Join(t)  == t \notin Members(ring) /\ ring' = Insert(ring, t)
Leave(t) == t \in Members(ring) \ {Idle} /\ Len(ring) > 1 /\ ring' = Remove(ring, t)
Turn     == \E k \in DOMAIN ring : ring' = TurnTo(ring, k)

Next == Turn \/ \E t \in Threads : Join(t) \/ Leave(t)

Spec == Init /\ [][Next]_ring

\* Each thread is in the ring at most once.
OnceEach == Distinct(ring) /\ Members(ring) \subseteq Threads
=============================================================================
