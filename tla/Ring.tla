-------------------------------- MODULE Ring --------------------------------
(***************************************************************************)
(* The ring of threads of kernel/core/thread.c as a sequence read from     *)
(* threadCurrent along nxt: what thread_insert, thread_remove and a change *)
(* of threadCurrent do to it.  ThreadRing shows that the doubly linked     *)
(* list implements these operators, Thread uses them for the scheduler.    *)
(***************************************************************************)
EXTENDS Integers, Sequences

Members(r) == {r[i] : i \in DOMAIN r}

\* No element twice.
Distinct(r) == \A i, j \in DOMAIN r : r[i] = r[j] => i = j

\* thread_insert: right after the current thread; alone on an empty ring.
Insert(r, t) ==
  [i \in 1..(Len(r) + 1) |-> IF r = <<>> \/ i = 2 THEN t
                             ELSE IF i = 1 THEN r[1] ELSE r[i - 1]]

\* thread_remove: when t is the current thread the next one becomes current.
Remove(r, t) ==
  LET p == CHOOSE i \in DOMAIN r : r[i] = t
  IN  [i \in 1..(Len(r) - 1) |-> IF i < p THEN r[i] ELSE r[i + 1]]

\* The thread at position k becomes the current one.
TurnTo(r, k) ==
  [i \in 1..Len(r) |-> IF i + k - 1 <= Len(r) THEN r[i + k - 1]
                                              ELSE r[i + k - 1 - Len(r)]]
=============================================================================
