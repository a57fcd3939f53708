----------------------------- MODULE ThreadRing -----------------------------
(***************************************************************************)
(* The doubly linked thread ring of kernel/core/thread.c: thread_insert,   *)
(* thread_remove and thread_findPid on the nxt and prev links.  Inserting  *)
(* and removing run with interrupts masked, so each is one step; the walk  *)
(* of thread_findPid does not, so each of its iterations is a step and a   *)
(* tick may run other threads in between.                                  *)
(***************************************************************************)
EXTENDS Ring, FiniteSets

CONSTANTS
  MaxPid,       \* bound: the largest pid
  Walkers,      \* the threads that call thread_findPid
  Victims       \* the threads that end or are killed

IDLE   == 1
Thread == 0..MaxPid
NULL   == -1

ASSUME RingAssumption ==
  /\ MaxPid \in Nat /\ MaxPid >= 1
  /\ Walkers \subseteq Thread
  /\ Victims \subseteq Thread \ {IDLE}

VARIABLES
  nxt, prev,       \* the links of THREAD_INFO, NULL when not in the ring
  threadCurrent,
  created,         \* pids given out so far
  ptr, pid,        \* the walk of each thread in thread_findPid
  through,         \* ghost: threads in the ring since the walk began
  result           \* of the last walk: "found", "missing" or none yet

links == <<nxt, prev, threadCurrent, created>>
walks == <<ptr, pid, through, result>>
vars  == <<links, walks>>

OnRing == {t \in Thread : nxt[t] # NULL}

Init ==
  /\ nxt = [t \in Thread |-> NULL]
  /\ prev = [t \in Thread |-> NULL]
  /\ threadCurrent = NULL
  /\ created = 0
  /\ ptr = [t \in Walkers |-> NULL]
  /\ pid = [t \in Walkers |-> NULL]
  /\ through = [t \in Walkers |-> {}]
  /\ result = [t \in Walkers |-> "none"]

\* Mutant: the neighbour's prev link is forgotten.
thread_insertOneWay(t) ==
  /\ t = created
  /\ created' = created + 1
  /\ IF threadCurrent = NULL
     THEN /\ threadCurrent' = t
          /\ nxt' = [nxt EXCEPT ![t] = t]
          /\ prev' = [prev EXCEPT ![t] = t]
     ELSE LET n == nxt[threadCurrent]
          IN  /\ nxt' = [nxt EXCEPT ![threadCurrent] = t, ![t] = n]
              /\ prev' = [prev EXCEPT ![t] = threadCurrent]
              /\ UNCHANGED threadCurrent
  /\ UNCHANGED walks

\* Mutant: a new thread is linked to itself and left there.
thread_insertApart(t) ==
  /\ t = created
  /\ created' = created + 1
  /\ nxt' = [nxt EXCEPT ![t] = t]
  /\ prev' = [prev EXCEPT ![t] = t]
  /\ threadCurrent' = IF threadCurrent = NULL THEN t ELSE threadCurrent
  /\ UNCHANGED walks

\* Pids are given out in order.
thread_insert(t) ==
  /\ t = created
  /\ created' = created + 1
  /\ IF threadCurrent = NULL
     THEN /\ threadCurrent' = t
          /\ nxt' = [nxt EXCEPT ![t] = t]
          /\ prev' = [prev EXCEPT ![t] = t]
     ELSE LET n == nxt[threadCurrent]
          IN  /\ nxt' = [nxt EXCEPT ![threadCurrent] = t, ![t] = n]
              /\ prev' = [prev EXCEPT ![n] = t, ![t] = threadCurrent]
              /\ UNCHANGED threadCurrent
  /\ UNCHANGED walks

\* Mutant: the thread before the one that ends takes over.
thread_removeBack(t) ==
  /\ t \in OnRing \cap Victims /\ created > IDLE
  /\ threadCurrent' = IF threadCurrent = t THEN prev[t] ELSE threadCurrent
  /\ LET p == prev[t]
         n == nxt[t]
     IN  /\ nxt' = [[nxt EXCEPT ![p] = n] EXCEPT ![t] = NULL]
         /\ prev' = [[prev EXCEPT ![n] = p] EXCEPT ![t] = NULL]
  /\ through' = [w \in Walkers |-> through[w] \ {t}]
  /\ UNCHANGED <<created, ptr, pid, result>>

\* thread_remove from thread_doKill: KERNEL and the idle thread are both there
\* by then.  A walk never passes t again; one that stands on t reads freed memory.
thread_remove(t) ==
  /\ t \in OnRing \cap Victims /\ created > IDLE
  /\ threadCurrent' = IF threadCurrent = t THEN nxt[t] ELSE threadCurrent
  /\ LET p == prev[t]
         n == nxt[t]
     IN  /\ nxt' = [[nxt EXCEPT ![p] = n] EXCEPT ![t] = NULL]
         /\ prev' = [[prev EXCEPT ![n] = p] EXCEPT ![t] = NULL]
  /\ through' = [w \in Walkers |-> through[w] \ {t}]
  /\ UNCHANGED <<created, ptr, pid, result>>

\* The scheduler picks any thread (which one is the subject of Thread).
thread_nxt ==
  /\ threadCurrent # NULL
  /\ threadCurrent' \in OnRing
  /\ UNCHANGED <<nxt, prev, created, walks>>

\* thread_findPid by the running thread, for pid p.
FindStart(w, p) ==
  /\ threadCurrent = w /\ ptr[w] = NULL
  /\ ptr' = [ptr EXCEPT ![w] = w]
  /\ pid' = [pid EXCEPT ![w] = p]
  /\ through' = [through EXCEPT ![w] = OnRing]
  /\ result' = [result EXCEPT ![w] = "none"]
  /\ UNCHANGED links

\* Mutant: the walk ends before the last thread is looked at.
FindStepShort(w) ==
  /\ threadCurrent = w /\ ptr[w] \in OnRing
  /\ IF nxt[ptr[w]] = threadCurrent
     THEN /\ result' = [result EXCEPT ![w] = "missing"]
          /\ ptr' = [ptr EXCEPT ![w] = NULL]
     ELSE IF ptr[w] = pid[w]
     THEN /\ result' = [result EXCEPT ![w] = "found"]
          /\ ptr' = [ptr EXCEPT ![w] = NULL]
     ELSE /\ ptr' = [ptr EXCEPT ![w] = nxt[ptr[w]]]
          /\ UNCHANGED result
  /\ UNCHANGED <<links, pid, through>>

\* One iteration: found, or ptr=ptr->nxt until it is back at threadCurrent.
FindStep(w) ==
  /\ threadCurrent = w /\ ptr[w] \in OnRing
  /\ IF ptr[w] = pid[w]
     THEN /\ result' = [result EXCEPT ![w] = "found"]
          /\ ptr' = [ptr EXCEPT ![w] = NULL]
     ELSE IF nxt[ptr[w]] = threadCurrent
     THEN /\ result' = [result EXCEPT ![w] = "missing"]
          /\ ptr' = [ptr EXCEPT ![w] = NULL]
     ELSE /\ ptr' = [ptr EXCEPT ![w] = nxt[ptr[w]]]
          /\ UNCHANGED result
  /\ UNCHANGED <<links, pid, through>>

Next ==
  \/ \E t \in Thread : thread_insert(t) \/ thread_remove(t)
  \/ thread_nxt
  \/ \E w \in Walkers : FindStep(w) \/ \E p \in Thread : FindStart(w, p)

Spec == Init /\ [][Next]_vars

(***************************************************************************)
(* The sequence the links spell: follow nxt from threadCurrent.            *)
(***************************************************************************)
ringOf ==
  LET n == Cardinality(OnRing)
      node[i \in 1..n] == IF i = 1 THEN threadCurrent ELSE nxt[node[i - 1]]
  IN  [i \in 1..n |-> node[i]]

Abstract == INSTANCE RingSpec WITH Threads <- Thread, Idle <- IDLE, ring <- ringOf

\* The linked list behaves as the sequence of RingSpec: every thread in the
\* ring is reached from threadCurrent, in the order the operators of Ring say.
ImplementsRing == Abstract!Spec

\* The two links of the list agree, and the current thread is on it.
LinksAgree ==
  /\ \A t \in OnRing : nxt[t] \in OnRing /\ prev[nxt[t]] = t
  /\ \A t \in Thread \ OnRing : prev[t] = NULL
  /\ created > 0 => threadCurrent \in OnRing

\* No thread is cut off: nxt leads out of every part of the ring, so from each
\* thread to every other.
OneRing ==
  \A S \in SUBSET OnRing : S # {} /\ (\A s \in S : nxt[s] \in S) => S = OnRing

\* thread_findPid finds a thread that was in the ring during the whole walk,
\* whatever joined, left or ran between two of its iterations.
FindsWhatIsThere ==
  \A w \in Walkers : result[w] = "missing" => pid[w] \notin through[w]
=============================================================================
