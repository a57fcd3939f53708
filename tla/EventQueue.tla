----------------------------- MODULE EventQueue -----------------------------
(***************************************************************************)
(* What the event handlers of MediOS promise: each handler is a queue of   *)
(* the events of the classes it was registered for, first in first out,    *)
(* each event delivered whole and once.                                    *)
(***************************************************************************)
EXTENDS Integers, Sequences

CONSTANTS Slots, Users, Event, NoEvent

VARIABLES
  queue,    \* events waiting at each handler
  asked,    \* the classes of each open handler, {} when it is closed
  settling, \* handlers being registered or purged
  taken,    \* the event each user got last
  posting,  \* the event a thread is sending, or NoEvent
  left      \* the handlers it has still to visit

aVars == <<queue, asked, settling, taken, posting, left>>

Start ==
  /\ queue = [s \in Slots |-> <<>>]
  /\ asked = [s \in Slots |-> {}]
  /\ settling = {}
  /\ taken = [u \in Users |-> NoEvent]
  /\ posting = NoEvent /\ left = {}

\* What the queue of s may be once e is sent to it: an open handler of its class
\* gets it, one that is being registered or purged may get it or not.
With(s, e) ==
  IF s \in settling THEN {queue[s], Append(queue[s], e)}
  ELSE IF e.class \in asked[s] THEN {Append(queue[s], e)}
  ELSE {queue[s]}

\* An interrupt sends an event to all handlers at once.
Post(e) ==
  /\ \A s \in Slots : queue'[s] \in With(s, e)
  /\ UNCHANGED <<asked, settling, taken, posting, left>>

\* A thread sends one from the first handler to the last.
BeginPost(e) ==
  /\ posting = NoEvent /\ posting' = e /\ left' = Slots
  /\ UNCHANGED <<queue, asked, settling, taken>>
Deliver(s) ==
  /\ s \in left /\ \A t \in left : s <= t
  /\ left' = left \ {s}
  /\ queue'[s] \in With(s, posting)
  /\ \A t \in Slots \ {s} : queue'[t] = queue[t]
  /\ posting' = posting \/ (left' = {} /\ posting' = NoEvent)
  /\ UNCHANGED <<asked, settling, taken>>
EndPost ==
  /\ left = {} /\ posting' = NoEvent
  /\ UNCHANGED <<queue, asked, settling, taken, left>>

\* A registration starts with an empty queue.
Begin(s) ==
  /\ queue[s] = <<>>
  /\ settling' = settling \cup {s}
  /\ UNCHANGED <<queue, asked, taken, posting, left>>
Open(s, m) ==
  /\ asked' = [asked EXCEPT ![s] = m]
  /\ settling' = settling \ {s}
  /\ UNCHANGED <<queue, taken, posting, left>>

Close(s) ==
  /\ asked' = [asked EXCEPT ![s] = {}]
  /\ queue' = [queue EXCEPT ![s] = <<>>]
  /\ UNCHANGED <<settling, taken, posting, left>>

\* A purge drops what is there and what arrives while it is under way.
BeginPurge(s) ==
  /\ settling' = settling \cup {s}
  /\ queue' = [queue EXCEPT ![s] = <<>>]
  /\ UNCHANGED <<asked, taken, posting, left>>
EndPurge(s) == settling' = settling \ {s} /\ UNCHANGED <<queue, asked, taken, posting, left>>

Ask(u) == taken' = [taken EXCEPT ![u] = NoEvent] /\ UNCHANGED <<queue, asked, settling, posting, left>>
Take(u, s) ==
  /\ queue[s] # <<>>
  /\ taken' = [taken EXCEPT ![u] = Head(queue[s])]
  /\ queue' = [queue EXCEPT ![s] = Tail(queue[s])]
  /\ UNCHANGED <<asked, settling, posting, left>>

Step ==
  \/ EndPost \/ \E e \in Event : Post(e) \/ BeginPost(e)
  \/ \E s \in Slots : \/ Deliver(s) \/ Begin(s) \/ Close(s) \/ BeginPurge(s) \/ EndPurge(s)
                      \/ \E m \in SUBSET {e.class : e \in Event} : Open(s, m)
  \/ \E u \in Users : Ask(u) \/ \E s \in Slots : Take(u, s)

Queues == Start /\ [][Step]_aVars
=============================================================================
