-------------------------------- MODULE Evt --------------------------------
(***************************************************************************)
(* The event handlers of kernel/core/evt.c over the ring buffers of        *)
(* kernel/core/pipes.c.  Interrupts send events (buttons, cables, the      *)
(* one second timer): evt_send is one step for them.  Threads register,    *)
(* read, purge and free handlers, and the shell sends its redraw event;    *)
(* none of that masks interrupts, so each access to the shared state is a  *)
(* step.                                                                   *)
(*                                                                         *)
(* An event is copied unit by unit (the code copies bytes); a unit is the  *)
(* event it comes from and its place in it.                                *)
(***************************************************************************)
EXTENDS Integers, Sequences

CONSTANTS
  Users,      \* threads that use handlers
  NbPipes,    \* NB_EVT_PIPES
  PipeSize,   \* PIPE_SIZE, in units
  EvtSize,    \* sizeof(struct evt_t), in units
  Classes,    \* event classes
  Masks,      \* the masks handlers are registered with
  MaxSent,    \* bound: events sent
  Apart,      \* TRUE: registrations do not overlap
  Senders     \* the thread that sends events too: the shell (shell_restore)

Slots == 0..(NbPipes - 1)
NONE  == -1
Event == [nr : 1..MaxSent, class : Classes]
Unit  == Event \X (1..EvtSize)
Blank == <<>>
NoEvent == [nr |-> 0, class |-> "none"]

ASSUME EvtAssumption ==
  /\ {NbPipes, PipeSize, EvtSize, MaxSent} \subseteq Nat \ {0}
  /\ EvtSize < PipeSize
  /\ Masks \subseteq SUBSET Classes
  /\ Apart \in BOOLEAN
  /\ Senders \subseteq Users /\ \A u, v \in Senders : u = v

VARIABLES
  used, mask,        \* of each struct evt_pipes
  nIN, nOUT, buffer, \* of its pipe
  sent,              \* ghost: events sent so far
  pc, slot, ask,     \* each user: its place in the call, the slot, the mask
  handler,           \* the handler it was given, or NONE
  out,               \* the units of the event it read last or is reading
  event, reg, done,  \* of a thread in evt_send: event, loaded nIN, units written
  broken             \* ghost: a pipe was overrun, or used while a thread wrote to it

pipes   == <<nIN, nOUT, buffer>>
sending == <<event, reg, done>>
vars == <<used, mask, pipes, sent, pc, slot, ask, handler, out, sending, broken>>

Init ==
  /\ used = [s \in Slots |-> FALSE] /\ mask = [s \in Slots |-> {}]
  /\ nIN = [s \in Slots |-> 0] /\ nOUT = [s \in Slots |-> 0]
  /\ buffer = [s \in Slots |-> [i \in 0..(PipeSize - 1) |-> Blank]]
  /\ sent = 0
  /\ pc = [u \in Users |-> "idle"]
  /\ slot = [u \in Users |-> NONE]
  /\ ask = [u \in Users |-> {}]
  /\ handler = [u \in Users |-> NONE]
  /\ out = [u \in Users |-> <<>>]
  /\ event = [u \in Users |-> NoEvent]
  /\ reg = [u \in Users |-> 0]
  /\ done = [u \in Users |-> 0]
  /\ broken = FALSE

Wrap(n) == n % PipeSize
Pending(s) == Wrap(nIN[s] - nOUT[s])
Room(s) == Pending(s) + EvtSize < PipeSize
UnitOf(e, i) == <<e, i>>

\* Thread u is in the middle of an event; one is in pipe s.
Mid(u) == pc[u] = "store" \/ (pc[u] = "send" /\ done[u] \in 1..(EvtSize - 1))
Writing(s) == \E u \in Users : slot[u] = s /\ Mid(u)
Break(b) == broken' = (broken \/ b)

At(u, from, to) == pc[u] = from /\ pc' = [pc EXCEPT ![u] = to]

(* --- sending ------------------------------------------------------------ *)

Wanted(e) == {s \in Slots : used[s] /\ e.class \in mask[s]}

\* evt_send in an interrupt.  pipeWrite does not look whether there is room.
IrqSend(c) ==
  LET e == [nr |-> sent + 1, class |-> c]
  IN  /\ sent < MaxSent
      /\ Break(\E s \in Wanted(e) : ~Room(s) \/ Writing(s))
      /\ sent' = sent + 1
      /\ buffer' = [s \in Slots |-> IF s \notin Wanted(e) THEN buffer[s] ELSE
                      [i \in 0..(PipeSize - 1) |->
                         LET k == Wrap(i - nIN[s])
                         IN  IF k < EvtSize THEN UnitOf(e, k + 1) ELSE buffer[s][i]]]
      /\ nIN' = [s \in Slots |-> IF s \in Wanted(e) THEN Wrap(nIN[s] + EvtSize)
                                                   ELSE nIN[s]]
      /\ UNCHANGED <<used, mask, nOUT, pc, slot, ask, handler, out, sending>>

\* evt_send in a thread (shell_restore), from the first handler.
StartSend(u, c) ==
  /\ u \in Senders /\ At(u, "idle", "send") /\ handler[u] # NONE
  /\ sent < MaxSent /\ sent' = sent + 1
  /\ event' = [event EXCEPT ![u] = [nr |-> sent + 1, class |-> c]]
  /\ slot' = [slot EXCEPT ![u] = 0]
  /\ done' = [done EXCEPT ![u] = 0]
  /\ UNCHANGED <<used, mask, pipes, ask, handler, out, reg, broken>>

\* The loop over the handlers: the next one, or the end.
NextHandler(u) ==
  /\ pc[u] = "send"
  /\ done[u] = EvtSize \/ (done[u] = 0 /\ slot[u] \notin Wanted(event[u]))
  /\ done' = [done EXCEPT ![u] = 0]
  /\ IF slot[u] + 1 \in Slots
     THEN slot' = [slot EXCEPT ![u] = @ + 1] /\ UNCHANGED pc
     ELSE slot' = [slot EXCEPT ![u] = NONE] /\ pc' = [pc EXCEPT ![u] = "idle"]
  /\ UNCHANGED <<used, mask, pipes, sent, ask, handler, out, event, reg, broken>>

\* buffer[nIN++] = ..: nIN is loaded
LoadIn(u) ==
  /\ At(u, "send", "store")
  /\ done[u] < EvtSize
  /\ done[u] = 0 => slot[u] \in Wanted(event[u])
  /\ reg' = [reg EXCEPT ![u] = nIN[slot[u]]]
  /\ UNCHANGED <<used, mask, pipes, sent, slot, ask, handler, out, event, done, broken>>

\* .. the unit is stored and nIN, incremented and masked
StoreUnit(u) ==
  /\ At(u, "store", "send")
  /\ done' = [done EXCEPT ![u] = @ + 1]
  /\ buffer' = [buffer EXCEPT ![slot[u]][reg[u]] = UnitOf(event[u], done[u] + 1)]
  /\ nIN' = [nIN EXCEPT ![slot[u]] = Wrap(reg[u] + 1)]
  /\ Break(Wrap(reg[u] + 1) = nOUT[slot[u]])
  /\ UNCHANGED <<used, mask, nOUT, sent, slot, ask, handler, out, event, reg>>

(* --- evt_getHandler and evt_freeHandler --------------------------------- *)

Registering == {u \in Users : pc[u] \in {"reset", "claim", "mask"}}
Free == {s \in Slots : ~used[s]}

\* The first free struct; no change when there is none.
FindFree(u, m) ==
  /\ handler[u] = NONE /\ (Apart => Registering = {})
  /\ At(u, "idle", "reset")
  /\ \E s \in Free : (\A f \in Free : s <= f) /\ slot' = [slot EXCEPT ![u] = s]
  /\ ask' = [ask EXCEPT ![u] = m]
  /\ UNCHANGED <<used, mask, pipes, sent, handler, out, sending, broken>>

\* Mutant: the indices of the last owner are kept.
ResetPipeNot(u) ==
  /\ At(u, "reset", "claim")
  /\ UNCHANGED <<used, mask, pipes, sent, slot, ask, handler, out, sending, broken>>

\* nIN = nOUT = 0
ResetPipe(u) ==
  /\ At(u, "reset", "claim")
  /\ nIN' = [nIN EXCEPT ![slot[u]] = 0]
  /\ nOUT' = [nOUT EXCEPT ![slot[u]] = 0]
  /\ Break(Writing(slot[u]))
  /\ UNCHANGED <<used, mask, buffer, sent, slot, ask, handler, out, sending>>

\* Mutant: the struct is not marked as used.
ClaimNot(u) ==
  /\ At(u, "claim", "mask")
  /\ UNCHANGED <<used, mask, pipes, sent, slot, ask, handler, out, sending, broken>>

\* used = 1: interrupts send to the handler now, by the mask of its last owner
Claim(u) ==
  /\ At(u, "claim", "mask")
  /\ used' = [used EXCEPT ![slot[u]] = TRUE]
  /\ UNCHANGED <<mask, pipes, sent, slot, ask, handler, out, sending, broken>>

\* From here on the mask tells which events come; one that a thread is writing by
\* the old mask would come too.
SetMask(u) ==
  /\ At(u, "mask", "idle")
  /\ mask' = [mask EXCEPT ![slot[u]] = ask[u]]
  /\ handler' = [handler EXCEPT ![u] = slot[u]]
  /\ slot' = [slot EXCEPT ![u] = NONE] /\ ask' = [ask EXCEPT ![u] = {}]
  /\ Break(Writing(slot[u]))
  /\ UNCHANGED <<used, pipes, sent, out, sending>>

\* Mutant: the handler of the caller stays in use.
evt_freeHandlerNot(u) ==
  /\ handler[u] # NONE /\ At(u, "idle", "idle")
  /\ handler' = [handler EXCEPT ![u] = NONE]
  /\ UNCHANGED <<used, mask, pipes, sent, slot, ask, out, sending, broken>>

evt_freeHandler(u) ==
  /\ handler[u] # NONE /\ At(u, "idle", "idle")
  /\ used' = [used EXCEPT ![handler[u]] = FALSE]
  /\ handler' = [handler EXCEPT ![u] = NONE]
  /\ UNCHANGED <<mask, pipes, sent, slot, ask, out, sending, broken>>

(* --- evt_getFullStatus and evt_purgeHandler ------------------------------ *)

\* The event is cleared; a handler that is not in use is refused.
evt_getFullStatus(u) ==
  /\ handler[u] # NONE
  /\ At(u, "idle", IF used[handler[u]] THEN "read" ELSE "idle")
  /\ out' = [out EXCEPT ![u] = <<>>]
  /\ UNCHANGED <<used, mask, pipes, sent, slot, ask, handler, sending, broken>>

\* Mutant: the read index is not masked.
pipeReadUnmasked(u) ==
  LET s == handler[u]
  IN  /\ pc[u] = "read"
      /\ IF Len(out[u]) < EvtSize /\ nIN[s] # nOUT[s]
         THEN /\ out' = [out EXCEPT ![u] = Append(@, buffer[s][nOUT[s]])]
              /\ nOUT' = [nOUT EXCEPT ![s] = @ + 1]
              /\ UNCHANGED pc
         ELSE /\ pc' = [pc EXCEPT ![u] = "idle"]
              /\ UNCHANGED <<out, nOUT>>
      /\ Break(Writing(s))
      /\ UNCHANGED <<used, mask, nIN, buffer, sent, slot, ask, handler, sending>>

\* One turn of pipeRead, or its end.
pipeRead(u) ==
  LET s == handler[u]
  IN  /\ pc[u] = "read"
      /\ IF Len(out[u]) < EvtSize /\ nIN[s] # nOUT[s]
         THEN /\ out' = [out EXCEPT ![u] = Append(@, buffer[s][nOUT[s]])]
              /\ nOUT' = [nOUT EXCEPT ![s] = Wrap(@ + 1)]
              /\ UNCHANGED pc
         ELSE /\ pc' = [pc EXCEPT ![u] = "idle"]
              /\ UNCHANGED <<out, nOUT>>
      /\ Break(Writing(s))
      /\ UNCHANGED <<used, mask, nIN, buffer, sent, slot, ask, handler, sending>>

\* nIN = nOUT = 0, the second one first.
evt_purgeHandler(u) ==
  /\ handler[u] # NONE
  /\ At(u, "idle", IF used[handler[u]] THEN "purge" ELSE "idle")
  /\ nOUT' = IF used[handler[u]] THEN [nOUT EXCEPT ![handler[u]] = 0] ELSE nOUT
  /\ UNCHANGED <<used, mask, nIN, buffer, sent, slot, ask, handler, out, sending, broken>>

PurgeIn(u) ==
  /\ At(u, "purge", "idle")
  /\ nIN' = [nIN EXCEPT ![handler[u]] = 0]
  /\ Break(Writing(handler[u]))
  /\ UNCHANGED <<used, mask, nOUT, buffer, sent, slot, ask, handler, out, sending>>

UserStep(u) ==
  \/ \E m \in Masks : FindFree(u, m)
  \/ ResetPipe(u) \/ Claim(u) \/ SetMask(u) \/ evt_freeHandler(u)
  \/ evt_getFullStatus(u) \/ pipeRead(u) \/ evt_purgeHandler(u) \/ PurgeIn(u)
  \/ \E c \in Classes : StartSend(u, c)
  \/ NextHandler(u) \/ LoadIn(u) \/ StoreUnit(u)

Next == (\E c \in Classes : IrqSend(c)) \/ \E u \in Users : UserStep(u)

Spec == Init /\ [][Next]_vars

\* Bound of the runs: nothing is followed beyond the end of the promise.
Unbroken == ~broken

(***************************************************************************)
(* Properties.                                                             *)
(***************************************************************************)

\* The shape of the state; the indices stay inside the buffer.
TypeOK ==
  /\ used \in [Slots -> BOOLEAN] /\ mask \in [Slots -> SUBSET Classes]
  /\ nIN \in [Slots -> 0..(PipeSize - 1)] /\ nOUT \in [Slots -> 0..(PipeSize - 1)]
  /\ buffer \in [Slots -> [0..(PipeSize - 1) -> Unit \cup {Blank}]]
  /\ sent \in 0..MaxSent
  /\ pc \in [Users -> {"idle", "reset", "claim", "mask", "read", "purge", "send", "store"}]
  /\ slot \in [Users -> Slots \cup {NONE}] /\ handler \in [Users -> Slots \cup {NONE}]
  /\ ask \in [Users -> SUBSET Classes]
  /\ out \in [Users -> Seq(Unit \cup {Blank})]
  /\ \A u \in Users : Len(out[u]) <= EvtSize
  /\ event \in [Users -> Event \cup {NoEvent}]
  /\ broken \in BOOLEAN
  /\ reg \in [Users -> 0..(PipeSize - 1)] /\ done \in [Users -> 0..EvtSize]

\* Two users never hold the same handler: evt_getHandler gives out a free one.
HandlersApart ==
  \A u, v \in Users : u # v /\ handler[u] # NONE => handler[u] # handler[v]

\* A handler in use belongs to somebody: none is lost between the two.
HandlersOwned ==
  \A s \in Slots : used[s] =>
    \E u \in Users : handler[u] = s \/ (pc[u] = "mask" /\ slot[u] = s)

Torn == [nr |-> -1, class |-> "none"]

\* The event whose units are in seq from its first unit on.
EventOf(seq) ==
  IF seq = <<>> THEN NoEvent
  ELSE IF \A i \in DOMAIN seq : seq[i] # Blank /\ seq[i] = UnitOf(seq[1][1], i)
  THEN seq[1][1] ELSE Torn

Sending == {u \in Users : pc[u] \in {"send", "store"}}
Sent    == {event[u] : u \in Sending}

\* Units of an event that a thread is writing to pipe s.
Partial(s) == IF \E u \in Sending : slot[u] = s /\ done[u] < EvtSize
              THEN done[CHOOSE u \in Sending : slot[u] = s] ELSE 0

(***************************************************************************)
(* The events waiting in pipe s.  The units left of an event that is being *)
(* read no longer wait, those of one that is being written do not yet.     *)
(***************************************************************************)
Waiting(s) ==
  LET whole == Wrap(Pending(s) - Partial(s))
      first == nOUT[s] + (whole % EvtSize)
      at(k) == [i \in 1..EvtSize |-> buffer[s][Wrap(first + (k - 1) * EvtSize + i - 1)]]
  IN  [k \in 1..(whole \div EvtSize) |-> EventOf(at(k))]

Purged   == {s \in Slots : \E u \in Users : pc[u] = "purge" /\ handler[u] = s}
Unmasked == {s \in Slots : \E u \in Users : pc[u] = "mask" /\ slot[u] = s}

Queued  == [s \in Slots |-> IF used[s] /\ s \notin Purged THEN Waiting(s) ELSE <<>>]
Asked   == [s \in Slots |-> IF used[s] /\ s \notin Unmasked THEN mask[s] ELSE {}]
Taken   == [u \in Users |-> EventOf(out[u])]
Posting == IF Sent = {} THEN NoEvent ELSE CHOOSE e \in Sent : TRUE
Left    == UNION {{s \in Slots : s > slot[u] \/ (s = slot[u] /\ done[u] < EvtSize)} :
                  u \in Sending}

Queue == INSTANCE EventQueue WITH
  queue <- Queued, asked <- Asked, settling <- Purged \cup Unmasked,
  taken <- Taken, posting <- Posting, left <- Left

\* Each handler is a queue of the events of its classes: every event sent while it
\* is open is read from it once, whole and in the order of sending, whatever
\* interrupts come between the steps of a read, a registration or a purge.  The
\* promise ends (broken) when a pipe overflows, or when an interrupt or another
\* thread uses a pipe in which a thread has written part of an event.
ImplementsQueue == Queue!Start /\ [][broken' \/ Queue!Step]_(Queue!aVars)
=============================================================================
