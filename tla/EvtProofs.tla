----------------------------- MODULE EvtProofs -----------------------------
(***************************************************************************)
(* Proofs about Evt: the shape of its state; while registrations do not    *)
(* overlap, that no handler is held by two threads or lost, and that       *)
(* handlers and pipes implement the queues of EventQueue.                  *)
(***************************************************************************)
EXTENDS Evt, SequenceTheorems, TLAPS

\* Where a thread is tells what its slot, handler, event and count are.
PlaceOK ==
  \A u \in Users :
    /\ pc[u] \in {"reset", "claim", "mask", "send", "store"} => slot[u] \in Slots
    /\ pc[u] \in {"read", "purge"} => handler[u] \in Slots
    /\ pc[u] \in {"send", "store"} => event[u] \in Event
    /\ pc[u] = "store" => done[u] < EvtSize

TInv == TypeOK /\ PlaceOK

LEMMA WrapRange ==
  ASSUME NEW n \in Int
  PROVE  Wrap(n) \in 0..(PipeSize - 1)
<1>1. PipeSize \in Nat \ {0}
  BY EvtAssumption
<1> QED BY <1>1, SMT DEF Wrap

LEMMA Sizes ==
  /\ NbPipes \in Nat \ {0} /\ PipeSize \in Nat \ {0} /\ EvtSize \in Nat \ {0}
  /\ MaxSent \in Nat \ {0} /\ EvtSize < PipeSize /\ 0 \in Slots /\ NONE \notin Slots
<1>1. /\ NbPipes \in Nat \ {0} /\ PipeSize \in Nat \ {0} /\ EvtSize \in Nat \ {0}
      /\ MaxSent \in Nat \ {0} /\ EvtSize < PipeSize
  BY EvtAssumption
<1> QED BY <1>1 DEF Slots, NONE

LEMMA InitT == Init => TInv
<1> SUFFICES ASSUME Init PROVE TInv
  OBVIOUS
<1>1. out \in [Users -> Seq(Unit \cup {Blank})] /\ \A u \in Users : Len(out[u]) <= EvtSize
  BY Sizes DEF Init
<1>2. buffer \in [Slots -> [0..(PipeSize - 1) -> Unit \cup {Blank}]]
  BY DEF Init
<1>3. TypeOK
  <2>1. used \in [Slots -> BOOLEAN] /\ mask \in [Slots -> SUBSET Classes]
        /\ ask \in [Users -> SUBSET Classes]
    BY DEF Init
  <2>2. nIN \in [Slots -> 0..(PipeSize - 1)] /\ nOUT \in [Slots -> 0..(PipeSize - 1)]
        /\ reg \in [Users -> 0..(PipeSize - 1)] /\ done \in [Users -> 0..EvtSize]
        /\ sent \in 0..MaxSent
    BY Sizes DEF Init
  <2>3. /\ pc \in [Users -> {"idle", "reset", "claim", "mask", "read", "purge", "send", "store"}]
        /\ slot \in [Users -> Slots \cup {NONE}] /\ handler \in [Users -> Slots \cup {NONE}]
        /\ event \in [Users -> Event \cup {NoEvent}] /\ broken \in BOOLEAN
    BY DEF Init
  <2> QED BY <1>1, <1>2, <2>1, <2>2, <2>3 DEF TypeOK
<1>4. PlaceOK
  BY DEF Init, PlaceOK
<1> QED BY <1>3, <1>4 DEF TInv

\* An interrupt that sends: units, indices and the count keep their ranges.
LEMMA IrqSendType ==
  ASSUME TInv, NEW c \in Classes, IrqSend(c)
  PROVE  TInv'
<1> DEFINE e == [nr |-> sent + 1, class |-> c]
<1>1. e \in Event /\ sent' \in 0..MaxSent
  BY Sizes DEF IrqSend, TInv, TypeOK, Event
<1>2. nIN' \in [Slots -> 0..(PipeSize - 1)]
  <2>1. nIN' = [s \in Slots |-> IF s \in Wanted(e) THEN Wrap(nIN[s] + EvtSize) ELSE nIN[s]]
    BY DEF IrqSend
  <2>2. \A s \in Slots : nIN[s] \in 0..(PipeSize - 1) /\ nIN[s] + EvtSize \in Int
    BY Sizes DEF TInv, TypeOK
  <2>3. \A s \in Slots : Wrap(nIN[s] + EvtSize) \in 0..(PipeSize - 1)
    BY <2>2, WrapRange, Zenon
  <2> QED BY <2>1, <2>2, <2>3, Zenon
<1>3. buffer' \in [Slots -> [0..(PipeSize - 1) -> Unit \cup {Blank}]]
  <2>1. buffer' = [s \in Slots |-> IF s \notin Wanted(e) THEN buffer[s] ELSE
                    [i \in 0..(PipeSize - 1) |->
                       LET k == Wrap(i - nIN[s])
                       IN  IF k < EvtSize THEN UnitOf(e, k + 1) ELSE buffer[s][i]]]
    BY DEF IrqSend
  <2>2. ASSUME NEW s \in Slots, NEW i \in 0..(PipeSize - 1)
        PROVE  (LET k == Wrap(i - nIN[s])
                IN  IF k < EvtSize THEN UnitOf(e, k + 1) ELSE buffer[s][i])
                 \in Unit \cup {Blank}
    <3>1. i - nIN[s] \in Int
      BY Sizes DEF TInv, TypeOK
    <3>2. Wrap(i - nIN[s]) \in 0..(PipeSize - 1)
      BY <3>1, WrapRange, Zenon
    <3>3. Wrap(i - nIN[s]) < EvtSize => Wrap(i - nIN[s]) + 1 \in 1..EvtSize
      BY <3>2, Sizes
    <3>4. buffer[s][i] \in Unit \cup {Blank}
      <4>1. buffer \in [Slots -> [0..(PipeSize - 1) -> Unit \cup {Blank}]]
        BY DEF TInv, TypeOK
      <4>2. buffer[s] \in [0..(PipeSize - 1) -> Unit \cup {Blank}]
        BY <4>1
      <4> QED BY <4>2
    <3>5. ASSUME NEW k \in 1..EvtSize PROVE UnitOf(e, k) \in Unit
      BY <1>1 DEF UnitOf, Unit
    <3> QED BY <3>3, <3>4, <3>5, Zenon
  <2>3. \A s \in Slots : buffer[s] \in [0..(PipeSize - 1) -> Unit \cup {Blank}]
    BY DEF TInv, TypeOK
  <2> QED BY <2>1, <2>2, <2>3, Zenon
<1>4. broken' \in BOOLEAN
  BY DEF IrqSend, Break, TInv, TypeOK
<1>5. UNCHANGED <<used, mask, nOUT, pc, slot, ask, handler, out, event, reg, done>>
  BY DEF IrqSend, sending
<1> QED BY <1>1, <1>2, <1>3, <1>4, <1>5 DEF TInv, TypeOK, PlaceOK

\* The steps of a thread that sends.
LEMMA SendType ==
  ASSUME TInv, NEW u \in Users
  PROVE  /\ \A c \in Classes : StartSend(u, c) => TInv'
         /\ NextHandler(u) => TInv'
         /\ LoadIn(u) => TInv'
         /\ StoreUnit(u) => TInv'
<1>1. ASSUME NEW c \in Classes, StartSend(u, c) PROVE TInv'
  <2>1. [nr |-> sent + 1, class |-> c] \in Event /\ sent' \in 0..MaxSent
    BY <1>1, Sizes DEF StartSend, TInv, TypeOK, Event
  <2>2. event' \in [Users -> Event \cup {NoEvent}] /\ slot' \in [Users -> Slots \cup {NONE}]
        /\ done' \in [Users -> 0..EvtSize]
    BY <1>1, <2>1, Sizes DEF StartSend, TInv, TypeOK
  <2>3. /\ pc' = [pc EXCEPT ![u] = "send"]
        /\ event'[u] \in Event /\ slot'[u] \in Slots
        /\ \A v \in Users \ {u} : event'[v] = event[v] /\ slot'[v] = slot[v]
                                  /\ done'[v] = done[v]
        /\ UNCHANGED <<used, mask, nIN, nOUT, buffer, ask, handler, out, reg, broken>>
    BY <1>1, <2>1, Sizes DEF StartSend, At, pipes, TInv, TypeOK
  <2>4. TypeOK'
    BY <2>1, <2>2, <2>3 DEF TInv, TypeOK
  <2>5. PlaceOK'
    BY <2>3 DEF TInv, TypeOK, PlaceOK
  <2> QED BY <2>4, <2>5 DEF TInv
<1>2. ASSUME NextHandler(u) PROVE TInv'
  <2>1. /\ slot' \in [Users -> Slots \cup {NONE}]
        /\ pc' \in [Users -> {"idle", "reset", "claim", "mask", "read", "purge", "send", "store"}]
        /\ done' \in [Users -> 0..EvtSize]
    <3>1. done' \in [Users -> 0..EvtSize]
      BY <1>2, Sizes DEF NextHandler, TInv, TypeOK
    <3>2. CASE slot[u] + 1 \in Slots
      <4>1. slot' = [slot EXCEPT ![u] = slot[u] + 1] /\ UNCHANGED pc
        BY <1>2, <3>2 DEF NextHandler
      <4> QED BY <3>1, <3>2, <4>1 DEF TInv, TypeOK
    <3>3. CASE slot[u] + 1 \notin Slots
      <4>1. slot' = [slot EXCEPT ![u] = NONE] /\ pc' = [pc EXCEPT ![u] = "idle"]
        BY <1>2, <3>3 DEF NextHandler
      <4> QED BY <3>1, <4>1 DEF TInv, TypeOK
    <3> QED BY <3>2, <3>3
  <2>2. /\ pc[u] = "send"
        /\ \/ slot'[u] \in Slots /\ pc'[u] = "send"
           \/ pc'[u] = "idle"
        /\ \A v \in Users \ {u} : pc'[v] = pc[v] /\ slot'[v] = slot[v] /\ done'[v] = done[v]
        /\ UNCHANGED <<used, mask, nIN, nOUT, buffer, sent, ask, handler, out, event, reg, broken>>
    BY <1>2 DEF NextHandler, pipes, TInv, TypeOK
  <2>3. TypeOK'
    BY <2>1, <2>2 DEF TInv, TypeOK
  <2>4. PlaceOK'
    BY <2>2 DEF TInv, TypeOK, PlaceOK
  <2> QED BY <2>3, <2>4 DEF TInv
<1>3. ASSUME LoadIn(u) PROVE TInv'
  <2>1. slot[u] \in Slots /\ event[u] \in Event /\ done[u] < EvtSize
    BY <1>3 DEF LoadIn, At, TInv, PlaceOK
  <2>2. reg' \in [Users -> 0..(PipeSize - 1)]
    BY <1>3, <2>1 DEF LoadIn, TInv, TypeOK
  <2>3. /\ pc' = [pc EXCEPT ![u] = "store"]
        /\ UNCHANGED <<used, mask, nIN, nOUT, buffer, sent, slot, ask, handler, out,
                       event, done, broken>>
    BY <1>3 DEF LoadIn, At, pipes
  <2>4. TypeOK'
    BY <2>2, <2>3 DEF TInv, TypeOK
  <2>5. PlaceOK'
    BY <2>1, <2>3 DEF TInv, TypeOK, PlaceOK
  <2> QED BY <2>4, <2>5 DEF TInv
<1>4. ASSUME StoreUnit(u) PROVE TInv'
  <2>1. slot[u] \in Slots /\ event[u] \in Event /\ done[u] < EvtSize
        /\ done[u] \in 0..EvtSize /\ reg[u] \in 0..(PipeSize - 1)
    BY <1>4 DEF StoreUnit, At, TInv, PlaceOK, TypeOK
  <2>2. Wrap(reg[u] + 1) \in 0..(PipeSize - 1)
    <3>1. reg[u] + 1 \in Int
      BY <2>1
    <3> QED BY <3>1, WrapRange, Zenon
  <2>3. nIN' \in [Slots -> 0..(PipeSize - 1)] /\ done' \in [Users -> 0..EvtSize]
    BY <1>4, <2>1, <2>2, Sizes DEF StoreUnit, TInv, TypeOK
  <2>4. buffer' \in [Slots -> [0..(PipeSize - 1) -> Unit \cup {Blank}]]
    <3>1. UnitOf(event[u], done[u] + 1) \in Unit
      BY <2>1, Sizes DEF UnitOf, Unit
    <3>2. buffer \in [Slots -> [0..(PipeSize - 1) -> Unit \cup {Blank}]]
      BY DEF TInv, TypeOK
    <3>3. [buffer[slot[u]] EXCEPT ![reg[u]] = UnitOf(event[u], done[u] + 1)]
            \in [0..(PipeSize - 1) -> Unit \cup {Blank}]
      BY <2>1, <3>1, <3>2
    <3>4. buffer' = [buffer EXCEPT ![slot[u]] =
                       [buffer[slot[u]] EXCEPT ![reg[u]] = UnitOf(event[u], done[u] + 1)]]
      BY <1>4 DEF StoreUnit
    <3> QED BY <2>1, <3>2, <3>3, <3>4, Zenon
  <2>5. /\ pc' = [pc EXCEPT ![u] = "send"]
        /\ \A v \in Users \ {u} : done'[v] = done[v]
        /\ broken' \in BOOLEAN
        /\ UNCHANGED <<used, mask, nOUT, sent, slot, ask, handler, out, event, reg>>
    BY <1>4 DEF StoreUnit, At, Break, TInv, TypeOK
  <2>6. TypeOK'
    BY <2>3, <2>4, <2>5 DEF TInv, TypeOK
  <2>7. PlaceOK'
    BY <2>1, <2>5 DEF TInv, TypeOK, PlaceOK
  <2> QED BY <2>6, <2>7 DEF TInv
<1> QED BY <1>1, <1>2, <1>3, <1>4

\* The steps of a registration, and the end of one.
LEMMA RegisterType ==
  ASSUME TInv, NEW u \in Users
  PROVE  /\ \A m \in Masks : FindFree(u, m) => TInv'
         /\ ResetPipe(u) => TInv'
         /\ Claim(u) => TInv'
         /\ SetMask(u) => TInv'
         /\ evt_freeHandler(u) => TInv'
<1>1. ASSUME NEW m \in Masks, FindFree(u, m) PROVE TInv'
  <2>1. PICK s \in Free : slot' = [slot EXCEPT ![u] = s]
    BY <1>1 DEF FindFree
  <2>2. s \in Slots /\ m \in SUBSET Classes
    BY EvtAssumption DEF Free
  <2>3. /\ pc' = [pc EXCEPT ![u] = "reset"] /\ ask' = [ask EXCEPT ![u] = m]
        /\ UNCHANGED <<used, mask, nIN, nOUT, buffer, sent, handler, out, event, reg,
                       done, broken>>
    BY <1>1 DEF FindFree, At, pipes, sending
  <2>4. TypeOK'
    BY <2>1, <2>2, <2>3 DEF TInv, TypeOK
  <2>5. PlaceOK'
    BY <2>1, <2>2, <2>3 DEF TInv, TypeOK, PlaceOK
  <2> QED BY <2>4, <2>5 DEF TInv
<1>2. ASSUME ResetPipe(u) PROVE TInv'
  <2>1. /\ pc[u] = "reset" /\ pc' = [pc EXCEPT ![u] = "claim"]
        /\ nIN' = [nIN EXCEPT ![slot[u]] = 0] /\ nOUT' = [nOUT EXCEPT ![slot[u]] = 0]
        /\ broken' \in BOOLEAN
        /\ UNCHANGED <<used, mask, buffer, sent, slot, ask, handler, out, event, reg, done>>
    BY <1>2 DEF ResetPipe, At, sending, Break, TInv, TypeOK
  <2>0. 0 \in 0..(PipeSize - 1)
    BY Sizes
  <2>2. TypeOK'
    BY <2>0, <2>1 DEF TInv, TypeOK
  <2>3. PlaceOK'
    BY <2>1 DEF TInv, TypeOK, PlaceOK
  <2> QED BY <2>2, <2>3 DEF TInv
<1>3. ASSUME Claim(u) PROVE TInv'
  <2>1. /\ pc[u] = "claim" /\ pc' = [pc EXCEPT ![u] = "mask"]
        /\ used' = [used EXCEPT ![slot[u]] = TRUE]
        /\ UNCHANGED <<mask, nIN, nOUT, buffer, sent, slot, ask, handler, out, event, reg,
                       done, broken>>
    BY <1>3 DEF Claim, At, sending, pipes
  <2>2. TypeOK'
    BY <2>1 DEF TInv, TypeOK
  <2>3. PlaceOK'
    BY <2>1 DEF TInv, TypeOK, PlaceOK
  <2> QED BY <2>2, <2>3 DEF TInv
<1>4. ASSUME SetMask(u) PROVE TInv'
  <2>1. /\ pc[u] = "mask" /\ pc' = [pc EXCEPT ![u] = "idle"]
        /\ mask' = [mask EXCEPT ![slot[u]] = ask[u]]
        /\ handler' = [handler EXCEPT ![u] = slot[u]]
        /\ slot' = [slot EXCEPT ![u] = NONE] /\ ask' = [ask EXCEPT ![u] = {}]
        /\ UNCHANGED <<used, nIN, nOUT, buffer, sent, out, event, reg, done>>
        /\ broken' \in BOOLEAN
    BY <1>4 DEF SetMask, At, sending, pipes, Break, TInv, TypeOK
  <2>2. TypeOK'
    BY <2>1 DEF TInv, TypeOK
  <2>3. PlaceOK'
    BY <2>1 DEF TInv, TypeOK, PlaceOK
  <2> QED BY <2>2, <2>3 DEF TInv
<1>5. ASSUME evt_freeHandler(u) PROVE TInv'
  <2>1. /\ pc[u] = "idle" /\ pc' = [pc EXCEPT ![u] = "idle"]
        /\ used' = [used EXCEPT ![handler[u]] = FALSE]
        /\ handler' = [handler EXCEPT ![u] = NONE]
        /\ UNCHANGED <<mask, nIN, nOUT, buffer, sent, slot, ask, out, event, reg, done, broken>>
    BY <1>5 DEF evt_freeHandler, At, sending, pipes
  <2>2. TypeOK'
    BY <2>1 DEF TInv, TypeOK
  <2>3. PlaceOK'
    BY <2>1 DEF TInv, TypeOK, PlaceOK
  <2> QED BY <2>2, <2>3 DEF TInv
<1> QED BY <1>1, <1>2, <1>3, <1>4, <1>5

\* The steps of a read and of a purge.
LEMMA ReadType ==
  ASSUME TInv, NEW u \in Users
  PROVE  /\ evt_getFullStatus(u) => TInv'
         /\ pipeRead(u) => TInv'
         /\ evt_purgeHandler(u) => TInv'
         /\ PurgeIn(u) => TInv'
<1>1. ASSUME evt_getFullStatus(u) PROVE TInv'
  <2>1. /\ handler[u] \in Slots
        /\ \/ pc' = [pc EXCEPT ![u] = "read"] \/ pc' = [pc EXCEPT ![u] = "idle"]
        /\ out' = [out EXCEPT ![u] = <<>>]
        /\ UNCHANGED <<used, mask, nIN, nOUT, buffer, sent, slot, ask, handler, event, reg,
                       done, broken>>
    BY <1>1 DEF evt_getFullStatus, At, sending, pipes, TInv, TypeOK
  <2>2. out' \in [Users -> Seq(Unit \cup {Blank})] /\ \A v \in Users : Len(out'[v]) <= EvtSize
    <3>1. <<>> \in Seq(Unit \cup {Blank}) /\ Len(<<>>) = 0 /\ 0 <= EvtSize
      BY Sizes
    <3> QED BY <2>1, <3>1, Zenon DEF TInv, TypeOK
  <2>3. TypeOK'
    BY <2>1, <2>2 DEF TInv, TypeOK
  <2>4. PlaceOK'
    BY <2>1 DEF TInv, TypeOK, PlaceOK
  <2> QED BY <2>3, <2>4 DEF TInv
<1>2. ASSUME pipeRead(u) PROVE TInv'
  <2>1. handler[u] \in Slots /\ pc[u] = "read"
    BY <1>2 DEF pipeRead, TInv, PlaceOK
  <2>2. broken' \in BOOLEAN
        /\ UNCHANGED <<used, mask, nIN, buffer, sent, slot, ask, handler, event, reg, done>>
    BY <1>2 DEF pipeRead, sending, Break, TInv, TypeOK
  <2>3. CASE Len(out[u]) < EvtSize /\ nIN[handler[u]] # nOUT[handler[u]]
    <3>1. /\ out' = [out EXCEPT ![u] = Append(@, buffer[handler[u]][nOUT[handler[u]]])]
          /\ nOUT' = [nOUT EXCEPT ![handler[u]] = Wrap(@ + 1)]
          /\ UNCHANGED pc
      BY <1>2, <2>3 DEF pipeRead
    <3>2. nOUT[handler[u]] \in 0..(PipeSize - 1)
      BY <2>1 DEF TInv, TypeOK
    <3>3. buffer[handler[u]][nOUT[handler[u]]] \in Unit \cup {Blank}
      <4>1. buffer[handler[u]] \in [0..(PipeSize - 1) -> Unit \cup {Blank}]
        BY <2>1 DEF TInv, TypeOK
      <4> QED BY <3>2, <4>1
    <3>4. Wrap(nOUT[handler[u]] + 1) \in 0..(PipeSize - 1)
      <4>1. nOUT[handler[u]] + 1 \in Int
        BY <3>2
      <4> QED BY <4>1, WrapRange, Zenon
    <3>5. nOUT' \in [Slots -> 0..(PipeSize - 1)]
      BY <2>1, <3>1, <3>4, Zenon DEF TInv, TypeOK
    <3>6. out' \in [Users -> Seq(Unit \cup {Blank})]
          /\ \A v \in Users : Len(out'[v]) <= EvtSize
      BY <2>3, <3>1, <3>3, Sizes, SMTT(20) DEF TInv, TypeOK
    <3>7. TypeOK'
      BY <2>2, <3>1, <3>5, <3>6 DEF TInv, TypeOK
    <3>8. PlaceOK'
      BY <2>2, <3>1 DEF TInv, TypeOK, PlaceOK
    <3> QED BY <3>7, <3>8 DEF TInv
  <2>4. CASE ~(Len(out[u]) < EvtSize /\ nIN[handler[u]] # nOUT[handler[u]])
    <3>1. pc' = [pc EXCEPT ![u] = "idle"] /\ UNCHANGED <<out, nOUT>>
      BY <1>2, <2>4 DEF pipeRead
    <3>2. TypeOK'
      BY <2>2, <3>1 DEF TInv, TypeOK
    <3>3. PlaceOK'
      BY <2>2, <3>1 DEF TInv, TypeOK, PlaceOK
    <3> QED BY <3>2, <3>3 DEF TInv
  <2> QED BY <2>3, <2>4
<1>3. ASSUME evt_purgeHandler(u) PROVE TInv'
  <2>1. /\ handler[u] \in Slots
        /\ \/ pc' = [pc EXCEPT ![u] = "purge"] \/ pc' = [pc EXCEPT ![u] = "idle"]
        /\ nOUT' = [nOUT EXCEPT ![handler[u]] = 0] \/ nOUT' = nOUT
        /\ UNCHANGED <<used, mask, nIN, buffer, sent, slot, ask, handler, out, event, reg,
                       done, broken>>
    BY <1>3 DEF evt_purgeHandler, At, sending, TInv, TypeOK
  <2>0. 0 \in 0..(PipeSize - 1)
    BY Sizes
  <2>2. TypeOK'
    BY <2>0, <2>1 DEF TInv, TypeOK
  <2>3. PlaceOK'
    BY <2>1 DEF TInv, TypeOK, PlaceOK
  <2> QED BY <2>2, <2>3 DEF TInv
<1>4. ASSUME PurgeIn(u) PROVE TInv'
  <2>1. /\ handler[u] \in Slots /\ pc' = [pc EXCEPT ![u] = "idle"]
        /\ nIN' = [nIN EXCEPT ![handler[u]] = 0] /\ broken' \in BOOLEAN
        /\ UNCHANGED <<used, mask, nOUT, buffer, sent, slot, ask, handler, out, event, reg, done>>
    BY <1>4 DEF PurgeIn, At, sending, Break, TInv, TypeOK, PlaceOK
  <2>0. 0 \in 0..(PipeSize - 1)
    BY Sizes
  <2>2. TypeOK'
    BY <2>0, <2>1 DEF TInv, TypeOK
  <2>3. PlaceOK'
    BY <2>1 DEF TInv, TypeOK, PlaceOK
  <2> QED BY <2>2, <2>3 DEF TInv
<1> QED BY <1>1, <1>2, <1>3, <1>4

LEMMA NextT == TInv /\ [Next]_vars => TInv'
<1> SUFFICES ASSUME TInv, [Next]_vars PROVE TInv'
  OBVIOUS
<1>1. CASE UNCHANGED vars
  BY <1>1 DEF vars, pipes, sending, TInv, TypeOK, PlaceOK
<1>2. ASSUME NEW c \in Classes, IrqSend(c) PROVE TInv'
  BY <1>2, IrqSendType
<1>3. ASSUME NEW u \in Users, UserStep(u) PROVE TInv'
  BY <1>3, SendType, RegisterType, ReadType, Zenon DEF UserStep
<1> QED BY <1>1, <1>2, <1>3, Zenon DEF Next

\* The indices stay in the buffer and every call leaves its thread in a place of
\* the code, for any number of threads, handlers and events (evt.c, pipes.c).
THEOREM EvtTypeCorrect == Spec => []TypeOK
<1>1. TInv => TypeOK
  BY DEF TInv
<1> QED BY <1>1, InitT, NextT, PTL DEF Spec

(***************************************************************************)
(* Handlers.  Between two steps of a registration the struct is known by   *)
(* nobody but its pc and slot: it is free until Claim, in use and nobody's *)
(* handler until SetMask.                                                  *)
(***************************************************************************)
Reg(u) == pc[u] \in {"reset", "claim", "mask"}

SlotsSound ==
  /\ \A u \in Users : pc[u] \in {"reset", "claim"} => ~used[slot[u]]
  /\ \A u \in Users : pc[u] = "mask" => /\ used[slot[u]]
                                        /\ \A v \in Users : handler[v] # slot[u]
  /\ \A u \in Users : handler[u] # NONE => used[handler[u]] /\ ~Reg(u)
  /\ \A u, v \in Users : Reg(u) /\ Reg(v) => u = v

HInv == SlotsSound /\ HandlersApart /\ HandlersOwned

LEMMA InitH == Init => HInv
  BY DEF Init, HInv, SlotsSound, HandlersApart, HandlersOwned, Reg

\* A step that leaves used, handler and the registrations alone.
LEMMA QuietH ==
  ASSUME TInv, HInv, NEW u \in Users,
         UNCHANGED <<used, handler>>,
         ~Reg(u), ~Reg(u)',
         \A v \in Users \ {u} : pc'[v] = pc[v] /\ slot'[v] = slot[v]
  PROVE  HInv'
<1>1. \A v \in Users : /\ Reg(v)' <=> Reg(v)
                       /\ Reg(v) => pc'[v] = pc[v] /\ slot'[v] = slot[v]
  BY DEF Reg
<1>2. \A v \in Users : (pc'[v] = "mask") <=> (pc[v] = "mask")
  BY <1>1 DEF Reg
<1>3. SlotsSound'
  BY <1>1, <1>2 DEF HInv, SlotsSound, Reg
<1>4. HandlersApart' /\ HandlersOwned'
  BY <1>1, <1>2 DEF HInv, HandlersApart, HandlersOwned, Reg
<1> QED BY <1>3, <1>4 DEF HInv

LEMMA FindFreeH ==
  ASSUME TInv, HInv, Apart = TRUE, NEW u \in Users, NEW m \in Masks, FindFree(u, m)
  PROVE  HInv'
<1>1. PICK s \in Free : slot' = [slot EXCEPT ![u] = s]
  BY DEF FindFree
<1>2. /\ handler[u] = NONE /\ \A v \in Users : ~Reg(v)
      /\ pc[u] = "idle" /\ pc' = [pc EXCEPT ![u] = "reset"]
      /\ UNCHANGED <<used, handler>>
  BY DEF FindFree, Registering, At, Reg
<1>3. /\ pc'[u] = "reset" /\ slot'[u] = s /\ ~used[s]
      /\ \A v \in Users \ {u} : pc'[v] = pc[v] /\ slot'[v] = slot[v]
  BY <1>1, <1>2 DEF TInv, TypeOK, Free
<1>4. SlotsSound'
  BY <1>2, <1>3 DEF HInv, SlotsSound, Reg
<1>5. HandlersApart' /\ HandlersOwned'
  BY <1>2, <1>3 DEF HInv, HandlersApart, HandlersOwned, Reg
<1> QED BY <1>4, <1>5 DEF HInv

LEMMA ClaimH ==
  ASSUME TInv, HInv, NEW u \in Users, Claim(u)
  PROVE  HInv'
<1>1. /\ pc[u] = "claim" /\ pc'[u] = "mask" /\ slot[u] \in Slots
      /\ \A v \in Users \ {u} : pc'[v] = pc[v]
      /\ UNCHANGED <<slot, handler>>
  BY DEF Claim, At, TInv, TypeOK, PlaceOK
<1>2. /\ used'[slot[u]] /\ ~used[slot[u]]
      /\ \A s \in Slots \ {slot[u]} : used'[s] = used[s]
  BY <1>1 DEF Claim, TInv, TypeOK, HInv, SlotsSound
<1>3. \A v \in Users : handler[v] # slot[u]
  BY <1>1, <1>2, Sizes DEF HInv, SlotsSound
<1>4. \A v \in Users : v # u => ~Reg(v)
  BY <1>1 DEF HInv, SlotsSound, Reg
<1>5. \A v \in Users : handler[v] # NONE => handler[v] \in Slots
  BY DEF TInv, TypeOK
<1>6. SlotsSound'
  BY <1>1, <1>2, <1>3, <1>4, <1>5 DEF HInv, SlotsSound, Reg
<1>7. HandlersApart' /\ HandlersOwned'
  BY <1>1, <1>2, <1>3, <1>4 DEF HInv, HandlersApart, HandlersOwned, Reg
<1> QED BY <1>6, <1>7 DEF HInv

LEMMA SetMaskH ==
  ASSUME TInv, HInv, NEW u \in Users, SetMask(u)
  PROVE  HInv'
<1>1. /\ pc[u] = "mask" /\ pc'[u] = "idle" /\ slot[u] \in Slots
      /\ handler'[u] = slot[u]
      /\ \A v \in Users \ {u} : pc'[v] = pc[v] /\ slot'[v] = slot[v] /\ handler'[v] = handler[v]
      /\ UNCHANGED used
  BY DEF SetMask, At, TInv, TypeOK, PlaceOK
<1>2. used[slot[u]] /\ \A v \in Users : handler[v] # slot[u]
  BY <1>1 DEF HInv, SlotsSound
<1>3. \A v \in Users : v # u => ~Reg(v)
  BY <1>1 DEF HInv, SlotsSound, Reg
<1>4. SlotsSound'
  BY <1>1, <1>2, <1>3 DEF HInv, SlotsSound, Reg
<1>5. HandlersApart'
  BY <1>1, <1>2 DEF HInv, HandlersApart
<1>6. HandlersOwned'
  <2> SUFFICES ASSUME NEW s \in Slots, used[s]
               PROVE  \E v \in Users : \/ handler'[v] = s
                                       \/ pc'[v] = "mask" /\ slot'[v] = s
    BY <1>1 DEF HandlersOwned
  <2>1. PICK v \in Users : handler[v] = s \/ (pc[v] = "mask" /\ slot[v] = s)
    BY DEF HInv, HandlersOwned
  <2>2. handler[u] = NONE
    BY <1>1 DEF HInv, SlotsSound, Reg
  <2>3. CASE handler[v] = s
    <3>1. v # u
      BY <2>2, <2>3, Sizes
    <3>2. handler'[v] = s
      BY <1>1, <2>3, <3>1
    <3> QED BY <3>2
  <2>4. CASE pc[v] = "mask" /\ slot[v] = s
    <3>1. v = u
      BY <1>3, <2>4 DEF Reg
    <3>2. handler'[u] = s
      BY <1>1, <2>4, <3>1
    <3> QED BY <3>2
  <2> QED BY <2>1, <2>3, <2>4
<1> QED BY <1>4, <1>5, <1>6 DEF HInv

LEMMA FreeH ==
  ASSUME TInv, HInv, NEW u \in Users, evt_freeHandler(u)
  PROVE  HInv'
<1>1. /\ handler[u] # NONE /\ handler[u] \in Slots /\ handler'[u] = NONE
      /\ ~used'[handler[u]]
      /\ \A s \in Slots \ {handler[u]} : used'[s] = used[s]
      /\ \A v \in Users \ {u} : handler'[v] = handler[v]
      /\ \A v \in Users : pc'[v] = pc[v]
      /\ UNCHANGED slot
  BY DEF evt_freeHandler, At, TInv, TypeOK
<1>2. \A v \in Users \ {u} : handler[v] # handler[u]
  BY <1>1 DEF HInv, HandlersApart
<1>3. \A v \in Users : pc[v] = "mask" => slot[v] # handler[u] /\ slot[v] \in Slots
  BY DEF HInv, SlotsSound, TInv, PlaceOK
<1>4. \A v \in Users : /\ handler[v] # NONE => handler[v] \in Slots
                       /\ Reg(v) => slot[v] \in Slots
  BY DEF TInv, TypeOK, PlaceOK, Reg
<1>5. SlotsSound'
  BY <1>1, <1>2, <1>3, <1>4 DEF HInv, SlotsSound, Reg
<1>6. HandlersApart'
  BY <1>1 DEF HInv, HandlersApart
<1>7. HandlersOwned'
  BY <1>1 DEF HInv, HandlersOwned
<1> QED BY <1>5, <1>6, <1>7 DEF HInv

LEMMA ResetPipeH ==
  ASSUME TInv, HInv, NEW u \in Users, ResetPipe(u)
  PROVE  HInv'
<1>1. /\ pc[u] = "reset" /\ pc'[u] = "claim"
      /\ \A v \in Users \ {u} : pc'[v] = pc[v]
      /\ UNCHANGED <<used, slot, handler>>
  BY DEF ResetPipe, At, TInv, TypeOK
<1>2. \A v \in Users : Reg(v)' <=> Reg(v)
  BY <1>1 DEF Reg
<1>3. SlotsSound'
  BY <1>1, <1>2 DEF HInv, SlotsSound
<1>4. HandlersApart' /\ HandlersOwned'
  BY <1>1 DEF HInv, HandlersApart, HandlersOwned
<1> QED BY <1>3, <1>4 DEF HInv

\* The steps of a thread that reads, purges or sends.
LEMMA OtherH ==
  ASSUME TInv, HInv, NEW u \in Users,
         \/ evt_getFullStatus(u) \/ pipeRead(u) \/ evt_purgeHandler(u) \/ PurgeIn(u)
         \/ (\E c \in Classes : StartSend(u, c))
         \/ NextHandler(u) \/ LoadIn(u) \/ StoreUnit(u)
  PROVE  HInv'
<1>1. /\ UNCHANGED <<used, handler>>
      /\ ~Reg(u) /\ ~Reg(u)'
      /\ \A v \in Users \ {u} : pc'[v] = pc[v] /\ slot'[v] = slot[v]
  <2>1. CASE evt_getFullStatus(u)
    BY <2>1 DEF evt_getFullStatus, At, Reg, TInv, TypeOK
  <2>2. CASE pipeRead(u)
    BY <2>2 DEF pipeRead, Reg, TInv, TypeOK
  <2>3. CASE evt_purgeHandler(u)
    BY <2>3 DEF evt_purgeHandler, At, Reg, TInv, TypeOK
  <2>4. CASE PurgeIn(u)
    BY <2>4 DEF PurgeIn, At, Reg, TInv, TypeOK
  <2>5. ASSUME NEW c \in Classes, StartSend(u, c)
        PROVE  <1>1!:
    BY <2>5 DEF StartSend, At, Reg, TInv, TypeOK
  <2>6. CASE NextHandler(u)
    BY <2>6 DEF NextHandler, Reg, TInv, TypeOK
  <2>7. CASE LoadIn(u)
    BY <2>7 DEF LoadIn, At, Reg, TInv, TypeOK
  <2>8. CASE StoreUnit(u)
    BY <2>8 DEF StoreUnit, At, Reg, TInv, TypeOK
  <2> QED BY <2>1, <2>2, <2>3, <2>4, <2>5, <2>6, <2>7, <2>8
<1> QED BY <1>1, QuietH

LEMMA IrqSendH ==
  ASSUME HInv, NEW c \in Classes, IrqSend(c)
  PROVE  HInv'
<1>1. UNCHANGED <<used, pc, slot, handler>>
  BY DEF IrqSend
<1>2. SlotsSound'
  BY <1>1 DEF HInv, SlotsSound, Reg
<1>3. HandlersApart' /\ HandlersOwned'
  BY <1>1 DEF HInv, HandlersApart, HandlersOwned
<1> QED BY <1>2, <1>3 DEF HInv

LEMMA NextH == Apart = TRUE /\ TInv /\ HInv /\ [Next]_vars => HInv'
<1> SUFFICES ASSUME Apart = TRUE, TInv, HInv, [Next]_vars PROVE HInv'
  OBVIOUS
<1>1. CASE UNCHANGED vars
  <2>1. UNCHANGED <<used, pc, slot, handler>>
    BY <1>1 DEF vars
  <2>2. SlotsSound'
    BY <2>1 DEF HInv, SlotsSound, Reg
  <2>3. HandlersApart' /\ HandlersOwned'
    BY <2>1 DEF HInv, HandlersApart, HandlersOwned
  <2> QED BY <2>2, <2>3 DEF HInv
<1>2. ASSUME NEW c \in Classes, IrqSend(c) PROVE HInv'
  BY <1>2, IrqSendH
<1>3. ASSUME NEW u \in Users, UserStep(u) PROVE HInv'
  <2>1. ASSUME NEW m \in Masks, FindFree(u, m) PROVE HInv'
    BY <2>1, FindFreeH
  <2>2. CASE ResetPipe(u)
    BY <2>2, ResetPipeH
  <2>3. CASE Claim(u)
    BY <2>3, ClaimH
  <2>4. CASE SetMask(u)
    BY <2>4, SetMaskH
  <2>5. CASE evt_freeHandler(u)
    BY <2>5, FreeH
  <2>6. ASSUME \/ evt_getFullStatus(u) \/ pipeRead(u) \/ evt_purgeHandler(u) \/ PurgeIn(u)
               \/ (\E c \in Classes : StartSend(u, c))
               \/ NextHandler(u) \/ LoadIn(u) \/ StoreUnit(u)
        PROVE  HInv'
    BY <2>6, OtherH
  <2> QED BY <1>3, <2>1, <2>2, <2>3, <2>4, <2>5, <2>6, Zenon DEF UserStep
<1> QED BY <1>1, <1>2, <1>3, Zenon DEF Next

\* When no two registrations overlap, evt_getHandler never gives a struct that has
\* an owner, and the owners of two handlers never meet in one (evt.c), for any
\* number of threads and handlers.
THEOREM HandlersStayApart ==
  ASSUME Apart = TRUE
  PROVE  Spec => []HandlersApart
<1>1. Init => TInv /\ HInv
  BY InitT, InitH
<1>2. TInv /\ HInv /\ [Next]_vars => (TInv /\ HInv)'
  BY NextT, NextH
<1>3. HInv => HandlersApart
  BY DEF HInv
<1> QED BY <1>1, <1>2, <1>3, PTL DEF Spec

\* When no two registrations overlap, every struct in use has an owner, or a thread
\* in evt_getHandler about to become it: the table of NB_EVT_PIPES never shrinks.
THEOREM HandlersStayOwned ==
  ASSUME Apart = TRUE
  PROVE  Spec => []HandlersOwned
<1>1. Init => TInv /\ HInv
  BY InitT, InitH
<1>2. TInv /\ HInv /\ [Next]_vars => (TInv /\ HInv)'
  BY NextT, NextH
<1>3. HInv => HandlersOwned
  BY DEF HInv
<1> QED BY <1>1, <1>2, <1>3, PTL DEF Spec

(***************************************************************************)
(* A pipe is a queue: indices that wrap, and events in the units between   *)
(* them.                                                                   *)
(***************************************************************************)

LEMMA DivMod ==
  ASSUME NEW x \in Int, NEW d \in Nat \ {0}
  PROVE  /\ x = d * (x \div d) + (x % d) /\ x \div d \in Int /\ x % d \in 0..(d - 1)
         /\ x \in 0..(d - 1) => x % d = x
         /\ x \in Nat => x \div d \in Nat
<1>1. /\ x = d * (x \div d) + (x % d) /\ x \div d \in Int /\ x % d \in Nat /\ x % d < d
      /\ x \in 0..(d - 1) => x % d = x
      /\ x \in Nat => x \div d \in Nat
  OBVIOUS
<1>2. x % d \in 0..(d - 1)
  <2> DEFINE r == x % d
  <2>1. r \in Nat /\ r < d
    BY <1>1
  <2> HIDE DEF r
  <2>2. r \in 0..(d - 1)
    BY <2>1
  <2> QED BY <2>2 DEF r
<1> QED BY <1>1, <1>2, Zenon

\* There is only one quotient and one remainder.
LEMMA DivModIs ==
  ASSUME NEW d \in Nat \ {0}, NEW q \in Int, NEW r \in 0..(d - 1), NEW x \in Int, x = d * q + r
  PROVE  x \div d = q /\ x % d = r
<1> DEFINE p == x \div d
           m == x % d
<1>1. x = d * p + m /\ p \in Int /\ m \in 0..(d - 1)
  BY DivMod
<1> HIDE DEF p, m
<1>2. d * (p - q) = r - m
  BY <1>1
<1>3. CASE p = q
  BY <1>1, <1>3 DEF p, m
<1>4. CASE p > q
  <2>1. p - q >= 1 /\ p - q \in Int
    BY <1>1, <1>4
  <2>2. d * (p - q) >= d
    <3> DEFINE k == p - q
    <3>1. k \in Nat \ {0}
      BY <2>1
    <3> HIDE DEF k
    <3>2. d * k >= d
      BY <3>1
    <3> QED BY <3>2 DEF k
  <2> QED BY <1>1, <1>2, <2>2
<1>5. CASE p < q
  <2>1. q - p \in Nat \ {0} /\ d * (q - p) = m - r
    BY <1>1, <1>2, <1>5
  <2>2. d * (q - p) >= d
    <3> DEFINE k == q - p
    <3>1. k \in Nat \ {0}
      BY <2>1
    <3> HIDE DEF k
    <3>2. d * k >= d
      BY <3>1
    <3> QED BY <3>2 DEF k
  <2> QED BY <1>1, <2>1, <2>2
<1> QED BY <1>1, <1>3, <1>4, <1>5

LEMMA SameMod ==
  ASSUME NEW d \in Nat \ {0}, NEW x \in Int, NEW y \in Int, NEW k \in Int, y = x + d * k
  PROVE  y % d = x % d
<1> DEFINE q == x \div d
           r == x % d
           p == q + k
<1>1. x = d * q + r /\ q \in Int /\ r \in 0..(d - 1)
  BY DivMod, Zenon
<1> HIDE DEF q, r
<1>2. p \in Int /\ d * p = d * q + d * k
  BY <1>1
<1> HIDE DEF p
<1>3. y = d * p + r
  <2> DEFINE A == d * q
             B == d * k
             C == d * p
  <2>1. A \in Int /\ B \in Int /\ C = A + B /\ x = A + r /\ y = x + B /\ r \in Int
    BY <1>1, <1>2
  <2> HIDE DEF A, B, C
  <2>2. y = C + r
    BY <2>1
  <2> QED BY <2>2 DEF C
<1>4. y % d = r
  BY <1>1, <1>2, <1>3, DivModIs
<1> QED BY <1>4 DEF r

LEMMA WrapIs ==
  ASSUME NEW a \in Int, NEW b \in Int
  PROVE  /\ Wrap(a) \in 0..(PipeSize - 1) /\ (a \in 0..(PipeSize - 1) => Wrap(a) = a)
         /\ Wrap(Wrap(a) + b) = Wrap(a + b)
         /\ Wrap(b - Wrap(a)) = Wrap(b - a)
         /\ Wrap(a + PipeSize) = Wrap(a)
<1> DEFINE P == PipeSize
           p == a \div P
           r == a % P
           n == -p
<1>0. P \in Nat \ {0}
  BY Sizes
<1> HIDE DEF P
<1>1. a = P * p + r /\ p \in Int /\ r \in 0..(P - 1) /\ (a \in 0..(P - 1) => r = a)
  BY <1>0, DivMod, Zenon
<1> HIDE DEF p, r
<1>2. n \in Int /\ P * n = -(P * p)
  BY <1>0, <1>1
<1> HIDE DEF n
<1>3. (r + b) % P = (a + b) % P
  <2> DEFINE x == a + b
             y == r + b
  <2>1. x \in Int /\ y \in Int /\ y = x + P * n
    BY <1>0, <1>1, <1>2
  <2> HIDE DEF x, y
  <2>2. y % P = x % P
    BY <1>0, <1>2, <2>1, SameMod
  <2> QED BY <2>2 DEF x, y
<1>4. (b - r) % P = (b - a) % P
  <2> DEFINE x == b - a
             y == b - r
  <2>1. x \in Int /\ y \in Int /\ y = x + P * p
    BY <1>0, <1>1
  <2> HIDE DEF x, y
  <2>2. y % P = x % P
    BY <1>0, <1>1, <2>1, SameMod
  <2> QED BY <2>2 DEF x, y
<1>5. (a + P) % P = a % P
  <2> DEFINE y == a + P
             one == 1
  <2>1. y \in Int /\ y = a + P * one /\ one \in Int
    BY <1>0
  <2> HIDE DEF y, one
  <2>2. y % P = a % P
    BY <1>0, <2>1, SameMod
  <2> QED BY <2>2 DEF y
<1>6. \A x : Wrap(x) = x % P
  BY DEF Wrap, P
<1>7. Wrap(a) = r
  BY <1>6 DEF r
<1> QED BY <1>1, <1>3, <1>4, <1>5, <1>6, <1>7, Zenon DEF P

\* Units of events in a row.
LEMMA PlaceIn ==
  ASSUME NEW n \in Nat, NEW k \in 1..n, NEW i \in 1..EvtSize
  PROVE  /\ (k - 1) * EvtSize \in Nat /\ n * EvtSize \in Nat
         /\ (k - 1) * EvtSize + i - 1 < n * EvtSize
<1> DEFINE E == EvtSize
           a == k - 1
           d == n - k
<1>0. E \in Nat \ {0} /\ a \in Nat /\ d \in Nat /\ n = a + 1 + d
  BY Sizes
<1> HIDE DEF E, a, d
<1>1. a * E \in Nat /\ d * E \in Nat /\ n * E = a * E + E + d * E
  BY <1>0
<1> DEFINE x == a * E
           y == d * E
           z == n * E
<1>2. x \in Nat /\ y \in Nat /\ z = x + E + y /\ i \in 1..E
  BY <1>1 DEF E
<1> HIDE DEF x, y, z
<1>3. x + i - 1 < z /\ z \in Nat
  BY <1>0, <1>2
<1> QED BY <1>2, <1>3 DEF x, z, a, E

LEMMA UnitIs ==
  ASSUME NEW e, NEW i \in Int
  PROVE  UnitOf(e, i) # Blank /\ UnitOf(e, i)[1] = e
<1>1. Len(<<e, i>>) = 2 /\ Len(<< >>) = 0 /\ <<e, i>>[1] = e
  OBVIOUS
<1>2. <<e, i>> # << >>
  BY <1>1
<1> QED BY <1>1, <1>2 DEF UnitOf, Blank

LEMMA EventIs ==
  ASSUME NEW e, NEW n \in Nat \ {0}, NEW f, DOMAIN f = 1..n,
         \A i \in 1..n : f[i] = UnitOf(e, i)
  PROVE  EventOf(f) = e
<1>1. f # << >>
  <2>1. DOMAIN << >> = {} /\ 1 \in DOMAIN f
    OBVIOUS
  <2> QED BY <2>1
<1>2. f[1][1] = e
  BY UnitIs
<1>3. \A i \in DOMAIN f : f[i] # Blank /\ f[i] = UnitOf(f[1][1], i)
  BY <1>2, UnitIs
<1> QED BY <1>1, <1>2, <1>3 DEF EventOf

\* The events in w units from o on, behind what is left of the one being read.
Place(o, w, k, i) == Wrap(o + (w % EvtSize) + (k - 1) * EvtSize + i - 1)
WaitOf(buf, o, w) ==
  [k \in 1..(w \div EvtSize) |-> EventOf([i \in 1..EvtSize |-> buf[Place(o, w, k, i)]])]
WholeIn(buf, o, w) ==
  \A k \in 1..(w \div EvtSize) : \E e \in Event :
    \A i \in 1..EvtSize : buf[Place(o, w, k, i)] = UnitOf(e, i)

LEMMA WaitIs ==
  ASSUME NEW s \in Slots
  PROVE  Waiting(s) = WaitOf(buffer[s], nOUT[s], Wrap(Pending(s) - Partial(s)))
BY DEF Waiting, WaitOf, Place

LEMMA Parts ==
  ASSUME NEW w \in Nat
  PROVE  /\ w \div EvtSize \in Nat /\ w % EvtSize \in 0..(EvtSize - 1)
         /\ w = (w \div EvtSize) * EvtSize + (w % EvtSize)
<1> DEFINE E == EvtSize
           n == w \div E
           r == w % E
<1>0. E \in Nat \ {0} /\ w \in Int
  BY Sizes
<1> HIDE DEF E
<1>1. w = E * n + r /\ n \in Nat /\ r \in 0..(E - 1)
  BY <1>0, DivMod, Zenon
<1> HIDE DEF n, r
<1>2. w = n * E + r
  <2>1. n * E = E * n
    BY <1>0, <1>1
  <2> QED BY <1>1, <2>1
<1> QED BY <1>1, <1>2, Zenon DEF n, r, E

LEMMA PartsIs ==
  ASSUME NEW n \in Nat, NEW r \in 0..(EvtSize - 1), NEW w \in Nat, w = n * EvtSize + r
  PROVE  w \div EvtSize = n /\ w % EvtSize = r
<1>0. EvtSize \in Nat \ {0}
  BY Sizes
<1>1. w = EvtSize * n + r
  <2>1. n * EvtSize = EvtSize * n
    BY <1>0
  <2> QED BY <2>1
<1> QED BY <1>0, <1>1, DivModIs

\* Only these units count.
LEMMA WaitSame ==
  ASSUME NEW buf, NEW bug, NEW o \in Nat, NEW w \in Nat,
         \A j \in 0..(w - 1) : bug[Wrap(o + j)] = buf[Wrap(o + j)]
  PROVE  /\ WaitOf(bug, o, w) = WaitOf(buf, o, w)
         /\ WholeIn(buf, o, w) => WholeIn(bug, o, w)
<1> DEFINE n == w \div EvtSize
           r == w % EvtSize
<1>0. EvtSize \in Nat \ {0}
  BY Sizes
<1>1. n \in Nat /\ r \in 0..(EvtSize - 1) /\ w = n * EvtSize + r
  BY Parts
<1> HIDE DEF n, r
<1>2. ASSUME NEW k \in 1..n, NEW i \in 1..EvtSize
      PROVE  bug[Place(o, w, k, i)] = buf[Place(o, w, k, i)]
  <2> DEFINE x == (k - 1) * EvtSize
             z == n * EvtSize
             j == r + x + i - 1
  <2>1. x \in Nat /\ z \in Nat /\ x + i - 1 < z /\ w = z + r
    BY <1>1, PlaceIn
  <2> HIDE DEF x, z
  <2>2. j \in 0..(w - 1) /\ o + j = o + r + x + i - 1
    BY <1>0, <1>1, <2>1
  <2>3. Place(o, w, k, i) = Wrap(o + r + x + i - 1)
    BY DEF Place, r, x
  <2> HIDE DEF j
  <2> QED BY <2>2, <2>3
<1>3. WaitOf(bug, o, w) = WaitOf(buf, o, w)
  BY <1>2 DEF WaitOf, n
<1>4. WholeIn(buf, o, w) => WholeIn(bug, o, w)
  BY <1>2 DEF WholeIn, n
<1> QED BY <1>3, <1>4

LEMMA AppendIs ==
  ASSUME NEW n \in Nat, NEW e, NEW S, NEW f \in [1..n -> S], NEW g \in [1..(n + 1) -> S],
         \A k \in 1..n : g[k] = f[k], g[n + 1] = e
  PROVE  Append(f, e) = g
<1>1. f \in Seq(S) /\ e \in S /\ Len(f) = n /\ g \in Seq(S) /\ Len(g) = n + 1
  OBVIOUS
<1>2. /\ Append(f, e) \in Seq(S) /\ Len(Append(f, e)) = n + 1
      /\ \A k \in 1..n : Append(f, e)[k] = f[k]
      /\ Append(f, e)[n + 1] = e
  BY <1>1, AppendProperties
<1>3. \A k \in 1..(n + 1) : Append(f, e)[k] = g[k]
  <2> SUFFICES ASSUME NEW k \in 1..(n + 1) PROVE Append(f, e)[k] = g[k]
    OBVIOUS
  <2>1. k \in 1..n \/ k = n + 1
    OBVIOUS
  <2> QED BY <1>2, <2>1
<1> QED BY <1>1, <1>2, <1>3, SeqEqual

LEMMA TailIs ==
  ASSUME NEW n \in Nat \ {0}, NEW S, NEW f \in [1..n -> S], NEW g \in [1..(n - 1) -> S],
         \A k \in 1..(n - 1) : g[k] = f[k + 1]
  PROVE  f # << >> /\ Head(f) = f[1] /\ Tail(f) = g
<1>1. f \in Seq(S) /\ Len(f) = n /\ g \in Seq(S) /\ Len(g) = n - 1
  <2>1. n - 1 \in Nat
    OBVIOUS
  <2> QED BY <2>1
<1>2. f # << >>
  BY <1>1
<1>3. /\ Tail(f) \in Seq(S) /\ Len(Tail(f)) = n - 1
      /\ \A k \in 1..(n - 1) : Tail(f)[k] = f[k + 1]
  BY <1>1, <1>2, HeadTailProperties
<1>4. Tail(f) = g
  BY <1>1, <1>3, SeqEqual
<1>5. Head(f) = f[1]
  OBVIOUS
<1> QED BY <1>2, <1>4, <1>5

\* The first w units from o on are the same in both buffers.
SameIn(buf, bug, o, w) == \A j \in 0..(w - 1) : bug[Wrap(o + j)] = buf[Wrap(o + j)]

\* The event behind them.
EventAt(bug, o, w, e) == \A i \in 1..EvtSize : bug[Wrap(o + w + i - 1)] = UnitOf(e, i)

\* With it there is one more event.
Grown(buf, bug, o, w, e) ==
  /\ WaitOf(bug, o, w + EvtSize) = Append(WaitOf(buf, o, w), e)
  /\ WholeIn(buf, o, w) => WholeIn(bug, o, w + EvtSize)
  /\ (w + EvtSize) % EvtSize = w % EvtSize

LEMMA WaitGrow ==
  ASSUME NEW buf, NEW bug, NEW o \in Nat, NEW w \in Nat, NEW e \in Event,
         SameIn(buf, bug, o, w), EventAt(bug, o, w, e)
  PROVE  Grown(buf, bug, o, w, e)
<1> DEFINE v == w + EvtSize
           n == w \div EvtSize
           r == w % EvtSize
           F(k) == EventOf([i \in 1..EvtSize |-> bug[Place(o, w, k, i)]])
<1>0. EvtSize \in Nat \ {0}
  BY Sizes
<1>1. n \in Nat /\ r \in 0..(EvtSize - 1) /\ w = n * EvtSize + r
  BY Parts
<1>w. WaitOf(bug, o, w) = WaitOf(buf, o, w) /\ (WholeIn(buf, o, w) => WholeIn(bug, o, w))
  BY WaitSame DEF SameIn
<1>v. v = w + EvtSize
  OBVIOUS
<1> HIDE DEF n, r, v
<1>2. v \div EvtSize = n + 1 /\ v % EvtSize = r /\ v \in Nat
  <2> DEFINE m == n + 1
  <2>1. m \in Nat /\ v \in Nat /\ v = m * EvtSize + r
    <3>1. m * EvtSize = n * EvtSize + EvtSize
      BY <1>0, <1>1
    <3> QED BY <1>0, <1>1, <1>v, <3>1
  <2> HIDE DEF m
  <2>2. v \div EvtSize = m /\ v % EvtSize = r
    BY <1>1, <2>1, PartsIs
  <2> QED BY <2>1, <2>2 DEF m
<1>3. \A k, i : Place(o, v, k, i) = Place(o, w, k, i)
  BY <1>2 DEF Place, r
<1>4. \A i \in 1..EvtSize : bug[Place(o, w, n + 1, i)] = UnitOf(e, i)
  <2> SUFFICES ASSUME NEW i \in 1..EvtSize PROVE bug[Place(o, w, n + 1, i)] = UnitOf(e, i)
    OBVIOUS
  <2> DEFINE x == n * EvtSize
  <2>1. x \in Nat /\ (n + 1) - 1 = n
    BY <1>0, <1>1
  <2>2. Place(o, w, n + 1, i) = Wrap(o + r + x + i - 1)
    BY <2>1 DEF Place, r
  <2>3. o + r + x + i - 1 = o + w + i - 1
    BY <1>1, <2>1
  <2> HIDE DEF x
  <2> QED BY <2>2, <2>3 DEF EventAt
<1>5. F(n + 1) = e
  <2> DEFINE f == [i \in 1..EvtSize |-> bug[Place(o, w, n + 1, i)]]
  <2>1. DOMAIN f = 1..EvtSize /\ \A i \in 1..EvtSize : f[i] = UnitOf(e, i)
    BY <1>4
  <2> HIDE DEF f
  <2>2. EventOf(f) = e
    BY <1>0, <2>1, EventIs
  <2> QED BY <2>2 DEF f
<1>6. WaitOf(bug, o, v) = [k \in 1..(n + 1) |-> F(k)] /\ WaitOf(bug, o, w) = [k \in 1..n |-> F(k)]
  BY <1>2, <1>3 DEF WaitOf, n
<1> HIDE DEF F
<1>7. Append([k \in 1..n |-> F(k)], e) = [k \in 1..(n + 1) |-> F(k)]
  <2> DEFINE g == [k \in 1..(n + 1) |-> F(k)]
             f == [k \in 1..n |-> F(k)]
             S == {F(k) : k \in 1..(n + 1)}
  <2>1. /\ g \in [1..(n + 1) -> S] /\ f \in [1..n -> S]
        /\ g[n + 1] = e /\ \A k \in 1..n : g[k] = f[k]
    BY <1>1, <1>5
  <2> HIDE DEF f, g, S
  <2>2. Append(f, e) = g
    BY <1>1, <2>1, AppendIs
  <2> QED BY <2>2 DEF f, g
<1>8. WholeIn(bug, o, w) => WholeIn(bug, o, v)
  <2> SUFFICES ASSUME WholeIn(bug, o, w), NEW k \in 1..(n + 1)
               PROVE  \E q \in Event : \A i \in 1..EvtSize : bug[Place(o, w, k, i)] = UnitOf(q, i)
    BY <1>2, <1>3 DEF WholeIn
  <2>1. CASE k = n + 1
    BY <1>4, <2>1
  <2>2. CASE k # n + 1
    <3>1. k \in 1..n
      BY <1>1, <2>2
    <3> QED BY <3>1 DEF WholeIn, n
  <2> QED BY <2>1, <2>2
<1> QED BY <1>2, <1>6, <1>7, <1>8, <1>w DEF Grown, r, v

LEMMA PlaceNext ==
  ASSUME NEW o \in Nat, NEW w \in Nat, NEW v \in Nat, NEW d \in Int, NEW i \in Int,
         NEW k, NEW l, NEW x \in Int, NEW y \in Int, x = (k - 1) * EvtSize, y = (l - 1) * EvtSize,
         NEW r \in Int, NEW q \in Int, r = v % EvtSize, q = w % EvtSize, 1 + r + x = q + y
  PROVE  Place(Wrap(o + 1), v, k, i) = Place(o, w, l, i)
<1>2. /\ Place(Wrap(o + 1), v, k, i) = Wrap(Wrap(o + 1) + r + x + i - 1)
      /\ Place(o, w, l, i) = Wrap(o + q + y + i - 1)
  BY DEF Place
<1> DEFINE a == o + 1
           b == r + x + i - 1
<1>3. a \in Int /\ b \in Int /\ a + b = o + q + y + i - 1
  OBVIOUS
<1>4. Wrap(a) \in 0..(PipeSize - 1) /\ Wrap(Wrap(a) + b) = Wrap(a + b)
  <2> HIDE DEF a, b
  <2>1. a \in Int /\ b \in Int
    BY <1>3
  <2> QED BY <2>1, WrapIs, ZenonT(40)
<1>5. PipeSize \in Nat
  BY Sizes
<1>6. Wrap(a) \in Int
  <2> HIDE DEF a, b
  <2> QED BY <1>4, <1>5
<1> DEFINE W == Wrap(a)
<1>7. W + b = W + r + x + i - 1
  <2> HIDE DEF W
  <2>1. W \in Int
    BY <1>6 DEF W
  <2> QED BY <2>1
<1> QED BY <1>2, <1>3, <1>4, <1>7

\* The first unit of the next event is taken: that event no longer waits.
LEMMA WaitTake ==
  ASSUME NEW buf, NEW o \in Nat, NEW w \in Nat, w # 0, w % EvtSize = 0, WholeIn(buf, o, w)
  PROVE  /\ WaitOf(buf, o, w) # << >>
         /\ \E e \in Event : /\ Head(WaitOf(buf, o, w)) = e
                             /\ \A i \in 1..EvtSize : buf[Wrap(o + i - 1)] = UnitOf(e, i)
         /\ WaitOf(buf, Wrap(o + 1), w - 1) = Tail(WaitOf(buf, o, w))
         /\ (w - 1) % EvtSize = EvtSize - 1
         /\ WholeIn(buf, Wrap(o + 1), w - 1)
<1> DEFINE n == w \div EvtSize
           v == w - 1
           m == n - 1
           G(k) == EventOf([i \in 1..EvtSize |-> buf[Place(o, w, k, i)]])
           g == [k \in 1..m |-> G(k + 1)]
           f == [k \in 1..n |-> G(k)]
<1>0. EvtSize \in Nat \ {0}
  BY Sizes
<1>1. n \in Nat /\ w = n * EvtSize
  <2>1. n \in Nat /\ w = n * EvtSize + (w % EvtSize)
    BY Parts
  <2> HIDE DEF n
  <2>2. n * EvtSize \in Int
    BY <2>1, <1>0
  <2> DEFINE x == n * EvtSize
  <2>3. w = x + 0 /\ x \in Int
    BY <2>1, <2>2
  <2> HIDE DEF x
  <2>4. w = x
    BY <2>3
  <2> QED BY <2>1, <2>4 DEF x
<1>2. n \in Nat \ {0} /\ m \in Nat
  <2> HIDE DEF n
  <2>1. n # 0
    BY <1>0, <1>1
  <2> QED BY <1>1, <2>1
<1>3. v \div EvtSize = m /\ v % EvtSize = EvtSize - 1 /\ v \in Nat
  <2> DEFINE r == EvtSize - 1
  <2>1. v = m * EvtSize + r /\ v \in Nat /\ r \in 0..(EvtSize - 1)
    <3> HIDE DEF n
    <3>1. m * EvtSize = n * EvtSize - EvtSize
      BY <1>0, <1>1
    <3> DEFINE x == m * EvtSize
               y == n * EvtSize
    <3>2. x = y - EvtSize /\ w = y
      BY <1>1, <3>1
    <3> HIDE DEF x, y
    <3>3. v = x + r /\ v \in Nat /\ r \in 0..(EvtSize - 1)
      BY <3>2, <1>0
    <3> QED BY <3>3 DEF x
  <2> HIDE DEF m, v, r
  <2>2. v \div EvtSize = m /\ v % EvtSize = r
    BY <1>2, <2>1, PartsIs
  <2> QED BY <2>1, <2>2 DEF r
<1>p. ASSUME NEW vv \in Nat, NEW k, NEW l, NEW i \in Int, NEW x \in Int, NEW y \in Int,
             x = (k - 1) * EvtSize, y = (l - 1) * EvtSize,
         NEW r \in Int, NEW q \in Int, r = vv % EvtSize, q = w % EvtSize, 1 + r + x = q + y
      PROVE  Place(Wrap(o + 1), vv, k, i) = Place(o, w, l, i)
  BY <1>p, PlaceNext
<1>t. ASSUME NEW k \in 1..m, NEW i \in 1..EvtSize, NEW l \in Nat, l = k + 1
      PROVE  Place(Wrap(o + 1), v, k, i) = Place(o, w, l, i)
  <2>1. k \in Nat \ {0} /\ l \in Nat \ {0} /\ i \in Int
    BY <1>0, <1>2, <1>t
  <2> DEFINE x == (k - 1) * EvtSize
             y == (l - 1) * EvtSize
  <2>2. (l - 1) * EvtSize = (k - 1) * EvtSize + EvtSize
    BY <1>0, <2>1, <1>t
  <2>3. y = x + EvtSize /\ x \in Int
    BY <2>2, <1>0, <2>1
  <2>4. v \in Nat /\ w \in Nat
    BY <1>3
  <2>5. x = (k - 1) * EvtSize /\ y = (l - 1) * EvtSize
    OBVIOUS
  <2> DEFINE r == EvtSize - 1
             q == 0
  <2> HIDE DEF v, m, n, x, y
  <2>6. 1 + r + x = q + y /\ y \in Int /\ r \in Int /\ q \in Int
    BY <2>3, <1>0
  <2>7. r = v % EvtSize /\ q = w % EvtSize
    BY <1>3
  <2> HIDE DEF r, q
  <2> QED BY <2>1, <2>3, <2>4, <2>5, <2>6, <2>7, <1>p
<1>4. \A k \in 1..m : \A i \in 1..EvtSize : Place(Wrap(o + 1), v, k, i) = Place(o, w, k + 1, i)
  <2> SUFFICES ASSUME NEW k \in 1..m, NEW i \in 1..EvtSize
               PROVE  Place(Wrap(o + 1), v, k, i) = Place(o, w, k + 1, i)
    OBVIOUS
  <2>1. k + 1 \in Nat
    <3> HIDE DEF n
    <3> QED BY <1>2
  <2> QED BY <2>1, <1>t, Zenon
<1>5. \A k \in 1..n : \E e \in Event : \A i \in 1..EvtSize : buf[Place(o, w, k, i)] = UnitOf(e, i)
  BY DEF WholeIn
<1>6. WaitOf(buf, o, w) = f
  BY DEF WaitOf
<1>7. WaitOf(buf, Wrap(o + 1), v) = g
  <2> HIDE DEF v
  <2>1. WaitOf(buf, Wrap(o + 1), v) =
          [k \in 1..m |-> EventOf([i \in 1..EvtSize |-> buf[Place(Wrap(o + 1), v, k, i)]])]
    BY <1>3 DEF WaitOf
  <2>2. ASSUME NEW k \in 1..m
        PROVE  EventOf([i \in 1..EvtSize |-> buf[Place(Wrap(o + 1), v, k, i)]]) = G(k + 1)
    <3>1. [i \in 1..EvtSize |-> buf[Place(Wrap(o + 1), v, k, i)]] =
          [i \in 1..EvtSize |-> buf[Place(o, w, k + 1, i)]]
      <4> HIDE DEF m
      <4> QED BY <1>4, Zenon
    <3> QED BY <3>1
  <2> HIDE DEF G, m
  <2> QED BY <2>1, <2>2, Zenon
<1>8. WholeIn(buf, Wrap(o + 1), v)
  <2> SUFFICES ASSUME NEW k \in 1..m
               PROVE  \E e \in Event : \A i \in 1..EvtSize :
                        buf[Place(Wrap(o + 1), v, k, i)] = UnitOf(e, i)
    BY <1>3 DEF WholeIn
  <2> DEFINE l == k + 1
  <2>1. l \in 1..n
    <3> HIDE DEF n
    <3> QED BY <1>2
  <2>2. \A i \in 1..EvtSize : Place(Wrap(o + 1), v, k, i) = Place(o, w, l, i)
    BY <1>4
  <2> HIDE DEF l, n, v
  <2> QED BY <1>5, <2>1, <2>2
<1>9. f # << >> /\ Head(f) = f[1] /\ Tail(f) = g
  <2> DEFINE S == {G(k) : k \in 1..n}
  <2>1. f \in [1..n -> S] /\ g \in [1..m -> S] /\ \A k \in 1..m : g[k] = f[k + 1]
    <3> HIDE DEF G
    <3>1. \A k \in 1..m : k + 1 \in 1..n
      <4> HIDE DEF n
      <4> QED BY <1>2
    <3> QED BY <3>1
  <2> HIDE DEF f, g, S, n
  <2> QED BY <1>2, <2>1, TailIs DEF m
<1>10. \E e \in Event : f[1] = e /\ \A i \in 1..EvtSize : buf[Wrap(o + i - 1)] = UnitOf(e, i)
  <2>1. 1 \in 1..n
    <3> HIDE DEF n
    <3> QED BY <1>2
  <2>2. PICK e \in Event : \A i \in 1..EvtSize : buf[Place(o, w, 1, i)] = UnitOf(e, i)
    BY <1>5, <2>1
  <2>3. \A i \in 1..EvtSize : Place(o, w, 1, i) = Wrap(o + i - 1)
    <3> SUFFICES ASSUME NEW i \in 1..EvtSize PROVE Place(o, w, 1, i) = Wrap(o + i - 1)
      OBVIOUS
    <3>1. Place(o, w, 1, i) = Wrap(o + 0 + (1 - 1) * EvtSize + i - 1)
      BY Zenon DEF Place
    <3>2. o + 0 + (1 - 1) * EvtSize + i - 1 = o + i - 1
      BY <1>0
    <3> QED BY <3>1, <3>2
  <2>4. f[1] = G(1)
    BY <2>1
  <2>5. G(1) = e
    <3> DEFINE h == [i \in 1..EvtSize |-> buf[Place(o, w, 1, i)]]
    <3>1. DOMAIN h = 1..EvtSize /\ \A i \in 1..EvtSize : h[i] = UnitOf(e, i)
      BY <2>2
    <3> HIDE DEF h
    <3>2. EventOf(h) = e
      BY <1>0, <3>1, EventIs
    <3> QED BY <3>2 DEF h
  <2> QED BY <2>2, <2>3, <2>4, <2>5
<1> HIDE DEF f, g
<1> QED BY <1>3, <1>6, <1>7, <1>8, <1>9, <1>10

\* A further unit of the event that is being read is taken.
LEMMA WaitDrop ==
  ASSUME NEW buf, NEW o \in Nat, NEW w \in Nat, w % EvtSize > 0
  PROVE  /\ w # 0
         /\ WaitOf(buf, Wrap(o + 1), w - 1) = WaitOf(buf, o, w)
         /\ (w - 1) % EvtSize = (w % EvtSize) - 1
         /\ WholeIn(buf, o, w) => WholeIn(buf, Wrap(o + 1), w - 1)
<1> DEFINE n == w \div EvtSize
           r == w % EvtSize
           q == r - 1
           v == w - 1
<1>0. EvtSize \in Nat \ {0}
  BY Sizes
<1>1. n \in Nat /\ r \in 0..(EvtSize - 1) /\ w = n * EvtSize + r /\ r > 0
  BY Parts
<1> HIDE DEF n, r
<1>2. v \in Nat /\ q \in 0..(EvtSize - 1) /\ v = n * EvtSize + q
  <2> DEFINE x == n * EvtSize
  <2>1. x \in Nat /\ w = x + r
    BY <1>0, <1>1
  <2> HIDE DEF x
  <2>2. v \in Nat /\ q \in 0..(EvtSize - 1) /\ v = x + q
    BY <2>1, <1>0, <1>1
  <2> QED BY <2>2 DEF x
<1>3. v \div EvtSize = n /\ v % EvtSize = q
  <2> HIDE DEF v, q
  <2> QED BY <1>1, <1>2, PartsIs
<1>4. \A k \in 1..n : \A i \in 1..EvtSize : Place(Wrap(o + 1), v, k, i) = Place(o, w, k, i)
  <2> SUFFICES ASSUME NEW k \in 1..n, NEW i \in 1..EvtSize
               PROVE  Place(Wrap(o + 1), v, k, i) = Place(o, w, k, i)
    OBVIOUS
  <2>1. k \in Nat \ {0} /\ i \in Int
    BY <1>0, <1>1
  <2> DEFINE x == (k - 1) * EvtSize
  <2>2. 1 + q + x = r + x
    <3>1. x \in Int
      BY <2>1, <1>0
    <3> HIDE DEF x
    <3> QED BY <3>1, <1>1
  <2>4. x = (k - 1) * EvtSize /\ x \in Int
    BY <2>1, <1>0
  <2>3. v \in Nat /\ q \in Int /\ r \in Int
    BY <1>1, <1>2
  <2>5. r = w % EvtSize
    BY DEF r
  <2> HIDE DEF x, v, q
  <2> QED BY <1>3, <2>1, <2>2, <2>3, <2>4, <2>5, PlaceNext
<1> HIDE DEF v, q
<1>5. WaitOf(buf, Wrap(o + 1), v) = WaitOf(buf, o, w)
  BY <1>3, <1>4 DEF WaitOf, n
<1>6. WholeIn(buf, o, w) => WholeIn(buf, Wrap(o + 1), v)
  BY <1>3, <1>4 DEF WholeIn, n
<1>7. w # 0
  BY <1>2 DEF v
<1> QED BY <1>3, <1>5, <1>6, <1>7 DEF v, q, r

\* Nothing waits in an empty pipe.
LEMMA WaitNone ==
  ASSUME NEW buf, NEW o
  PROVE  /\ WaitOf(buf, o, 0) = << >>
         /\ WholeIn(buf, o, 0)
         /\ 0 % EvtSize = 0
<1>0. EvtSize \in Nat \ {0}
  BY Sizes
<1> DEFINE z == 0
<1>1. z \in Nat /\ z \in 0..(EvtSize - 1) /\ z = z * EvtSize + z
  BY <1>0
<1> HIDE DEF z
<1>2. z \div EvtSize = z /\ z % EvtSize = z
  BY <1>1, PartsIs
<1>3. 1..(0 \div EvtSize) = {} /\ 0 % EvtSize = 0
  BY <1>2 DEF z
<1> QED BY <1>3 DEF WaitOf, WholeIn

\* The units between two indices.
LEMMA SpanIs ==
  ASSUME NEW o \in 0..(PipeSize - 1), NEW i \in 0..(PipeSize - 1)
  PROVE  /\ Wrap(i - o) \in 0..(PipeSize - 1)
         /\ i = Wrap(o + Wrap(i - o))
<1>0. PipeSize \in Nat \ {0}
  BY Sizes
<1> DEFINE a == i - o
<1>1. a \in Int /\ o \in Int /\ i \in Int /\ o + a = i
  BY <1>0
<1> HIDE DEF a
<1>2. Wrap(a) \in 0..(PipeSize - 1) /\ Wrap(Wrap(a) + o) = Wrap(a + o)
  BY <1>1, WrapIs
<1> DEFINE w == Wrap(a)
<1>3. w \in Int /\ w = Wrap(a)
  BY <1>0, <1>2
<1> HIDE DEF w
<1>4. w + o = o + w /\ a + o = i
  BY <1>1, <1>3
<1>5. Wrap(i) = i
  BY <1>1, WrapIs
<1> QED BY <1>2, <1>3, <1>4, <1>5 DEF a

LEMMA SpanOf ==
  ASSUME NEW o \in Int, NEW p \in 0..(PipeSize - 1)
  PROVE  Wrap(Wrap(o + p) - o) = p
<1>0. PipeSize \in Nat \ {0}
  BY Sizes
<1> DEFINE a == o + p
           b == -o
<1>1. a \in Int /\ b \in Int /\ a + b = p /\ p \in Int
  BY <1>0
<1> HIDE DEF a, b
<1>2. Wrap(a) \in 0..(PipeSize - 1) /\ Wrap(Wrap(a) + b) = Wrap(a + b) /\ Wrap(p) = p
  BY <1>1, WrapIs
<1> DEFINE w == Wrap(a)
<1>3. w \in Int /\ w = Wrap(a)
  BY <1>0, <1>2
<1> HIDE DEF w
<1>4. w + b = w - o
  BY <1>3 DEF b
<1> QED BY <1>1, <1>2, <1>3, <1>4 DEF a

LEMMA PlacesApart ==
  ASSUME NEW o \in Int, NEW j \in 0..(PipeSize - 1), NEW k \in 0..(PipeSize - 1), j # k
  PROVE  Wrap(o + j) # Wrap(o + k)
<1>1. Wrap(Wrap(o + j) - o) = j /\ Wrap(Wrap(o + k) - o) = k
  BY SpanOf
<1> QED BY <1>1

\* One unit behind the last: where an overrun would show.
LEMMA SpanMore ==
  ASSUME NEW o \in 0..(PipeSize - 1), NEW p \in 0..(PipeSize - 1), NEW i, i = Wrap(o + p),
         Wrap(i + 1) # o
  PROVE  p + 1 \in 0..(PipeSize - 1) /\ Wrap(i + 1) = Wrap(o + (p + 1))
<1>0. PipeSize \in Nat \ {0} /\ o \in Int
  BY Sizes
<1> DEFINE a == o + p
           one == 1
<1>1. a \in Int /\ one \in Int /\ a + one = o + (p + 1)
  BY <1>0
<1> HIDE DEF a, one
<1>2. Wrap(Wrap(a) + one) = Wrap(a + one)
  BY <1>1, WrapIs
<1>3. Wrap(i + 1) = Wrap(o + (p + 1))
  BY <1>1, <1>2 DEF a, one
<1>4. p # PipeSize - 1
  <2> SUFFICES ASSUME p = PipeSize - 1 PROVE FALSE
    OBVIOUS
  <2>1. o + (p + 1) = o + PipeSize
    BY <1>0
  <2>2. Wrap(o + PipeSize) = Wrap(o) /\ Wrap(o) = o
    BY <1>0, WrapIs
  <2> QED BY <1>3, <2>1, <2>2
<1> QED BY <1>0, <1>3, <1>4

\* One unit less in front.
LEMMA SpanLess ==
  ASSUME NEW o \in 0..(PipeSize - 1), NEW p \in 1..(PipeSize - 1)
  PROVE  /\ Wrap(o + 1) \in 0..(PipeSize - 1)
         /\ \A j \in Int : Wrap(Wrap(o + 1) + j) = Wrap(o + 1 + j)
         /\ Wrap(Wrap(o + p) - Wrap(o + 1)) = p - 1
<1>0. PipeSize \in Nat \ {0} /\ o \in Int
  BY Sizes
<1> DEFINE a == o + 1
           q == p - 1
<1>1. a \in Int /\ q \in 0..(PipeSize - 1) /\ q \in Int /\ a + q = o + p
  BY <1>0
<1> HIDE DEF a, q
<1>2. Wrap(a) \in 0..(PipeSize - 1) /\ \A j \in Int : Wrap(Wrap(a) + j) = Wrap(a + j)
  BY <1>1, WrapIs
<1>3. Wrap(a) \in Int /\ Wrap(Wrap(a) + q) = Wrap(o + p)
  BY <1>0, <1>1, <1>2
<1> DEFINE w == Wrap(a)
<1>4. w \in Int /\ Wrap(w + q) = Wrap(o + p)
  BY <1>3
<1> HIDE DEF w
<1>5. Wrap(Wrap(w + q) - w) = q
  BY <1>1, <1>4, SpanOf
<1> QED BY <1>2, <1>4, <1>5 DEF a, q, w

\* A whole event behind the last unit, as evt_send copies it in an interrupt.
LEMMA SpanEvent ==
  ASSUME NEW o \in 0..(PipeSize - 1), NEW p \in 0..(PipeSize - 1), NEW i, i = Wrap(o + p),
         p + EvtSize < PipeSize
  PROVE  /\ Wrap(Wrap(i + EvtSize) - o) = p + EvtSize
         /\ \A j \in 0..(p - 1) : ~(Wrap(Wrap(o + j) - i) < EvtSize)
         /\ \A k \in 1..EvtSize : Wrap(Wrap(o + p + k - 1) - i) = k - 1
<1>0. PipeSize \in Nat \ {0} /\ EvtSize \in Nat \ {0} /\ o \in Int
  BY Sizes
<1> DEFINE a == o + p
<1>1. a \in Int /\ i = Wrap(a)
  BY <1>0
<1>2. \A b \in Int : Wrap(b - i) = Wrap(b - a) /\ Wrap(i + b) = Wrap(a + b)
  <2> HIDE DEF a
  <2> TAKE b \in Int
  <2>1. Wrap(Wrap(a) + b) = Wrap(a + b) /\ Wrap(b - Wrap(a)) = Wrap(b - a)
    <3>1. a \in Int
      BY <1>1
    <3> QED BY <3>1, WrapIs, Zenon
  <2> QED BY <1>1, <2>1, Zenon
<1>3. Wrap(Wrap(i + EvtSize) - o) = p + EvtSize
  <2> DEFINE q == p + EvtSize
  <2>1. q \in 0..(PipeSize - 1) /\ a + EvtSize = o + q
    BY <1>0
  <2>2. Wrap(i + EvtSize) = Wrap(a + EvtSize)
    <3> HIDE DEF a
    <3> QED BY <1>0, <1>2
  <2> HIDE DEF q
  <2>3. Wrap(Wrap(o + q) - o) = q
    BY <1>0, <2>1, SpanOf
  <2> QED BY <2>1, <2>2, <2>3 DEF q
<1>4. ASSUME NEW j \in Int PROVE Wrap(Wrap(o + j) - i) = Wrap(j - p)
  <2> DEFINE b == o + j
             c == -a
  <2>1. b \in Int /\ c \in Int /\ b + c = j - p
    BY <1>0
  <2>2. Wrap(b) \in 0..(PipeSize - 1) /\ Wrap(Wrap(b) + c) = Wrap(b + c)
    <3> HIDE DEF b, c
    <3> QED BY <2>1, WrapIs
  <2> DEFINE w == Wrap(b)
  <2>3. w \in Int /\ w = Wrap(b)
    <3> HIDE DEF b
    <3> QED BY <1>0, <2>2
  <2> HIDE DEF w
  <2>4. Wrap(w - i) = Wrap(w - a)
    <3> HIDE DEF a
    <3> QED BY <1>2, <2>3
  <2>5. w - a = w + c
    BY <2>3, <1>1
  <2> HIDE DEF c, a
  <2> QED BY <2>1, <2>2, <2>3, <2>4, <2>5 DEF b
<1>5. ASSUME NEW j \in 0..(p - 1) PROVE ~(Wrap(Wrap(o + j) - i) < EvtSize)
  <2> DEFINE b == j - p
             q == j - p + PipeSize
  <2>1. b \in Int /\ b + PipeSize = q /\ q \in 0..(PipeSize - 1) /\ ~(q < EvtSize) /\ q \in Int
        /\ j \in Int
    BY <1>0
  <2> HIDE DEF b, q
  <2>2. Wrap(b + PipeSize) = Wrap(b) /\ Wrap(q) = q
    BY <2>1, WrapIs
  <2>3. Wrap(Wrap(o + j) - i) = Wrap(b)
    BY <2>1, <1>4 DEF b
  <2> QED BY <2>1, <2>2, <2>3
<1>6. ASSUME NEW k \in 1..EvtSize PROVE Wrap(Wrap(o + p + k - 1) - i) = k - 1
  <2> DEFINE j == p + k - 1
             q == k - 1
  <2>1. j \in Int /\ o + p + k - 1 = o + j /\ j - p = q /\ q \in 0..(PipeSize - 1) /\ q \in Int
    BY <1>0
  <2> HIDE DEF j, q
  <2>2. Wrap(q) = q
    BY <2>1, WrapIs
  <2>3. Wrap(Wrap(o + j) - i) = Wrap(j - p)
    BY <2>1, <1>4
  <2> QED BY <2>1, <2>2, <2>3 DEF q
<1> QED BY <1>3, <1>5, <1>6

(***************************************************************************)
(* What makes a pipe in use a queue.  From nOUT to nIN there are: the rest *)
(* of an event that is being read, whole events, and the first units of    *)
(* one that a thread is writing.  It holds as long as the promise does.    *)
(***************************************************************************)
InPart(u, s) == u \in Sending /\ slot[u] = s /\ done[u] \in 1..(EvtSize - 1)
Reads(u, s)  == pc[u] = "read" /\ handler[u] = s
Live(s)  == used[s] /\ s \notin Purged
Whole(s) == Pending(s) - Partial(s)

\* One thread at most sends; it stores where nIN is, and only where it is asked to.
SendInv ==
  /\ Sending \subseteq Senders
  /\ \A u \in Users : pc[u] = "store" => reg[u] = nIN[slot[u]]
  /\ \A u \in Users : Mid(u) => event[u].class \in mask[slot[u]]

\* A struct is given out with an empty pipe; a purge starts with nOUT at 0.
ResetInv ==
  /\ \A u \in Users : pc[u] = "claim" => /\ nIN[slot[u]] = 0 /\ nOUT[slot[u]] = 0
                                         /\ ~Writing(slot[u])
  /\ \A u \in Users : pc[u] = "purge" => nOUT[handler[u]] = 0

WriteInv(s) ==
  /\ Partial(s) <= Pending(s)
  /\ WholeIn(buffer[s], nOUT[s], Whole(s))
  /\ \A u \in Users : InPart(u, s) =>
       \A i \in 1..done[u] : buffer[s][Wrap(nOUT[s] + Whole(s) + i - 1)] = UnitOf(event[u], i)

\* What has been read of an event, and what of it is still in the pipe.
RestAt(buf, o, w, seq) ==
  LET n == Len(seq)
  IN  \/ n \in {0, EvtSize} /\ (w % EvtSize) = 0
      \/ /\ n \in 1..(EvtSize - 1) /\ (w % EvtSize) = EvtSize - n
         /\ \E e \in Event : /\ \A i \in 1..n : seq[i] = UnitOf(e, i)
                             /\ \A i \in 1..(EvtSize - n) : buf[Wrap(o + i - 1)] = UnitOf(e, n + i)

Resting(u, s) == RestAt(buffer[s], nOUT[s], Whole(s), out[u])

ReadInv(s) ==
  /\ (\A u \in Users : ~Reads(u, s)) => (Whole(s) % EvtSize) = 0
  /\ \A u \in Users : Reads(u, s) => Resting(u, s)

QInv == /\ SendInv /\ ResetInv
        /\ \A s \in Slots : Live(s) => WriteInv(s) /\ ReadInv(s)

Safe == TInv /\ HInv
AbstractStep == Queue!Step \/ UNCHANGED Queue!aVars

PartOf(S, sl, dn, s) == IF \E u \in S : sl[u] = s /\ dn[u] < EvtSize
                        THEN dn[CHOOSE u \in S : sl[u] = s] ELSE 0

LEMMA PartOfIs ==
  ASSUME NEW S, \A u, v \in S : u = v, NEW sl, NEW dn, \A u \in S : dn[u] \in 0..EvtSize, NEW s
  PROVE  /\ \A u \in S : sl[u] = s /\ dn[u] \in 1..(EvtSize - 1) => PartOf(S, sl, dn, s) = dn[u]
         /\ (\A u \in S : ~(sl[u] = s /\ dn[u] \in 1..(EvtSize - 1))) => PartOf(S, sl, dn, s) = 0
<1>0. EvtSize \in Nat \ {0}
  BY Sizes
<1>1. CASE \E u \in S : sl[u] = s /\ dn[u] < EvtSize
  <2>1. PICK u \in S : sl[u] = s /\ dn[u] < EvtSize
    BY <1>1
  <2>2. (CHOOSE v \in S : sl[v] = s) = u
    BY <2>1
  <2>3. PartOf(S, sl, dn, s) = dn[u]
    BY <1>1, <2>2 DEF PartOf
  <2>4. dn[u] \in 1..(EvtSize - 1) \/ dn[u] = 0
    BY <1>0, <2>1
  <2> QED BY <2>1, <2>3, <2>4
<1>2. CASE ~\E u \in S : sl[u] = s /\ dn[u] < EvtSize
  <2>1. PartOf(S, sl, dn, s) = 0
    BY <1>2 DEF PartOf
  <2>2. \A u \in S : ~(sl[u] = s /\ dn[u] \in 1..(EvtSize - 1))
    BY <1>0, <1>2
  <2> QED BY <2>1, <2>2
<1> QED BY <1>1, <1>2

LEMMA PartialNow ==
  ASSUME TInv, Sending \subseteq Senders, NEW s \in Slots
  PROVE  /\ \A u \in Users : InPart(u, s) => Partial(s) = done[u]
         /\ (\A u \in Users : ~InPart(u, s)) => Partial(s) = 0
         /\ Partial(s) \in 0..(EvtSize - 1)
<1>0. EvtSize \in Nat \ {0}
  BY Sizes
<1>1. \A u, v \in Sending : u = v
  BY EvtAssumption
<1>2. \A u \in Sending : u \in Users /\ done[u] \in 0..EvtSize
  BY DEF TInv, TypeOK, Sending
<1>3. Partial(s) = PartOf(Sending, slot, done, s)
  BY DEF Partial, PartOf
<1>4. /\ \A u \in Sending : slot[u] = s /\ done[u] \in 1..(EvtSize - 1) =>
                              PartOf(Sending, slot, done, s) = done[u]
      /\ (\A u \in Sending : ~(slot[u] = s /\ done[u] \in 1..(EvtSize - 1))) =>
            PartOf(Sending, slot, done, s) = 0
  BY <1>1, <1>2, PartOfIs
<1>5. \A u \in Users : InPart(u, s) => Partial(s) = done[u]
  BY <1>3, <1>4 DEF InPart
<1>6. (\A u \in Users : ~InPart(u, s)) => Partial(s) = 0
  BY <1>2, <1>3, <1>4 DEF InPart
<1>7. Partial(s) \in 0..(EvtSize - 1)
  <2>1. CASE \A u \in Users : ~InPart(u, s)
    BY <1>0, <1>6, <2>1
  <2>2. CASE \E u \in Users : InPart(u, s)
    <3>1. PICK u \in Users : InPart(u, s)
      BY <2>2
    <3> QED BY <1>0, <1>5, <3>1 DEF InPart
  <2> QED BY <2>1, <2>2
<1> QED BY <1>5, <1>6, <1>7

LEMMA PartialNext ==
  ASSUME TInv', (Sending \subseteq Senders)', NEW s \in Slots
  PROVE  /\ \A u \in Users : InPart(u, s)' => Partial(s)' = done'[u]
         /\ (\A u \in Users : ~InPart(u, s)') => Partial(s)' = 0
<1>1. \A u, v \in Sending' : u = v
  BY EvtAssumption
<1>2. \A u \in Sending' : u \in Users /\ done'[u] \in 0..EvtSize
  BY DEF TInv, TypeOK, Sending
<1>3. Partial(s)' = PartOf(Sending', slot', done', s)
  BY DEF Partial, PartOf
<1>4. /\ \A u \in Sending' : slot'[u] = s /\ done'[u] \in 1..(EvtSize - 1) =>
                              PartOf(Sending', slot', done', s) = done'[u]
      /\ (\A u \in Sending' : ~(slot'[u] = s /\ done'[u] \in 1..(EvtSize - 1))) =>
            PartOf(Sending', slot', done', s) = 0
  BY <1>1, <1>2, PartOfIs
<1>5. \A u \in Users : InPart(u, s)' => Partial(s)' = done'[u]
  BY <1>3, <1>4 DEF InPart
<1>6. (\A u \in Users : ~InPart(u, s)') => Partial(s)' = 0
  BY <1>2, <1>3, <1>4 DEF InPart
<1> QED BY <1>5, <1>6

\* What waits in a pipe between nOUT and nIN.
LEMMA WholeIs ==
  ASSUME TInv, Sending \subseteq Senders, NEW s \in Slots, Partial(s) <= Pending(s)
  PROVE  /\ nIN[s] \in 0..(PipeSize - 1) /\ nOUT[s] \in 0..(PipeSize - 1)
         /\ Pending(s) \in 0..(PipeSize - 1) /\ nIN[s] = Wrap(nOUT[s] + Pending(s))
         /\ Whole(s) \in 0..(PipeSize - 1) /\ Pending(s) = Whole(s) + Partial(s)
         /\ Waiting(s) = WaitOf(buffer[s], nOUT[s], Whole(s))
<1>0. PipeSize \in Nat \ {0} /\ EvtSize \in Nat \ {0}
  BY Sizes
<1>1. nIN[s] \in 0..(PipeSize - 1) /\ nOUT[s] \in 0..(PipeSize - 1)
  BY DEF TInv, TypeOK
<1>2. Pending(s) \in 0..(PipeSize - 1) /\ nIN[s] = Wrap(nOUT[s] + Pending(s))
  BY <1>1, SpanIs DEF Pending
<1>3. Partial(s) \in 0..(EvtSize - 1)
  BY PartialNow
<1>4. Whole(s) \in 0..(PipeSize - 1) /\ Pending(s) = Whole(s) + Partial(s)
  BY <1>0, <1>2, <1>3 DEF Whole
<1>5. Wrap(Whole(s)) = Whole(s)
  <2>1. Whole(s) \in Int
    BY <1>0, <1>4
  <2> QED BY <1>4, <2>1, WrapIs
<1>6. Waiting(s) = WaitOf(buffer[s], nOUT[s], Wrap(Whole(s)))
  BY WaitIs DEF Whole
<1> QED BY <1>1, <1>2, <1>4, <1>5, <1>6

LEMMA WaitNext ==
  ASSUME NEW s \in Slots, NEW w \in 0..(PipeSize - 1), Pending(s)' - Partial(s)' = w
  PROVE  Waiting(s)' = WaitOf(buffer'[s], nOUT'[s], w) /\ Whole(s)' = w
<1>1. Whole(s)' = w
  BY DEF Whole
<1>2. w \in Int /\ Wrap(w) = w
  <2>1. w \in Int
    BY Sizes
  <2> QED BY <2>1, WrapIs
<1>3. Waiting(s)' = WaitOf(buffer'[s], nOUT'[s], Wrap(Pending(s)' - Partial(s)'))
  BY DEF Waiting, WaitOf, Place, Wrap
<1> QED BY <1>1, <1>2, <1>3

\* A step that leaves a pipe and what is being written to it alone.
PipeFrame(s) ==
  /\ nIN'[s] = nIN[s] /\ nOUT'[s] = nOUT[s] /\ buffer'[s] = buffer[s]
  /\ \A u \in Users : /\ InPart(u, s)' <=> InPart(u, s)
                      /\ InPart(u, s) => done'[u] = done[u] /\ event'[u] = event[u]

LEMMA WriteSame ==
  ASSUME TInv, TInv', Sending \subseteq Senders, (Sending \subseteq Senders)',
         NEW s \in Slots, PipeFrame(s), WriteInv(s)
  PROVE  Whole(s)' = Whole(s) /\ Waiting(s)' = Waiting(s) /\ WriteInv(s)'
<1>1. Partial(s)' = Partial(s)
  <2>1. CASE \A u \in Users : ~InPart(u, s)
    <3>1. \A u \in Users : ~InPart(u, s)'
      BY <2>1 DEF PipeFrame
    <3> QED BY <2>1, <3>1, PartialNow, PartialNext
  <2>2. CASE \E u \in Users : InPart(u, s)
    <3>1. PICK u \in Users : InPart(u, s)
      BY <2>2
    <3>2. InPart(u, s)' /\ done'[u] = done[u]
      BY <3>1 DEF PipeFrame
    <3> QED BY <3>1, <3>2, PartialNow, PartialNext
  <2> QED BY <2>1, <2>2
<1>2. Pending(s)' = Pending(s)
  BY DEF Pending, PipeFrame, Wrap
<1>3. Whole(s)' = Whole(s)
  BY <1>1, <1>2 DEF Whole
<1>4. Partial(s) <= Pending(s)
  BY DEF WriteInv
<1>5. Whole(s) \in 0..(PipeSize - 1) /\ Waiting(s) = WaitOf(buffer[s], nOUT[s], Whole(s))
  BY <1>4, WholeIs
<1>6. Waiting(s)' = WaitOf(buffer'[s], nOUT'[s], Whole(s))
  <2>1. Pending(s)' - Partial(s)' = Whole(s)
    BY <1>1, <1>2 DEF Whole
  <2> QED BY <1>5, <2>1, WaitNext
<1>7. Waiting(s)' = Waiting(s)
  BY <1>5, <1>6 DEF PipeFrame
<1>8. WriteInv(s)'
  <2>1. (Partial(s) <= Pending(s))'
    BY <1>1, <1>2, <1>4
  <2>2. WholeIn(buffer[s], nOUT[s], Whole(s))'
    <3>1. WholeIn(buffer[s], nOUT[s], Whole(s))
      BY DEF WriteInv
    <3>2. WholeIn(buffer'[s], nOUT'[s], Whole(s)')
      BY <1>3, <3>1 DEF PipeFrame
    <3> QED BY <3>2 DEF WholeIn, Place, Wrap
  <2>3. ASSUME NEW u \in Users, InPart(u, s)', NEW i \in 1..done'[u]
        PROVE  buffer'[s][Wrap(nOUT'[s] + Whole(s)' + i - 1)] = UnitOf(event'[u], i)
    <3>1. InPart(u, s) /\ done'[u] = done[u] /\ event'[u] = event[u]
      BY <2>3 DEF PipeFrame
    <3>2. buffer[s][Wrap(nOUT[s] + Whole(s) + i - 1)] = UnitOf(event[u], i)
      BY <2>3, <3>1 DEF WriteInv
    <3> QED BY <1>3, <3>1, <3>2 DEF PipeFrame
  <2> QED BY <2>1, <2>2, <2>3 DEF WriteInv, Wrap, UnitOf
<1> QED BY <1>3, <1>7, <1>8

LEMMA ReadSame ==
  ASSUME NEW s \in Slots, Whole(s)' = Whole(s), ReadInv(s),
         nOUT'[s] = nOUT[s], buffer'[s] = buffer[s],
         \A u \in Users : /\ Reads(u, s)' <=> Reads(u, s)
                          /\ Reads(u, s) => out'[u] = out[u]
  PROVE  ReadInv(s)'
<1>1. (\A u \in Users : ~Reads(u, s)') => (Whole(s)' % EvtSize) = 0
  BY DEF ReadInv
<1>2. ASSUME NEW u \in Users, Reads(u, s)' PROVE Resting(u, s)'
  <2>1. Reads(u, s) /\ out'[u] = out[u] /\ Resting(u, s)
    BY <1>2 DEF ReadInv
  <2> QED BY <2>1 DEF Resting, RestAt, Wrap, UnitOf
<1> QED BY <1>1, <1>2 DEF ReadInv

\* Thread u does a step and is not sending.
ByOther(u) ==
  /\ pc[u] \notin {"send", "store"} /\ pc'[u] \notin {"send", "store"}
  /\ \A v \in Users \ {u} : pc'[v] = pc[v] /\ slot'[v] = slot[v]
  /\ UNCHANGED sending

LEMMA OthersSend ==
  ASSUME TInv, NEW u \in Users, ByOther(u)
  PROVE  /\ Sending' = Sending /\ Posting' = Posting /\ Left' = Left
         /\ \A v \in Users : /\ Mid(v)' <=> Mid(v)
                             /\ Mid(v) => v # u
                             /\ \A s \in Slots : InPart(v, s)' <=> InPart(v, s)
         /\ \A s \in Slots : Writing(s)' <=> Writing(s)
<1>1. UNCHANGED <<event, reg, done>>
  BY DEF ByOther, sending
<1>2. \A v \in Users : v \in Sending' <=> v \in Sending
  BY DEF ByOther, Sending
<1>3. Sending' = Sending /\ u \notin Sending
  BY <1>2 DEF Sending, ByOther
<1>4. \A v \in Sending : v \in Users \ {u} /\ slot'[v] = slot[v] /\ pc'[v] = pc[v]
  BY <1>3 DEF ByOther, Sending
<1>5. Posting' = Posting
  BY <1>1, <1>3 DEF Posting, Sent
<1>6. Left' = Left
  <2>1. \A v \in Sending : {s \in Slots : s > slot'[v] \/ (s = slot'[v] /\ done'[v] < EvtSize)}
                         = {s \in Slots : s > slot[v] \/ (s = slot[v] /\ done[v] < EvtSize)}
    BY <1>1, <1>4
  <2> QED BY <1>3, <2>1 DEF Left
<1>7. ASSUME NEW v \in Users
      PROVE  /\ Mid(v)' <=> Mid(v)
             /\ Mid(v) => v # u /\ slot'[v] = slot[v]
             /\ \A s \in Slots : InPart(v, s)' <=> InPart(v, s)
  <2>1. CASE v = u
    BY <1>3, <2>1 DEF Mid, InPart, ByOther
  <2>2. CASE v # u
    <3>1. pc'[v] = pc[v] /\ slot'[v] = slot[v] /\ done'[v] = done[v]
      BY <1>1, <2>2 DEF ByOther
    <3> QED BY <1>3, <2>2, <3>1 DEF Mid, InPart
  <2> QED BY <2>1, <2>2
<1>8. \A s \in Slots : Writing(s)' <=> Writing(s)
  BY <1>7 DEF Writing
<1> QED BY <1>3, <1>5, <1>6, <1>7, <1>8

\* .. nor does it change indices, buffers or the masks somebody is writing by.
LEMMA OthersKeep ==
  ASSUME Safe, SendInv, NEW u \in Users, ByOther(u),
         \A v \in Users : Mid(v) => nIN'[slot[v]] = nIN[slot[v]] /\ mask'[slot[v]] = mask[slot[v]]
  PROVE  SendInv'
<1>0. TInv /\ UNCHANGED <<event, reg, done>>
  BY DEF Safe, ByOther, sending
<1>1. Sending' = Sending
  BY <1>0, OthersSend
<1>2. \A v \in Users : (Mid(v)' <=> Mid(v)) /\ (Mid(v) => v # u)
  BY <1>0, OthersSend
<1>3. ASSUME NEW v \in Users, Mid(v)'
      PROVE  /\ pc'[v] = "store" => reg'[v] = nIN'[slot'[v]]
             /\ event'[v].class \in mask'[slot'[v]]
  <2>1. Mid(v) /\ v # u
    BY <1>2, <1>3
  <2>2. pc'[v] = pc[v] /\ slot'[v] = slot[v]
    BY <2>1 DEF ByOther
  <2>3. (pc[v] = "store" => reg[v] = nIN[slot[v]]) /\ event[v].class \in mask[slot[v]]
    BY <2>1 DEF SendInv
  <2> QED BY <1>0, <2>1, <2>2, <2>3
<1>4. \A v \in Users : pc'[v] = "store" => Mid(v)'
  BY DEF Mid
<1> QED BY <1>1, <1>3, <1>4 DEF SendInv

LEMMA OtherPipe ==
  ASSUME Safe, Safe', SendInv, SendInv', NEW u \in Users, ByOther(u), NEW s \in Slots,
         nIN'[s] = nIN[s], nOUT'[s] = nOUT[s], buffer'[s] = buffer[s], WriteInv(s)
  PROVE  Whole(s)' = Whole(s) /\ Waiting(s)' = Waiting(s) /\ WriteInv(s)'
<1>1. TInv /\ TInv' /\ Sending \subseteq Senders /\ (Sending \subseteq Senders)'
  BY DEF Safe, SendInv
<1>2. \A v \in Users : InPart(v, s)' <=> InPart(v, s)
  BY <1>1, OthersSend
<1>3. PipeFrame(s)
  BY <1>2 DEF PipeFrame, ByOther, sending
<1> QED BY <1>1, <1>3, WriteSame

\* A step of a thread that does not send, on no pipe, registration or purge.
LEMMA QuietQ ==
  ASSUME Safe, Safe', QInv, NEW u \in Users, ByOther(u),
         UNCHANGED <<used, mask, nIN, nOUT, buffer, handler>>,
         pc[u] \notin {"purge", "mask"}, pc'[u] \notin {"purge", "mask", "claim"},
         \A s \in Slots :
           Live(s) /\ ReadInv(s) /\ WriteInv(s) /\ Whole(s)' = Whole(s) => ReadInv(s)'
  PROVE  QInv' /\ UNCHANGED <<Queued, Asked, Purged, Unmasked, Posting, Left>>
<1>0. SendInv /\ ResetInv /\ TInv
  BY DEF QInv, Safe
<1>1. SendInv'
  BY <1>0, OthersKeep
<1>2. /\ Posting' = Posting /\ Left' = Left
      /\ \A s \in Slots : Writing(s)' <=> Writing(s)
  BY <1>0, OthersSend
<1>3. ResetInv'
  <2>1. ASSUME NEW v \in Users, pc'[v] = "claim"
        PROVE  nIN'[slot'[v]] = 0 /\ nOUT'[slot'[v]] = 0 /\ ~Writing(slot[v])'
    <3>1. v # u /\ pc[v] = "claim" /\ slot'[v] = slot[v] /\ slot[v] \in Slots
      BY <1>0, <2>1 DEF ByOther, TInv, PlaceOK
    <3> QED BY <1>0, <1>2, <3>1 DEF ResetInv
  <2>2. ASSUME NEW v \in Users, pc'[v] = "purge" PROVE nOUT'[handler'[v]] = 0
    <3>1. v # u /\ pc[v] = "purge"
      BY <2>2 DEF ByOther
    <3> QED BY <1>0, <3>1 DEF ResetInv
  <2> QED BY <2>1, <2>2 DEF ResetInv, Writing, Mid
<1>4. Purged' = Purged /\ Unmasked' = Unmasked
  <2>1. \A v \in Users : (pc'[v] = "purge") <=> (pc[v] = "purge")
    BY DEF ByOther
  <2>2. \A v \in Users : /\ (pc'[v] = "mask") <=> (pc[v] = "mask")
                         /\ pc[v] = "mask" => slot'[v] = slot[v]
    BY DEF ByOther
  <2> QED BY <2>1, <2>2 DEF Purged, Unmasked
<1>5. \A s \in Slots : Live(s)' <=> Live(s)
  BY <1>4 DEF Live
<1>6. ASSUME NEW s \in Slots, Live(s)
      PROVE  Waiting(s)' = Waiting(s) /\ WriteInv(s)' /\ ReadInv(s)'
  <2>1. WriteInv(s) /\ ReadInv(s)
    BY <1>6 DEF QInv
  <2>2. Whole(s)' = Whole(s) /\ Waiting(s)' = Waiting(s) /\ WriteInv(s)'
    BY <1>0, <1>1, <2>1, OtherPipe
  <2> QED BY <1>6, <2>1, <2>2
<1>7. QInv'
  BY <1>1, <1>3, <1>5, <1>6 DEF QInv
<1>8. Queued' = Queued
  BY <1>4, <1>6 DEF Queued, Live
<1>9. Asked' = Asked
  BY <1>4 DEF Asked
<1> QED BY <1>2, <1>4, <1>7, <1>8, <1>9

LEMMA FindFreeQ ==
  ASSUME Safe, Safe', QInv, NEW u \in Users, NEW m \in Masks, FindFree(u, m)
  PROVE  QInv' /\ UNCHANGED Queue!aVars
<1>1. pc[u] = "idle" /\ pc' = [pc EXCEPT ![u] = "reset"]
  BY DEF FindFree, At
<1>2. PICK f \in Free : slot' = [slot EXCEPT ![u] = f]
  BY DEF FindFree
<1>3. UNCHANGED <<used, mask, nIN, nOUT, buffer, handler, out>> /\ UNCHANGED sending
  BY DEF FindFree, pipes
<1>4. pc'[u] = "reset" /\ \A v \in Users \ {u} : pc'[v] = pc[v] /\ slot'[v] = slot[v]
  BY <1>1, <1>2 DEF Safe, TInv, TypeOK
<1>5. ByOther(u)
  BY <1>1, <1>3, <1>4 DEF ByOther
<1>6. ASSUME NEW s \in Slots, ReadInv(s), Whole(s)' = Whole(s) PROVE ReadInv(s)'
  <2>1. \A v \in Users : Reads(v, s)' <=> Reads(v, s)
    BY <1>1, <1>3, <1>4 DEF Reads
  <2> QED BY <1>3, <1>6, <2>1, ReadSame
<1>7. QInv' /\ UNCHANGED <<Queued, Asked, Purged, Unmasked, Posting, Left>>
  BY <1>1, <1>3, <1>4, <1>5, <1>6, QuietQ
<1>8. Taken' = Taken
  BY <1>3 DEF Taken, EventOf, UnitOf
<1> QED BY <1>7, <1>8 DEF Queue!aVars

LEMMA InPartMid ==
  ASSUME NEW s \in Slots, ~Writing(s)
  PROVE  \A v \in Users : ~InPart(v, s)
BY DEF Writing, Mid, InPart, Sending

LEMMA ResetPipeQ ==
  ASSUME Safe, Safe', QInv, NEW u \in Users, ResetPipe(u), ~broken'
  PROVE  QInv' /\ UNCHANGED Queue!aVars
<1> DEFINE x == slot[u]
<1>0. SendInv /\ ResetInv /\ TInv /\ HInv
  BY DEF QInv, Safe
<1>1. pc[u] = "reset" /\ pc' = [pc EXCEPT ![u] = "claim"] /\ x \in Slots /\ ~used[x]
  BY <1>0 DEF ResetPipe, At, HInv, SlotsSound, TInv, PlaceOK
<1>2. /\ UNCHANGED <<used, mask, buffer, slot, handler, out>> /\ UNCHANGED sending
      /\ nIN'[x] = 0 /\ nOUT'[x] = 0 /\ ~Writing(x)
      /\ \A s \in Slots \ {x} : nIN'[s] = nIN[s] /\ nOUT'[s] = nOUT[s]
  BY <1>0, <1>1 DEF ResetPipe, Break, TInv, TypeOK
<1>3. pc'[u] = "claim" /\ \A v \in Users \ {u} : pc'[v] = pc[v] /\ slot'[v] = slot[v]
  BY <1>0, <1>1, <1>2 DEF TInv, TypeOK
<1>4. ByOther(u)
  BY <1>1, <1>2, <1>3 DEF ByOther
<1>5. /\ Posting' = Posting /\ Left' = Left
      /\ \A s \in Slots : Writing(s)' <=> Writing(s)
  BY <1>0, <1>4, OthersSend
<1>6. SendInv'
  <2>1. \A v \in Users : Mid(v) => slot[v] \in Slots \ {x}
    BY <1>0, <1>2 DEF Writing, Mid, TInv, PlaceOK
  <2> QED BY <1>0, <1>2, <1>4, <2>1, OthersKeep
<1>7. ResetInv'
  <2>1. ASSUME NEW v \in Users, pc'[v] = "claim"
        PROVE  nIN'[slot'[v]] = 0 /\ nOUT'[slot'[v]] = 0 /\ ~Writing(slot[v])'
    <3>1. v = u
      BY <1>0, <1>1, <1>3, <2>1 DEF HInv, SlotsSound, Reg
    <3> QED BY <1>1, <1>2, <1>5, <3>1
  <2>2. ASSUME NEW v \in Users, pc'[v] = "purge" PROVE nOUT'[handler'[v]] = 0
    <3>1. v # u /\ pc[v] = "purge" /\ handler[v] \in Slots
      BY <1>0, <1>3, <2>2 DEF TInv, PlaceOK
    <3>2. used[handler[v]]
      BY <1>0, <3>1, Sizes DEF HInv, SlotsSound
    <3> QED BY <1>0, <1>1, <1>2, <3>1, <3>2 DEF ResetInv
  <2> QED BY <1>2, <2>1, <2>2 DEF ResetInv, Writing, Mid
<1>8. Purged' = Purged /\ Unmasked' = Unmasked
  <2>1. \A v \in Users : (pc'[v] = "purge") <=> (pc[v] = "purge")
    BY <1>1, <1>3
  <2>2. \A v \in Users : (pc'[v] = "mask") <=> (pc[v] = "mask")
    BY <1>1, <1>3
  <2> QED BY <1>2, <2>1, <2>2 DEF Purged, Unmasked
<1>9. ASSUME NEW s \in Slots, Live(s)
      PROVE  Waiting(s)' = Waiting(s) /\ WriteInv(s)' /\ ReadInv(s)'
  <2>1. WriteInv(s) /\ ReadInv(s) /\ s # x
    BY <1>1, <1>9 DEF QInv, Live
  <2>2. Whole(s)' = Whole(s) /\ Waiting(s)' = Waiting(s) /\ WriteInv(s)'
    BY <1>0, <1>2, <1>4, <1>6, <2>1, OtherPipe
  <2>3. \A v \in Users : Reads(v, s)' <=> Reads(v, s)
    BY <1>1, <1>2, <1>3 DEF Reads
  <2> QED BY <1>2, <2>1, <2>2, <2>3, ReadSame
<1>10. QInv'
  BY <1>2, <1>6, <1>7, <1>8, <1>9 DEF QInv, Live
<1>11. Queued' = Queued /\ Asked' = Asked /\ Taken' = Taken
  BY <1>2, <1>8, <1>9 DEF Queued, Asked, Taken, Live, EventOf, UnitOf
<1> QED BY <1>5, <1>8, <1>10, <1>11 DEF Queue!aVars

\* A pipe that was just emptied.
LEMMA FreshPipe ==
  ASSUME Safe', SendInv', NEW s \in Slots, nIN'[s] = 0, nOUT'[s] = 0,
         \A v \in Users : ~InPart(v, s)'
  PROVE  /\ Whole(s)' = 0 /\ Waiting(s)' = << >> /\ WriteInv(s)'
         /\ (\A v \in Users : ~Reads(v, s)') => ReadInv(s)'
<1>1. TInv' /\ (Sending \subseteq Senders)'
  BY DEF Safe, SendInv
<1>2. Partial(s)' = 0
  BY <1>1, PartialNext
<1>3. Pending(s)' = 0
  <2>1. PipeSize \in Nat \ {0} /\ 0 \in Int /\ 0 \in 0..(PipeSize - 1)
    BY Sizes
  <2>2. Wrap(0) = 0
    BY <2>1, WrapIs
  <2> QED BY <2>2 DEF Pending, Wrap
<1>4. Whole(s)' = 0 /\ Waiting(s)' = WaitOf(buffer'[s], nOUT'[s], 0)
  <2>1. 0 \in 0..(PipeSize - 1) /\ Pending(s)' - Partial(s)' = 0
    BY <1>2, <1>3, Sizes
  <2> QED BY <2>1, WaitNext
<1>5. /\ WaitOf(buffer'[s], nOUT'[s], 0) = << >> /\ WholeIn(buffer'[s], nOUT'[s], 0)
      /\ (0 % EvtSize) = 0
  BY WaitNone
<1>6. WriteInv(s)'
  <2>1. WholeIn(buffer[s], nOUT[s], Whole(s))'
    BY <1>4, <1>5 DEF WholeIn, Place, Wrap
  <2> QED BY <1>2, <1>3, <2>1 DEF WriteInv
<1> QED BY <1>4, <1>5, <1>6 DEF ReadInv

LEMMA ClaimQ ==
  ASSUME Safe, Safe', QInv, NEW u \in Users, Claim(u)
  PROVE  QInv' /\ Queue!Step
<1>0. SendInv /\ ResetInv /\ TInv /\ HInv /\ HInv'
  BY DEF QInv, Safe
<1>x. PICK x \in Slots : x = slot[u]
  BY <1>0 DEF Claim, At, TInv, PlaceOK
<1>1. pc[u] = "claim" /\ pc' = [pc EXCEPT ![u] = "mask"] /\ ~used[x]
  BY <1>0, <1>x DEF Claim, At, HInv, SlotsSound, TInv, PlaceOK
<1>2. /\ UNCHANGED <<mask, nIN, nOUT, buffer, slot, handler, out>> /\ UNCHANGED sending
      /\ used'[x] /\ \A s \in Slots \ {x} : used'[s] = used[s]
  BY <1>0, <1>1, <1>x DEF Claim, pipes, TInv, TypeOK
<1>3. pc'[u] = "mask" /\ \A v \in Users \ {u} : pc'[v] = pc[v] /\ slot'[v] = slot[v]
  BY <1>0, <1>1, <1>2 DEF TInv, TypeOK
<1>4. ByOther(u)
  BY <1>1, <1>2, <1>3 DEF ByOther
<1>5. /\ Posting' = Posting /\ Left' = Left
      /\ \A s \in Slots : Writing(s)' <=> Writing(s)
      /\ \A v \in Users, s \in Slots : InPart(v, s)' <=> InPart(v, s)
  BY <1>0, <1>4, OthersSend
<1>6. SendInv'
  BY <1>0, <1>2, <1>4, OthersKeep
<1>7. nIN[x] = 0 /\ nOUT[x] = 0 /\ ~Writing(x)
  BY <1>0, <1>1, <1>x DEF ResetInv
<1>8. \A v \in Users : handler[v] # x
  BY <1>0, <1>1, <1>x, Sizes DEF HInv, SlotsSound
<1>9. ResetInv'
  <2>1. \A v \in Users : pc'[v] # "claim"
    BY <1>0, <1>1, <1>3 DEF HInv, SlotsSound, Reg
  <2>2. ASSUME NEW v \in Users, pc'[v] = "purge" PROVE nOUT'[handler'[v]] = 0
    <3>1. v # u /\ pc[v] = "purge"
      BY <1>3, <2>2
    <3> QED BY <1>0, <1>2, <3>1 DEF ResetInv
  <2> QED BY <2>1, <2>2 DEF ResetInv
<1>10. Purged' = Purged /\ x \notin Purged /\ Unmasked' = Unmasked \cup {x}
  <2>1. \A v \in Users : (pc'[v] = "purge") <=> (pc[v] = "purge")
    BY <1>1, <1>3
  <2>2. \A v \in Users : (pc'[v] = "mask") <=> (pc[v] = "mask" \/ v = u)
    BY <1>3
  <2>3. Purged' = Purged /\ x \notin Purged
    BY <1>2, <1>8, <2>1 DEF Purged
  <2>4. Unmasked' = Unmasked \cup {x}
    BY <1>1, <1>2, <1>x, <2>2 DEF Unmasked
  <2> QED BY <2>3, <2>4
<1>11. ASSUME NEW s \in Slots, Live(s)
       PROVE  Waiting(s)' = Waiting(s) /\ WriteInv(s)' /\ ReadInv(s)'
  <2>1. WriteInv(s) /\ ReadInv(s)
    BY <1>11 DEF QInv
  <2>2. Whole(s)' = Whole(s) /\ Waiting(s)' = Waiting(s) /\ WriteInv(s)'
    BY <1>0, <1>2, <1>4, <1>6, <2>1, OtherPipe
  <2>3. \A v \in Users : Reads(v, s)' <=> Reads(v, s)
    BY <1>1, <1>2, <1>3 DEF Reads
  <2> QED BY <1>2, <2>1, <2>2, <2>3, ReadSame
<1>12. Waiting(x)' = << >> /\ WriteInv(x)' /\ ReadInv(x)'
  <2>1. \A v \in Users : ~InPart(v, x)'
    BY <1>1, <1>5, <1>7, InPartMid
  <2>2. \A v \in Users : ~Reads(v, x)'
    BY <1>2, <1>8 DEF Reads
  <2>3. nIN'[x] = 0 /\ nOUT'[x] = 0
    BY <1>2, <1>7
  <2> QED BY <1>1, <1>6, <2>1, <2>2, <2>3, FreshPipe
<1>13. \A s \in Slots : Live(s)' <=> Live(s) \/ s = x
  BY <1>1, <1>2, <1>10 DEF Live
<1>14. QInv'
  BY <1>6, <1>9, <1>11, <1>12, <1>13 DEF QInv
<1>15. Queued' = Queued /\ Queued[x] = << >>
  <2>1. \A s \in Slots : IF Live(s)' THEN Waiting(s)' = IF Live(s) THEN Waiting(s) ELSE << >>
                                     ELSE ~Live(s)
    BY <1>1, <1>11, <1>12, <1>13 DEF Live
  <2> QED BY <1>1, <2>1 DEF Queued, Live
<1>16. Asked' = Asked /\ Taken' = Taken
  <2>1. \A s \in Slots : used'[s] /\ s \notin Unmasked' <=> used[s] /\ s \notin Unmasked
    BY <1>1, <1>2, <1>10
  <2> QED BY <1>2, <2>1 DEF Asked, Taken, EventOf, UnitOf
<1>17. Queue!Begin(x)
  BY <1>5, <1>10, <1>15, <1>16 DEF Queue!Begin
<1> QED BY <1>1, <1>14, <1>17 DEF Queue!Step

LEMMA SetMaskQ ==
  ASSUME Safe, Safe', QInv, NEW u \in Users, SetMask(u), ~broken'
  PROVE  QInv' /\ Queue!Step
<1>0. SendInv /\ ResetInv /\ TInv /\ HInv
  BY DEF QInv, Safe
<1>x. PICK x \in Slots : x = slot[u]
  BY <1>0 DEF SetMask, At, TInv, PlaceOK
<1>m. PICK m \in SUBSET Classes : m = ask[u]
  BY <1>0 DEF TInv, TypeOK
<1>1. /\ pc[u] = "mask" /\ pc' = [pc EXCEPT ![u] = "idle"]
      /\ \A v \in Users : handler[v] # x
  BY <1>0, <1>x DEF SetMask, At, HInv, SlotsSound, TInv, PlaceOK
<1>2. /\ UNCHANGED <<used, nIN, nOUT, buffer, out>> /\ UNCHANGED sending
      /\ mask' = [mask EXCEPT ![x] = m] /\ ~Writing(x)
      /\ handler'[u] = x
      /\ \A v \in Users \ {u} : handler'[v] = handler[v] /\ slot'[v] = slot[v]
  BY <1>0, <1>1, <1>x, <1>m DEF SetMask, Break, pipes, TInv, TypeOK
<1>3. /\ pc'[u] = "idle"
      /\ \A v \in Users \ {u} : pc'[v] = pc[v] /\ slot'[v] = slot[v] /\ handler'[v] = handler[v]
  BY <1>0, <1>1, <1>2 DEF TInv, TypeOK
<1>4. ByOther(u)
  BY <1>1, <1>2, <1>3 DEF ByOther
<1>5. /\ Posting' = Posting /\ Left' = Left
      /\ \A s \in Slots : Writing(s)' <=> Writing(s)
  BY <1>0, <1>4, OthersSend
<1>6. SendInv'
  <2>1. \A v \in Users : Mid(v) => mask'[slot[v]] = mask[slot[v]]
    BY <1>0, <1>2 DEF Writing, Mid, TInv, TypeOK, PlaceOK
  <2> QED BY <1>0, <1>2, <1>4, <2>1, OthersKeep
<1>7. ResetInv'
  <2>1. ASSUME NEW v \in Users, pc'[v] = "claim"
        PROVE  nIN'[slot'[v]] = 0 /\ nOUT'[slot'[v]] = 0 /\ ~Writing(slot[v])'
    <3>1. v # u /\ pc[v] = "claim"
      BY <1>3, <2>1
    <3> QED BY <1>0, <1>1, <3>1 DEF HInv, SlotsSound, Reg
  <2>2. ASSUME NEW v \in Users, pc'[v] = "purge" PROVE nOUT'[handler'[v]] = 0
    <3>1. v # u /\ pc[v] = "purge"
      BY <1>3, <2>2
    <3> QED BY <1>0, <1>2, <1>3, <3>1 DEF ResetInv
  <2> QED BY <2>1, <2>2 DEF ResetInv, Writing, Mid
<1>8. Purged' = Purged /\ x \notin Purged /\ Unmasked' = Unmasked \ {x}
  <2>1. \A v \in Users : /\ (pc'[v] = "purge") <=> (pc[v] = "purge")
                         /\ pc[v] = "purge" => handler'[v] = handler[v]
    BY <1>1, <1>3
  <2>2. Purged' = Purged /\ x \notin Purged
    BY <1>1, <2>1 DEF Purged
  <2>3. \A v \in Users : pc[v] = "mask" => v = u
    BY <1>0, <1>1 DEF HInv, SlotsSound, Reg
  <2>4. \A v \in Users : pc'[v] # "mask"
    BY <1>3, <2>3
  <2>5. Unmasked = {x} /\ Unmasked' = {}
    BY <1>1, <1>x, <2>3, <2>4 DEF Unmasked
  <2> QED BY <2>2, <2>5
<1>9. ASSUME NEW s \in Slots, Live(s)
      PROVE  Waiting(s)' = Waiting(s) /\ WriteInv(s)' /\ ReadInv(s)'
  <2>1. WriteInv(s) /\ ReadInv(s)
    BY <1>9 DEF QInv
  <2>2. Whole(s)' = Whole(s) /\ Waiting(s)' = Waiting(s) /\ WriteInv(s)'
    BY <1>0, <1>2, <1>4, <1>6, <2>1, OtherPipe
  <2>3. \A v \in Users : Reads(v, s)' <=> Reads(v, s)
    BY <1>1, <1>3 DEF Reads
  <2> QED BY <1>2, <2>1, <2>2, <2>3, ReadSame
<1>10. QInv'
  BY <1>2, <1>6, <1>7, <1>8, <1>9 DEF QInv, Live
<1>11. Queued' = Queued /\ Taken' = Taken
  BY <1>2, <1>8, <1>9 DEF Queued, Taken, Live, EventOf, UnitOf
<1>12. Asked' = [Asked EXCEPT ![x] = m]
  <2>1. used[x]
    BY <1>0, <1>1, <1>x DEF HInv, SlotsSound
  <2>2. mask'[x] = m /\ \A s \in Slots \ {x} : mask'[s] = mask[s]
    BY <1>0, <1>1, <1>2 DEF TInv, TypeOK
  <2>3. x \notin Unmasked' /\ \A s \in Slots \ {x} : s \in Unmasked' <=> s \in Unmasked
    BY <1>8
  <2>4. ASSUME NEW s \in Slots
        PROVE  (IF used'[s] /\ s \notin Unmasked' THEN mask'[s] ELSE {}) =
               IF s = x THEN m ELSE (IF used[s] /\ s \notin Unmasked THEN mask[s] ELSE {})
    BY <1>2, <2>1, <2>2, <2>3
  <2>5. Asked' = [s \in Slots |-> IF s = x THEN m ELSE Asked[s]]
    BY <2>4 DEF Asked
  <2>6. DOMAIN Asked = Slots
    BY DEF Asked
  <2> QED BY <2>5, <2>6
<1>13. m \in SUBSET {e.class : e \in Event}
  <2>1. ASSUME NEW c \in Classes PROVE c \in {e.class : e \in Event}
    <3>1. [nr |-> 1, class |-> c] \in Event
      BY Sizes DEF Event
    <3>2. [nr |-> 1, class |-> c].class = c
      OBVIOUS
    <3> QED BY <3>1, <3>2
  <2> QED BY <1>2, <2>1
<1>14. Queue!Open(x, m)
  <2>1. (Purged \cup Unmasked)' = (Purged \cup Unmasked) \ {x}
    BY <1>8
  <2> QED BY <1>5, <1>11, <1>12, <2>1 DEF Queue!Open
<1> QED BY <1>1, <1>10, <1>13, <1>14 DEF Queue!Step

LEMMA FreeQ ==
  ASSUME Safe, Safe', QInv, NEW u \in Users, evt_freeHandler(u)
  PROVE  QInv' /\ Queue!Step
<1> DEFINE x == handler[u]
<1>0. SendInv /\ ResetInv /\ TInv /\ HInv
  BY DEF QInv, Safe
<1>1. x \in Slots /\ pc[u] = "idle" /\ pc' = [pc EXCEPT ![u] = "idle"]
  BY <1>0 DEF evt_freeHandler, At, TInv, TypeOK
<1>2. /\ UNCHANGED <<mask, nIN, nOUT, buffer, slot, out>> /\ UNCHANGED sending
      /\ ~used'[x] /\ \A s \in Slots \ {x} : used'[s] = used[s]
      /\ handler'[u] = NONE /\ \A v \in Users \ {u} : handler'[v] = handler[v]
  BY <1>0, <1>1 DEF evt_freeHandler, pipes, TInv, TypeOK
<1>3. pc'[u] = "idle" /\ \A v \in Users : pc'[v] = pc[v] /\ slot'[v] = slot[v]
  BY <1>0, <1>1, <1>2 DEF TInv, TypeOK
<1>4. ByOther(u)
  BY <1>1, <1>2, <1>3 DEF ByOther
<1>5. /\ Posting' = Posting /\ Left' = Left
      /\ \A s \in Slots : Writing(s)' <=> Writing(s)
  BY <1>0, <1>4, OthersSend
<1>6. SendInv'
  BY <1>0, <1>2, <1>4, OthersKeep
<1>7. ResetInv'
  <2>1. ASSUME NEW v \in Users, pc'[v] = "claim"
        PROVE  nIN'[slot'[v]] = 0 /\ nOUT'[slot'[v]] = 0 /\ ~Writing(slot[v])'
    <3>1. pc[v] = "claim" /\ slot[v] \in Slots
      BY <1>0, <1>3, <2>1 DEF TInv, PlaceOK
    <3> QED BY <1>0, <1>2, <1>5, <3>1 DEF ResetInv
  <2>2. ASSUME NEW v \in Users, pc'[v] = "purge" PROVE nOUT'[handler'[v]] = 0
    <3>1. v # u /\ pc[v] = "purge"
      BY <1>1, <1>3, <2>2
    <3> QED BY <1>0, <1>2, <3>1 DEF ResetInv
  <2> QED BY <1>2, <2>1, <2>2 DEF ResetInv, Writing, Mid
<1>8. Purged' = Purged /\ Unmasked' = Unmasked
  <2>1. \A v \in Users : pc[v] = "purge" => v # u
    BY <1>1
  <2> QED BY <1>2, <1>3, <2>1 DEF Purged, Unmasked
<1>9. \A s \in Slots : Live(s)' <=> Live(s) /\ s # x
  BY <1>1, <1>2, <1>8 DEF Live
<1>10. ASSUME NEW s \in Slots, Live(s), s # x
       PROVE  Waiting(s)' = Waiting(s) /\ WriteInv(s)' /\ ReadInv(s)'
  <2>1. WriteInv(s) /\ ReadInv(s)
    BY <1>10 DEF QInv
  <2>2. Whole(s)' = Whole(s) /\ Waiting(s)' = Waiting(s) /\ WriteInv(s)'
    BY <1>0, <1>2, <1>4, <1>6, <2>1, OtherPipe
  <2>3. \A v \in Users : Reads(v, s)' <=> Reads(v, s)
    BY <1>1, <1>2, <1>3 DEF Reads
  <2> QED BY <1>2, <2>1, <2>2, <2>3, ReadSame
<1>11. QInv'
  BY <1>6, <1>7, <1>9, <1>10 DEF QInv
<1>12. Queued' = [Queued EXCEPT ![x] = << >>]
  BY <1>1, <1>9, <1>10 DEF Queued, Live
<1>13. Asked' = [Asked EXCEPT ![x] = {}] /\ Taken' = Taken
  BY <1>1, <1>2, <1>8 DEF Asked, Taken, EventOf, UnitOf
<1>14. Queue!Close(x)
  BY <1>5, <1>8, <1>12, <1>13 DEF Queue!Close
<1> QED BY <1>1, <1>11, <1>14 DEF Queue!Step

LEMMA StatusQ ==
  ASSUME Safe, Safe', QInv, NEW u \in Users, evt_getFullStatus(u)
  PROVE  QInv' /\ Queue!Step
<1>0. TInv /\ HInv
  BY DEF Safe
<1>1. handler[u] # NONE /\ handler[u] \in Slots /\ used[handler[u]]
  BY <1>0, Sizes DEF evt_getFullStatus, HInv, SlotsSound, TInv, TypeOK
<1>2. /\ pc[u] = "idle" /\ pc' = [pc EXCEPT ![u] = "read"] /\ out' = [out EXCEPT ![u] = << >>]
      /\ UNCHANGED <<used, mask, nIN, nOUT, buffer, slot, handler>> /\ UNCHANGED sending
  BY <1>1 DEF evt_getFullStatus, At, pipes
<1>3. /\ pc'[u] = "read" /\ out'[u] = << >>
      /\ \A v \in Users \ {u} : pc'[v] = pc[v] /\ slot'[v] = slot[v] /\ out'[v] = out[v]
  BY <1>0, <1>2 DEF TInv, TypeOK
<1>4. ByOther(u)
  BY <1>2, <1>3 DEF ByOther
<1>5. ASSUME NEW s \in Slots, ReadInv(s), Whole(s)' = Whole(s) PROVE ReadInv(s)'
  <2>1. CASE s = handler[u]
    <3>1. \A v \in Users : ~Reads(v, s)
      BY <1>0, <1>1, <1>2, <2>1 DEF Reads, HInv, HandlersApart
    <3>2. (Whole(s)' % EvtSize) = 0
      BY <1>5, <3>1 DEF ReadInv
    <3>3. \A v \in Users : Reads(v, s)' => v = u
      BY <1>0, <1>1, <1>2, <2>1 DEF Reads, HInv, HandlersApart
    <3>4. Len(out'[u]) = 0
      BY <1>3
    <3>5. Resting(u, s)'
      BY <3>2, <3>4 DEF Resting, RestAt
    <3> QED BY <3>2, <3>3, <3>5 DEF ReadInv
  <2>2. CASE s # handler[u]
    <3>1. \A v \in Users : (Reads(v, s)' <=> Reads(v, s)) /\ (Reads(v, s) => out'[v] = out[v])
      BY <1>2, <1>3, <2>2 DEF Reads
    <3> QED BY <1>2, <1>5, <3>1, ReadSame
  <2> QED BY <2>1, <2>2
<1>6. QInv' /\ UNCHANGED <<Queued, Asked, Purged, Unmasked, Posting, Left>>
  BY <1>2, <1>3, <1>4, <1>5, QuietQ
<1>7. Taken' = [Taken EXCEPT ![u] = NoEvent]
  <2>1. \A v \in Users : EventOf(out'[v]) = IF v = u THEN NoEvent ELSE EventOf(out[v])
    BY <1>3 DEF EventOf
  <2>2. Taken' = [v \in Users |-> EventOf(out'[v])]
    BY DEF Taken, EventOf, UnitOf
  <2> QED BY <2>1, <2>2 DEF Taken
<1>8. Queue!Ask(u)
  BY <1>6, <1>7 DEF Queue!Ask
<1> QED BY <1>6, <1>8 DEF Queue!Step

LEMMA PurgeQ ==
  ASSUME Safe, Safe', QInv, NEW u \in Users, evt_purgeHandler(u)
  PROVE  QInv' /\ Queue!Step
<1>0. SendInv /\ ResetInv /\ TInv /\ HInv
  BY DEF QInv, Safe
<1>x. PICK x \in Slots : x = handler[u]
  BY <1>0 DEF evt_purgeHandler, TInv, TypeOK
<1>1. used[x] /\ pc[u] = "idle" /\ pc' = [pc EXCEPT ![u] = "purge"]
  BY <1>0, <1>x, Sizes DEF evt_purgeHandler, At, HInv, SlotsSound
<1>2. /\ UNCHANGED <<used, mask, nIN, buffer, slot, handler, out>> /\ UNCHANGED sending
      /\ nOUT'[x] = 0 /\ \A s \in Slots \ {x} : nOUT'[s] = nOUT[s]
  BY <1>0, <1>1, <1>x DEF evt_purgeHandler, TInv, TypeOK
<1>3. pc'[u] = "purge" /\ \A v \in Users \ {u} : pc'[v] = pc[v] /\ slot'[v] = slot[v]
  BY <1>0, <1>1, <1>2 DEF TInv, TypeOK
<1>4. ByOther(u)
  BY <1>1, <1>2, <1>3 DEF ByOther
<1>5. /\ Posting' = Posting /\ Left' = Left
      /\ \A s \in Slots : Writing(s)' <=> Writing(s)
  BY <1>0, <1>4, OthersSend
<1>6. SendInv'
  BY <1>0, <1>2, <1>4, OthersKeep
<1>7. \A v \in Users \ {u} : handler[v] # x
  BY <1>0, <1>x, Sizes DEF HInv, HandlersApart
<1>8. ResetInv'
  <2>1. ASSUME NEW v \in Users, pc'[v] = "claim"
        PROVE  nIN'[slot'[v]] = 0 /\ nOUT'[slot'[v]] = 0 /\ ~Writing(slot[v])'
    <3>1. v # u /\ pc[v] = "claim" /\ slot[v] \in Slots
      BY <1>0, <1>3, <2>1 DEF TInv, PlaceOK
    <3>2. ~used[slot[v]]
      BY <1>0, <3>1 DEF HInv, SlotsSound
    <3> QED BY <1>0, <1>1, <1>2, <1>5, <3>1, <3>2 DEF ResetInv
  <2>2. ASSUME NEW v \in Users, pc'[v] = "purge" PROVE nOUT'[handler'[v]] = 0
    <3>1. CASE v = u
      BY <1>2, <1>x, <3>1
    <3>2. CASE v # u
      <4>1. pc[v] = "purge" /\ handler[v] \in Slots
        BY <1>0, <1>3, <2>2, <3>2 DEF TInv, PlaceOK
      <4> QED BY <1>0, <1>2, <1>7, <3>2, <4>1 DEF ResetInv
    <3> QED BY <3>1, <3>2
  <2> QED BY <1>2, <2>1, <2>2 DEF ResetInv, Writing, Mid
<1>9. Purged' = Purged \cup {x} /\ Unmasked' = Unmasked
  <2>1. \A v \in Users : (pc'[v] = "purge") <=> (pc[v] = "purge" \/ v = u)
    BY <1>3
  <2>2. \A v \in Users : (pc'[v] = "mask") <=> (pc[v] = "mask")
    BY <1>1, <1>3
  <2>3. Purged' = Purged \cup {x}
    BY <1>2, <1>x, <2>1 DEF Purged
  <2>4. Unmasked' = Unmasked
    BY <1>2, <2>2 DEF Unmasked
  <2> QED BY <2>3, <2>4
<1>10. \A s \in Slots : Live(s)' <=> Live(s) /\ s # x
  BY <1>2, <1>9 DEF Live
<1>11. ASSUME NEW s \in Slots, Live(s), s # x
       PROVE  Waiting(s)' = Waiting(s) /\ WriteInv(s)' /\ ReadInv(s)'
  <2>1. WriteInv(s) /\ ReadInv(s)
    BY <1>11 DEF QInv
  <2>2. Whole(s)' = Whole(s) /\ Waiting(s)' = Waiting(s) /\ WriteInv(s)'
    BY <1>0, <1>2, <1>4, <1>6, <1>11, <2>1, OtherPipe
  <2>3. \A v \in Users : Reads(v, s)' <=> Reads(v, s)
    BY <1>1, <1>2, <1>3 DEF Reads
  <2> QED BY <1>2, <1>11, <2>1, <2>2, <2>3, ReadSame
<1>12. QInv'
  BY <1>6, <1>8, <1>10, <1>11 DEF QInv
<1>13. Queued' = [Queued EXCEPT ![x] = << >>]
  BY <1>1, <1>10, <1>11 DEF Queued, Live
<1>14. Asked' = Asked /\ Taken' = Taken
  BY <1>2, <1>9 DEF Asked, Taken, EventOf, UnitOf
<1>15. Queue!BeginPurge(x)
  <2>1. (Purged \cup Unmasked)' = (Purged \cup Unmasked) \cup {x}
    BY <1>9
  <2> QED BY <1>5, <1>13, <1>14, <2>1 DEF Queue!BeginPurge
<1> QED BY <1>1, <1>12, <1>15 DEF Queue!Step

LEMMA PurgeInQ ==
  ASSUME Safe, Safe', QInv, NEW u \in Users, PurgeIn(u), ~broken'
  PROVE  QInv' /\ Queue!Step
<1>0. SendInv /\ ResetInv /\ TInv /\ HInv
  BY DEF QInv, Safe
<1>x. PICK x \in Slots : x = handler[u]
  BY <1>0 DEF PurgeIn, At, TInv, PlaceOK
<1>1. used[x] /\ pc[u] = "purge" /\ pc' = [pc EXCEPT ![u] = "idle"] /\ nOUT[x] = 0
  BY <1>0, <1>x, Sizes DEF PurgeIn, At, HInv, SlotsSound, ResetInv
<1>2. /\ UNCHANGED <<used, mask, nOUT, buffer, slot, handler, out>> /\ UNCHANGED sending
      /\ nIN'[x] = 0 /\ ~Writing(x) /\ \A s \in Slots \ {x} : nIN'[s] = nIN[s]
  BY <1>0, <1>1, <1>x DEF PurgeIn, Break, TInv, TypeOK
<1>3. pc'[u] = "idle" /\ \A v \in Users \ {u} : pc'[v] = pc[v] /\ slot'[v] = slot[v]
  BY <1>0, <1>1, <1>2 DEF TInv, TypeOK
<1>4. ByOther(u)
  BY <1>1, <1>2, <1>3 DEF ByOther
<1>5. /\ Posting' = Posting /\ Left' = Left
      /\ \A s \in Slots : Writing(s)' <=> Writing(s)
      /\ \A v \in Users, s \in Slots : InPart(v, s)' <=> InPart(v, s)
  BY <1>0, <1>4, OthersSend
<1>6. SendInv'
  <2>1. \A v \in Users : Mid(v) => slot[v] \in Slots \ {x}
    BY <1>0, <1>2 DEF Writing, Mid, TInv, PlaceOK
  <2> QED BY <1>0, <1>2, <1>4, <2>1, OthersKeep
<1>7. \A v \in Users \ {u} : handler[v] # x
  BY <1>0, <1>x, Sizes DEF HInv, HandlersApart
<1>8. ResetInv'
  <2>1. ASSUME NEW v \in Users, pc'[v] = "claim"
        PROVE  nIN'[slot'[v]] = 0 /\ nOUT'[slot'[v]] = 0 /\ ~Writing(slot[v])'
    <3>1. v # u /\ pc[v] = "claim" /\ slot[v] \in Slots
      BY <1>0, <1>3, <2>1 DEF TInv, PlaceOK
    <3>2. ~used[slot[v]]
      BY <1>0, <3>1 DEF HInv, SlotsSound
    <3> QED BY <1>0, <1>1, <1>2, <1>5, <3>1, <3>2 DEF ResetInv
  <2>2. ASSUME NEW v \in Users, pc'[v] = "purge" PROVE nOUT'[handler'[v]] = 0
    <3>1. pc[v] = "purge"
      BY <1>1, <1>3, <2>2
    <3> QED BY <1>0, <1>2, <3>1 DEF ResetInv
  <2> QED BY <1>2, <2>1, <2>2 DEF ResetInv, Writing, Mid
<1>9. /\ Purged' = Purged \ {x} /\ x \in Purged
      /\ Unmasked' = Unmasked /\ x \notin Unmasked
  <2>1. \A v \in Users : (pc'[v] = "purge") <=> (pc[v] = "purge" /\ v # u)
    BY <1>3
  <2>2. \A v \in Users : (pc'[v] = "mask") <=> (pc[v] = "mask")
    BY <1>1, <1>3
  <2>3. x \in Purged
    BY <1>1, <1>x DEF Purged
  <2>4. Purged' = Purged \ {x}
    <3>1. \A s \in Slots : s \in Purged' <=> (s \in Purged /\ s # x)
      BY <1>2, <1>7, <1>x, <2>1 DEF Purged
    <3>2. Purged' \subseteq Slots /\ Purged \subseteq Slots
      BY DEF Purged
    <3> QED BY <3>1, <3>2
  <2>5. Unmasked' = Unmasked
    BY <1>2, <2>2 DEF Unmasked
  <2>6. x \notin Unmasked
    BY <1>0, <1>x DEF Unmasked, HInv, SlotsSound
  <2> QED BY <2>3, <2>4, <2>5, <2>6
<1>10. \A s \in Slots : Live(s)' <=> (Live(s) \/ s = x)
  BY <1>1, <1>2, <1>9 DEF Live
<1>11. ASSUME NEW s \in Slots, Live(s)
       PROVE  Waiting(s)' = Waiting(s) /\ WriteInv(s)' /\ ReadInv(s)'
  <2>1. WriteInv(s) /\ ReadInv(s) /\ s # x
    BY <1>9, <1>11 DEF QInv, Live
  <2>2. Whole(s)' = Whole(s) /\ Waiting(s)' = Waiting(s) /\ WriteInv(s)'
    BY <1>0, <1>2, <1>4, <1>6, <2>1, OtherPipe
  <2>3. \A v \in Users : Reads(v, s)' <=> Reads(v, s)
    BY <1>1, <1>2, <1>3 DEF Reads
  <2> QED BY <1>2, <2>1, <2>2, <2>3, ReadSame
<1>12. Waiting(x)' = << >> /\ WriteInv(x)' /\ ReadInv(x)'
  <2>1. \A v \in Users : ~InPart(v, x)'
    BY <1>2, <1>5, InPartMid
  <2>2. \A v \in Users : ~Reads(v, x)'
    BY <1>2, <1>3, <1>7 DEF Reads
  <2>3. nIN'[x] = 0 /\ nOUT'[x] = 0
    BY <1>1, <1>2
  <2> QED BY <1>6, <2>1, <2>2, <2>3, FreshPipe
<1>13. QInv'
  BY <1>6, <1>8, <1>10, <1>11, <1>12 DEF QInv
<1>14. Queued' = Queued
  <2>1. \A s \in Slots : IF Live(s)' THEN Waiting(s)' = IF Live(s) THEN Waiting(s) ELSE << >>
                                     ELSE ~Live(s)
    BY <1>9, <1>10, <1>11, <1>12 DEF Live
  <2> QED BY <2>1 DEF Queued, Live
<1>15. Asked' = Asked /\ Taken' = Taken
  BY <1>2, <1>9 DEF Asked, Taken, EventOf, UnitOf
<1>16. Queue!EndPurge(x)
  <2>1. (Purged \cup Unmasked)' = (Purged \cup Unmasked) \ {x}
    BY <1>9
  <2> QED BY <1>5, <1>14, <1>15, <2>1 DEF Queue!EndPurge
<1> QED BY <1>13, <1>16 DEF Queue!Step

\* One unit is read: of an event that was waiting, or of the one being read.
LEMMA ReadFirst ==
  ASSUME NEW buf, NEW o \in 0..(PipeSize - 1), NEW p \in 1..(PipeSize - 1),
         WholeIn(buf, o, p), NEW S, NEW seq \in Seq(S), Len(seq) = 0, RestAt(buf, o, p, seq)
  PROVE  /\ WaitOf(buf, o, p) # << >>
         /\ WaitOf(buf, Wrap(o + 1), p - 1) = Tail(WaitOf(buf, o, p))
         /\ WholeIn(buf, Wrap(o + 1), p - 1)
         /\ EventOf(Append(seq, buf[o])) = Head(WaitOf(buf, o, p))
         /\ RestAt(buf, Wrap(o + 1), p - 1, Append(seq, buf[o]))
<1> DEFINE sq == Append(seq, buf[o])
<1>s. seq = << >>
  BY EmptySeq
<1>p. p % EvtSize = 0
  <2>1. Len(seq) \notin 1..(EvtSize - 1)
    OBVIOUS
  <2> QED BY <2>1, Zenon DEF RestAt
<1>0. EvtSize \in Nat \ {0} /\ PipeSize \in Nat /\ o \in Nat /\ o \in Int /\ p \in Nat /\ p # 0
  BY Sizes
<1>1. /\ WaitOf(buf, o, p) # << >>
      /\ \E e \in Event : /\ Head(WaitOf(buf, o, p)) = e
                          /\ \A i \in 1..EvtSize : buf[Wrap(o + i - 1)] = UnitOf(e, i)
      /\ WaitOf(buf, Wrap(o + 1), p - 1) = Tail(WaitOf(buf, o, p))
      /\ ((p - 1) % EvtSize) = EvtSize - 1
      /\ WholeIn(buf, Wrap(o + 1), p - 1)
  BY <1>0, <1>p, WaitTake
<1>2. PICK e \in Event : /\ Head(WaitOf(buf, o, p)) = e
                         /\ \A i \in 1..EvtSize : buf[Wrap(o + i - 1)] = UnitOf(e, i)
  BY <1>1
<1>3. buf[o] = UnitOf(e, 1)
  <2>1. 1 \in 1..EvtSize /\ o + 1 - 1 = o
    BY <1>0
  <2>2. Wrap(o) = o
    BY <1>0, WrapIs
  <2> QED BY <1>2, <2>1, <2>2
<1>4. Len(sq) = 1 /\ DOMAIN sq = 1..1 /\ sq[1] = buf[o]
  <2>1. sq = << buf[o] >>
    BY <1>s
  <2> HIDE DEF sq
  <2> QED BY <2>1
<1>5. EventOf(sq) = e
  <2> DEFINE n == 1
  <2>1. n \in Nat \ {0} /\ DOMAIN sq = 1..n /\ \A i \in 1..n : sq[i] = UnitOf(e, i)
    BY <1>3, <1>4
  <2> HIDE DEF n, sq
  <2> QED BY <2>1, EventIs
<1>6. RestAt(buf, Wrap(o + 1), p - 1, sq)
  <2>1. CASE EvtSize = 1
    <3>1. Len(sq) = EvtSize /\ ((p - 1) % EvtSize) = 0
      <4> HIDE DEF sq
      <4> QED BY <1>1, <1>4, <2>1
    <3> HIDE DEF sq
    <3> QED BY <3>1 DEF RestAt
  <2>2. CASE EvtSize # 1
    <3>1. 1 \in 1..(EvtSize - 1)
      BY <1>0, <2>2
    <3>2. ASSUME NEW i \in 1..(EvtSize - 1)
          PROVE  buf[Wrap(Wrap(o + 1) + i - 1)] = UnitOf(e, 1 + i)
      <4> DEFINE j == i - 1
                 w == Wrap(o + 1)
      <4>1. j \in Int /\ i + 1 \in 1..EvtSize /\ o + 1 + j = o + (i + 1) - 1 /\ 1 + i = i + 1
        BY <1>0
      <4>2. w \in Int /\ Wrap(w + j) = Wrap(o + 1 + j)
        <5> HIDE DEF j
        <5> QED BY <1>0, <4>1, SpanLess
      <4> HIDE DEF w
      <4>3. w + i - 1 = w + j
        BY <1>0, <4>2
      <4> HIDE DEF j
      <4> QED BY <1>2, <4>1, <4>2, <4>3 DEF w
    <3>3. /\ Len(sq) = 1 /\ ((p - 1) % EvtSize) = EvtSize - 1
          /\ \A i \in 1..1 : sq[i] = UnitOf(e, i)
      BY <1>1, <1>3, <1>4
    <3> HIDE DEF sq
    <3> QED BY <3>1, <3>2, <3>3 DEF RestAt
  <2> QED BY <2>1, <2>2
<1> HIDE DEF sq
<1> QED BY <1>1, <1>2, <1>5, <1>6 DEF sq

LEMMA ReadNext ==
  ASSUME NEW buf, NEW o \in 0..(PipeSize - 1), NEW p \in 1..(PipeSize - 1),
         WholeIn(buf, o, p), NEW S, NEW seq \in Seq(S), Len(seq) \in 1..(EvtSize - 1),
         buf[o] \in S, RestAt(buf, o, p, seq)
  PROVE  /\ WaitOf(buf, Wrap(o + 1), p - 1) = WaitOf(buf, o, p)
         /\ WholeIn(buf, Wrap(o + 1), p - 1)
         /\ EventOf(Append(seq, buf[o])) = EventOf(seq)
         /\ RestAt(buf, Wrap(o + 1), p - 1, Append(seq, buf[o]))
<1> DEFINE n == Len(seq)
           sq == Append(seq, buf[o])
           m == n + 1
<1>0. /\ EvtSize \in Nat \ {0} /\ PipeSize \in Nat /\ o \in Nat /\ o \in Int /\ p \in Nat
      /\ n \in Nat \ {0} /\ n \in 1..(EvtSize - 1) /\ m \in Nat \ {0}
  BY Sizes
<1>1. /\ (p % EvtSize) = EvtSize - n
      /\ \E e \in Event : /\ \A i \in 1..n : seq[i] = UnitOf(e, i)
                          /\ \A i \in 1..(EvtSize - n) : buf[Wrap(o + i - 1)] = UnitOf(e, n + i)
  <2>1. Len(seq) \notin {0, EvtSize}
    BY <1>0
  <2> HIDE DEF n
  <2>2. RestAt(buf, o, p, seq)
    OBVIOUS
  <2> QED BY <2>1, <2>2, Zenon DEF RestAt, n
<1>2. PICK e \in Event : /\ \A i \in 1..n : seq[i] = UnitOf(e, i)
                         /\ \A i \in 1..(EvtSize - n) : buf[Wrap(o + i - 1)] = UnitOf(e, n + i)
  BY <1>1
<1>3. Len(sq) = m /\ DOMAIN sq = 1..m /\ (\A i \in 1..n : sq[i] = seq[i]) /\ sq[m] = buf[o]
  BY AppendProperties
<1> HIDE DEF n, sq
<1>4. /\ WaitOf(buf, Wrap(o + 1), p - 1) = WaitOf(buf, o, p)
      /\ ((p - 1) % EvtSize) = (p % EvtSize) - 1
      /\ WholeIn(buf, Wrap(o + 1), p - 1)
  <2>1. (p % EvtSize) > 0
    BY <1>0, <1>1
  <2> QED BY <1>0, <2>1, WaitDrop
<1>5. buf[o] = UnitOf(e, m)
  <2>1. 1 \in 1..(EvtSize - n) /\ o + 1 - 1 = o
    BY <1>0
  <2>2. Wrap(o) = o
    BY <1>0, WrapIs
  <2> QED BY <1>2, <2>1, <2>2
<1>6. \A i \in 1..m : sq[i] = UnitOf(e, i)
  <2> SUFFICES ASSUME NEW i \in 1..m PROVE sq[i] = UnitOf(e, i)
    OBVIOUS
  <2>1. i \in 1..n \/ i = m
    BY <1>0
  <2> QED BY <1>2, <1>3, <1>5, <2>1
<1>7. EventOf(sq) = e
  <2> HIDE DEF m
  <2> QED BY <1>0, <1>3, <1>6, EventIs
<1>8. EventOf(seq) = e
  <2>1. DOMAIN seq = 1..n
    BY DEF n
  <2> QED BY <1>0, <1>2, <2>1, EventIs
<1>9. RestAt(buf, Wrap(o + 1), p - 1, sq)
  <2>0. ((p - 1) % EvtSize) = EvtSize - m
    <3>1. ((p - 1) % EvtSize) = EvtSize - n - 1
      BY <1>1, <1>4
    <3> QED BY <1>0, <3>1
  <2>1. CASE m = EvtSize
    <3>1. Len(sq) = EvtSize /\ ((p - 1) % EvtSize) = 0
      BY <1>0, <1>3, <2>0, <2>1
    <3> QED BY <3>1 DEF RestAt
  <2>2. CASE m # EvtSize
    <3>1. m \in 1..(EvtSize - 1)
      BY <1>0, <2>2
    <3>2. ASSUME NEW i \in 1..(EvtSize - m)
          PROVE  buf[Wrap(Wrap(o + 1) + i - 1)] = UnitOf(e, m + i)
      <4> DEFINE j == i - 1
                 w == Wrap(o + 1)
                 k == i + 1
      <4>1. j \in Int /\ k \in 1..(EvtSize - n) /\ o + 1 + j = o + k - 1 /\ m + i = n + k
        BY <1>0
      <4>2. w \in Int /\ Wrap(w + j) = Wrap(o + 1 + j)
        <5> HIDE DEF j
        <5> QED BY <1>0, <4>1, SpanLess
      <4> HIDE DEF w
      <4>3. w + i - 1 = w + j
        BY <1>0, <4>2
      <4> HIDE DEF j, k, m
      <4> QED BY <1>2, <4>1, <4>2, <4>3 DEF w
    <3> HIDE DEF m
    <3> QED BY <1>3, <1>6, <2>0, <3>1, <3>2 DEF RestAt
  <2> QED BY <2>1, <2>2
<1> QED BY <1>4, <1>7, <1>8, <1>9 DEF sq

\* The pipe a thread reads from.
LEMMA ReadFrom ==
  ASSUME Safe, QInv, NEW u \in Users, pc[u] = "read", NEW x, x = handler[u], ~Writing(x)
  PROVE  /\ x \in Slots /\ Live(x) /\ WriteInv(x) /\ Resting(u, x)
         /\ \A v \in Users \ {u} : handler[v] # x
         /\ nIN[x] \in 0..(PipeSize - 1) /\ nOUT[x] \in 0..(PipeSize - 1)
         /\ Whole(x) \in 0..(PipeSize - 1) /\ Pending(x) = Whole(x)
         /\ nIN[x] = Wrap(nOUT[x] + Whole(x))
         /\ Waiting(x) = WaitOf(buffer[x], nOUT[x], Whole(x))
<1>0. TInv /\ HInv /\ SendInv /\ Sending \subseteq Senders
  BY DEF QInv, Safe, SendInv
<1>1. x \in Slots /\ used[x]
  BY <1>0, Sizes DEF TInv, PlaceOK, HInv, SlotsSound
<1>2. \A v \in Users \ {u} : handler[v] # x
  BY <1>0, <1>1, Sizes DEF HInv, HandlersApart
<1>3. Live(x)
  BY <1>1, <1>2 DEF Live, Purged
<1>4. WriteInv(x) /\ ReadInv(x)
  BY <1>1, <1>3 DEF QInv
<1>5. Resting(u, x)
  BY <1>4 DEF ReadInv, Reads
<1>6. Partial(x) = 0 /\ Partial(x) <= Pending(x)
  BY <1>0, <1>1, <1>4, InPartMid, PartialNow DEF WriteInv
<1>7. /\ nIN[x] \in 0..(PipeSize - 1) /\ nOUT[x] \in 0..(PipeSize - 1)
      /\ Pending(x) \in 0..(PipeSize - 1) /\ nIN[x] = Wrap(nOUT[x] + Pending(x))
      /\ Whole(x) \in 0..(PipeSize - 1) /\ Pending(x) = Whole(x) + Partial(x)
      /\ Waiting(x) = WaitOf(buffer[x], nOUT[x], Whole(x))
  BY <1>0, <1>1, <1>6, WholeIs
<1>8. Pending(x) = Whole(x)
  BY <1>6, <1>7, Sizes
<1> QED BY <1>1, <1>2, <1>3, <1>4, <1>5, <1>7, <1>8

LEMMA ReadEndQ ==
  ASSUME Safe, Safe', QInv, NEW u \in Users, pipeRead(u), ~broken',
         ~(Len(out[u]) < EvtSize /\ nIN[handler[u]] # nOUT[handler[u]])
  PROVE  QInv' /\ UNCHANGED Queue!aVars
<1>0. TInv /\ HInv
  BY DEF Safe
<1>x. PICK x \in Slots : x = handler[u]
  BY <1>0 DEF pipeRead, TInv, PlaceOK
<1>1. /\ pc[u] = "read" /\ pc' = [pc EXCEPT ![u] = "idle"] /\ ~Writing(x)
      /\ UNCHANGED <<used, mask, nIN, nOUT, buffer, slot, handler, out>> /\ UNCHANGED sending
  BY <1>x DEF pipeRead, Break
<1>2. pc'[u] = "idle" /\ \A v \in Users \ {u} : pc'[v] = pc[v] /\ slot'[v] = slot[v]
  BY <1>0, <1>1 DEF TInv, TypeOK
<1>3. ByOther(u)
  BY <1>1, <1>2 DEF ByOther
<1>4. /\ Resting(u, x) /\ \A v \in Users \ {u} : handler[v] # x
      /\ Whole(x) \in 0..(PipeSize - 1) /\ Pending(x) = Whole(x) /\ nOUT[x] \in 0..(PipeSize - 1)
  BY <1>1, <1>x, ReadFrom
<1>5. (Whole(x) % EvtSize) = 0
  <2>1. CASE nIN[x] = nOUT[x]
    <3>1. PipeSize \in Nat \ {0} /\ nOUT[x] \in Int
      BY <1>4, Sizes
    <3>2. nIN[x] - nOUT[x] = 0 /\ 0 \in Int /\ 0 \in 0..(PipeSize - 1)
      BY <2>1, <3>1
    <3>3. Wrap(0) = 0
      BY <3>2, WrapIs
    <3>4. Whole(x) = 0
      BY <1>4, <3>2, <3>3 DEF Pending
    <3>5. (0 % EvtSize) = 0
      BY WaitNone
    <3> QED BY <3>4, <3>5
  <2>2. CASE nIN[x] # nOUT[x]
    <3>1. ~(Len(out[u]) < EvtSize)
      BY <1>x, <2>2
    <3>2. Len(out[u]) \notin 1..(EvtSize - 1)
      BY <3>1, Sizes
    <3> QED BY <1>4, <3>2, Zenon DEF Resting, RestAt
  <2> QED BY <2>1, <2>2
<1>6. ASSUME NEW s \in Slots, ReadInv(s), Whole(s)' = Whole(s) PROVE ReadInv(s)'
  <2>1. CASE s = x
    <3>1. \A v \in Users : ~Reads(v, s)'
      BY <1>1, <1>2, <1>4, <2>1 DEF Reads
    <3> QED BY <1>5, <1>6, <2>1, <3>1 DEF ReadInv
  <2>2. CASE s # x
    <3>1. \A v \in Users : (Reads(v, s)' <=> Reads(v, s)) /\ (Reads(v, s) => out'[v] = out[v])
      BY <1>1, <1>2, <1>x, <2>2 DEF Reads
    <3> QED BY <1>1, <1>6, <3>1, ReadSame
  <2> QED BY <2>1, <2>2
<1>7. QInv' /\ UNCHANGED <<Queued, Asked, Purged, Unmasked, Posting, Left>>
  BY <1>1, <1>2, <1>3, <1>6, QuietQ
<1>8. Taken' = Taken
  BY <1>1 DEF Taken, EventOf, UnitOf
<1> QED BY <1>7, <1>8 DEF Queue!aVars

LEMMA ReadUnitQ ==
  ASSUME Safe, Safe', QInv, NEW u \in Users, pipeRead(u), ~broken',
         Len(out[u]) < EvtSize /\ nIN[handler[u]] # nOUT[handler[u]]
  PROVE  QInv' /\ AbstractStep
<1>0. TInv /\ TInv' /\ HInv /\ SendInv /\ ResetInv
  BY DEF Safe, QInv
<1>x. PICK x \in Slots : x = handler[u]
  BY <1>0 DEF pipeRead, TInv, PlaceOK
<1> DEFINE o == nOUT[x]
           p == Whole(x)
           buf == buffer[x]
           seq == out[u]
<1>1. /\ pc[u] = "read" /\ pc' = pc /\ ~Writing(x)
      /\ UNCHANGED <<used, mask, nIN, buffer, slot, handler>> /\ UNCHANGED sending
      /\ nOUT' = [nOUT EXCEPT ![x] = Wrap(o + 1)]
      /\ out' = [out EXCEPT ![u] = Append(seq, buf[o])]
  BY <1>x DEF pipeRead, Break
<1>2. /\ nOUT'[x] = Wrap(o + 1) /\ \A s \in Slots \ {x} : nOUT'[s] = nOUT[s]
      /\ out'[u] = Append(seq, buf[o]) /\ \A v \in Users \ {u} : out'[v] = out[v]
  BY <1>0, <1>1 DEF TInv, TypeOK
<1>3. ByOther(u)
  BY <1>1 DEF ByOther
<1>4. /\ Live(x) /\ WriteInv(x) /\ Resting(u, x) /\ \A v \in Users \ {u} : handler[v] # x
      /\ nIN[x] \in 0..(PipeSize - 1) /\ o \in 0..(PipeSize - 1)
      /\ p \in 0..(PipeSize - 1) /\ nIN[x] = Wrap(o + p)
      /\ Waiting(x) = WaitOf(buf, o, p)
  BY <1>1, <1>x, ReadFrom
<1>5. p \in 1..(PipeSize - 1)
  <2>1. p # 0
    <3> SUFFICES ASSUME p = 0 PROVE FALSE
      OBVIOUS
    <3>1. o \in Int /\ o + p = o
      BY <1>4, Sizes
    <3>2. Wrap(o) = o
      BY <1>4, <3>1, WrapIs
    <3> QED BY <1>4, <1>x, <3>1, <3>2
  <2> QED BY <1>4, <2>1, Sizes
<1>6. WholeIn(buf, o, p) /\ RestAt(buf, o, p, seq)
  BY <1>4 DEF WriteInv, Resting
<1>7. /\ Posting' = Posting /\ Left' = Left
      /\ \A s \in Slots : Writing(s)' <=> Writing(s)
      /\ \A v \in Users, s \in Slots : InPart(v, s)' <=> InPart(v, s)
  BY <1>0, <1>3, OthersSend
<1>8. SendInv' /\ (Sending \subseteq Senders)'
  <2>1. SendInv'
    BY <1>1, <1>3, OthersKeep DEF QInv
  <2> QED BY <2>1 DEF SendInv
<1>9. Partial(x)' = 0 /\ Pending(x)' = p - 1
  <2>1. \A v \in Users : ~InPart(v, x)'
    BY <1>1, <1>7, InPartMid
  <2>2. Partial(x)' = 0
    BY <1>0, <1>8, <2>1, PartialNext
  <2>3. Wrap(Wrap(o + p) - Wrap(o + 1)) = p - 1
    BY <1>4, <1>5, SpanLess
  <2>4. Pending(x)' = Wrap(nIN'[x] - nOUT'[x])
    BY DEF Pending, Wrap
  <2>5. nIN'[x] = Wrap(o + p)
    BY <1>1, <1>4
  <2> QED BY <1>2, <2>2, <2>3, <2>4, <2>5
<1>10. Waiting(x)' = WaitOf(buf, Wrap(o + 1), p - 1) /\ Whole(x)' = p - 1
  <2> DEFINE q == p - 1
  <2>1. q \in 0..(PipeSize - 1) /\ Pending(x)' - Partial(x)' = q
    BY <1>5, <1>9, Sizes
  <2> HIDE DEF q
  <2>2. Waiting(x)' = WaitOf(buffer'[x], nOUT'[x], q) /\ Whole(x)' = q
    BY <2>1, WaitNext
  <2> QED BY <1>1, <1>2, <2>2 DEF q
<1>11. ASSUME WholeIn(buf, Wrap(o + 1), p - 1), RestAt(buf, Wrap(o + 1), p - 1, Append(seq, buf[o]))
       PROVE  WriteInv(x)' /\ ReadInv(x)'
  <2>1. WholeIn(buffer'[x], nOUT'[x], Whole(x)')
    BY <1>1, <1>2, <1>10, <1>11
  <2>2. WriteInv(x)'
    <3>1. \A v \in Users : ~InPart(v, x)'
      BY <1>1, <1>7, InPartMid
    <3>2. (Partial(x) <= Pending(x))'
      BY <1>5, <1>9
    <3>3. WholeIn(buffer[x], nOUT[x], Whole(x))'
      BY <2>1 DEF WholeIn, Place, Wrap
    <3> QED BY <3>1, <3>2, <3>3 DEF WriteInv
  <2>3. RestAt(buffer'[x], nOUT'[x], Whole(x)', out'[u])
    BY <1>1, <1>2, <1>10, <1>11
  <2>4. Resting(u, x)'
    BY <2>3 DEF Resting, RestAt, Wrap, UnitOf
  <2>5. Reads(u, x)' /\ \A v \in Users : Reads(v, x)' => v = u
    BY <1>1, <1>4, <1>x DEF Reads
  <2> QED BY <2>2, <2>4, <2>5 DEF ReadInv
<1>12. ASSUME NEW s \in Slots, Live(s), s # x
       PROVE  Waiting(s)' = Waiting(s) /\ WriteInv(s)' /\ ReadInv(s)'
  <2>1. WriteInv(s) /\ ReadInv(s)
    BY <1>12 DEF QInv
  <2>2. Whole(s)' = Whole(s) /\ Waiting(s)' = Waiting(s) /\ WriteInv(s)'
    BY <1>0, <1>1, <1>2, <1>3, <1>8, <1>12, <2>1, OtherPipe
  <2>3. \A v \in Users : (Reads(v, s)' <=> Reads(v, s)) /\ (Reads(v, s) => out'[v] = out[v])
    BY <1>1, <1>2, <1>12, <1>x DEF Reads
  <2> QED BY <1>1, <1>2, <1>12, <2>1, <2>2, <2>3, ReadSame
<1>13. Purged' = Purged /\ Unmasked' = Unmasked /\ Asked' = Asked
  BY <1>1 DEF Purged, Unmasked, Asked
<1>14. ResetInv'
  <2>1. ASSUME NEW v \in Users, pc'[v] = "claim"
        PROVE  nIN'[slot'[v]] = 0 /\ nOUT'[slot'[v]] = 0 /\ ~Writing(slot[v])'
    <3>1. pc[v] = "claim" /\ slot[v] \in Slots /\ ~used[slot[v]]
      BY <1>0, <1>1, <2>1 DEF TInv, PlaceOK, HInv, SlotsSound
    <3>2. slot[v] # x
      BY <1>4, <3>1 DEF Live
    <3> QED BY <1>0, <1>1, <1>2, <1>7, <3>1, <3>2 DEF ResetInv
  <2>2. ASSUME NEW v \in Users, pc'[v] = "purge" PROVE nOUT'[handler'[v]] = 0
    <3>1. pc[v] = "purge" /\ handler[v] \in Slots /\ v # u
      BY <1>0, <1>1, <2>2 DEF TInv, PlaceOK
    <3> QED BY <1>0, <1>1, <1>2, <1>4, <3>1 DEF ResetInv
  <2> QED BY <1>1, <2>1, <2>2 DEF ResetInv, Writing, Mid
<1>15. \A s \in Slots : Live(s)' <=> Live(s)
  BY <1>1, <1>13 DEF Live
<1>16. /\ seq \in Seq(Unit \cup {Blank}) /\ Len(seq) \in 0..(EvtSize - 1)
       /\ buf[o] \in Unit \cup {Blank}
  <2>1. seq \in Seq(Unit \cup {Blank}) /\ Len(seq) \in Nat
    BY <1>0 DEF TInv, TypeOK
  <2>2. buf \in [0..(PipeSize - 1) -> Unit \cup {Blank}]
    BY <1>0 DEF TInv, TypeOK
  <2>3. buf[o] \in Unit \cup {Blank}
    <3> HIDE DEF buf, o
    <3> QED BY <1>4, <2>2
  <2>4. Len(seq) \in 0..(EvtSize - 1)
    BY <2>1, Sizes
  <2> QED BY <2>1, <2>3, <2>4
<1> HIDE DEF o, p, buf, seq
<1>17. CASE Len(seq) = 0
  <2>3. /\ WaitOf(buf, o, p) # << >>
        /\ WaitOf(buf, Wrap(o + 1), p - 1) = Tail(WaitOf(buf, o, p))
        /\ WholeIn(buf, Wrap(o + 1), p - 1)
        /\ EventOf(Append(seq, buf[o])) = Head(WaitOf(buf, o, p))
        /\ RestAt(buf, Wrap(o + 1), p - 1, Append(seq, buf[o]))
    BY <1>4, <1>5, <1>6, <1>16, <1>17, ReadFirst
  <2>4. QInv'
    BY <1>8, <1>11, <1>12, <1>14, <1>15, <2>3 DEF QInv
  <2>5. Queued[x] = Waiting(x) /\ Queued' = [Queued EXCEPT ![x] = Tail(Waiting(x))]
    <3>2. \A s \in Slots : (used'[s] /\ s \notin Purged') <=> (used[s] /\ s \notin Purged)
      BY <1>1, <1>13
    <3> QED BY <1>4, <1>10, <1>12, <2>3, <3>2 DEF Queued, Live
  <2>6. Taken' = [Taken EXCEPT ![u] = Head(Waiting(x))]
    <3>1. Taken' = [v \in Users |-> EventOf(out'[v])]
      BY DEF Taken, EventOf, UnitOf
    <3>2. \A v \in Users : EventOf(out'[v]) = IF v = u THEN Head(Waiting(x)) ELSE EventOf(out[v])
      BY <1>2, <1>4, <2>3
    <3> QED BY <3>1, <3>2 DEF Taken
  <2>7. Queue!Take(u, x)
    BY <1>4, <1>7, <1>13, <2>3, <2>5, <2>6 DEF Queue!Take
  <2> QED BY <2>4, <2>7 DEF Queue!Step, AbstractStep
<1>18. CASE Len(seq) # 0
  <2>1. Len(seq) \in 1..(EvtSize - 1)
    BY <1>16, <1>18, Sizes
  <2>2. /\ WaitOf(buf, Wrap(o + 1), p - 1) = WaitOf(buf, o, p)
        /\ WholeIn(buf, Wrap(o + 1), p - 1)
        /\ EventOf(Append(seq, buf[o])) = EventOf(seq)
        /\ RestAt(buf, Wrap(o + 1), p - 1, Append(seq, buf[o]))
    BY <1>4, <1>5, <1>6, <1>16, <2>1, ReadNext
  <2>3. QInv'
    BY <1>8, <1>11, <1>12, <1>14, <1>15, <2>2 DEF QInv
  <2>4. Queued' = Queued
    <3>1. \A s \in Slots : Live(s) => Waiting(s)' = Waiting(s)
      BY <1>4, <1>10, <1>12, <2>2
    <3>2. \A s \in Slots : (used'[s] /\ s \notin Purged') <=> (used[s] /\ s \notin Purged)
      BY <1>1, <1>13
    <3> QED BY <3>1, <3>2 DEF Queued, Live
  <2>5. Taken' = Taken
    <3>1. Taken' = [v \in Users |-> EventOf(out'[v])]
      BY DEF Taken, EventOf, UnitOf
    <3>2. \A v \in Users : EventOf(out'[v]) = EventOf(out[v])
      BY <1>2, <2>2 DEF seq
    <3> QED BY <3>1, <3>2 DEF Taken
  <2>6. UNCHANGED Queue!aVars
    BY <1>7, <1>13, <2>4, <2>5 DEF Queue!aVars
  <2> QED BY <2>3, <2>6 DEF AbstractStep
<1> QED BY <1>17, <1>18

\* There is one sender; what it sends and where it is.
LEMMA SenderIs ==
  ASSUME Sending \subseteq Senders
  PROVE  /\ \A u \in Users : u \in Sending =>
              /\ Sending = {u} /\ Posting = event[u]
              /\ Left = {s \in Slots : s > slot[u] \/ (s = slot[u] /\ done[u] < EvtSize)}
         /\ Sending = {} => Posting = NoEvent /\ Left = {}
<1>1. ASSUME NEW u \in Users, u \in Sending
      PROVE  /\ Sending = {u} /\ Posting = event[u]
             /\ Left = {s \in Slots : s > slot[u] \/ (s = slot[u] /\ done[u] < EvtSize)}
  <2>1. \A v \in Sending : v = u
    BY <1>1, EvtAssumption
  <2>2. Sending = {u}
    BY <1>1, <2>1
  <2>3. Sent = {event[u]}
    BY <2>2 DEF Sent
  <2>4. Posting = event[u]
    BY <2>3 DEF Posting
  <2> QED BY <2>2, <2>4 DEF Left
<1>2. ASSUME Sending = {} PROVE Posting = NoEvent /\ Left = {}
  <2>1. Sent = {}
    BY <1>2 DEF Sent
  <2> QED BY <1>2, <2>1 DEF Posting, Left
<1> QED BY <1>1, <1>2

LEMMA SenderNext ==
  ASSUME (Sending \subseteq Senders)'
  PROVE  /\ \A u \in Users : u \in Sending' =>
              /\ Sending' = {u} /\ Posting' = event'[u]
              /\ Left' = {s \in Slots : s > slot'[u] \/ (s = slot'[u] /\ done'[u] < EvtSize)}
         /\ Sending' = {} => Posting' = NoEvent /\ Left' = {}
<1>1. ASSUME NEW u \in Users, u \in Sending'
      PROVE  /\ Sending' = {u} /\ Posting' = event'[u]
             /\ Left' = {s \in Slots : s > slot'[u] \/ (s = slot'[u] /\ done'[u] < EvtSize)}
  <2>1. \A v \in Sending' : v = u
    BY <1>1, EvtAssumption
  <2>2. Sending' = {u}
    BY <1>1, <2>1
  <2>3. Sent' = {event'[u]}
    BY <2>2 DEF Sent
  <2>4. Posting' = event'[u]
    BY <2>3 DEF Posting
  <2> QED BY <2>2, <2>4 DEF Left
<1>2. ASSUME Sending' = {} PROVE Posting' = NoEvent /\ Left' = {}
  <2>1. Sent' = {}
    BY <1>2 DEF Sent
  <2> QED BY <1>2, <2>1 DEF Posting, Left
<1> QED BY <1>1, <1>2

\* Thread u does a step of evt_send that changes no pipe.
LEMMA SendQuiet ==
  ASSUME Safe, Safe', QInv, SendInv', NEW u \in Users,
         pc[u] \in {"idle", "send"}, pc'[u] \in {"idle", "send", "store"},
         \A v \in Users \ {u} : pc'[v] = pc[v] /\ slot'[v] = slot[v],
         UNCHANGED <<used, mask, nIN, nOUT, buffer, handler, out>>,
         \A v \in Users, s \in Slots :
           /\ InPart(v, s)' <=> InPart(v, s)
           /\ InPart(v, s) => done'[v] = done[v] /\ event'[v] = event[v],
         \A v \in Users \ {u} : Mid(v)' <=> Mid(v),
         Mid(u)' => used[slot'[u]] \/ Writing(slot'[u])
  PROVE  QInv' /\ UNCHANGED <<Queued, Asked, Purged, Unmasked, Taken>>
<1>0. /\ TInv /\ TInv' /\ HInv /\ SendInv /\ ResetInv
      /\ Sending \subseteq Senders /\ (Sending \subseteq Senders)'
  BY DEF QInv, Safe, SendInv
<1>1. Purged' = Purged /\ Unmasked' = Unmasked
  <2>1. \A v \in Users : (pc'[v] = "purge") <=> (pc[v] = "purge")
    OBVIOUS
  <2>2. \A v \in Users : /\ (pc'[v] = "mask") <=> (pc[v] = "mask")
                         /\ pc[v] = "mask" => slot'[v] = slot[v]
    OBVIOUS
  <2> QED BY <2>1, <2>2 DEF Purged, Unmasked
<1>2. \A s \in Slots : Live(s)' <=> Live(s)
  BY <1>1 DEF Live
<1>3. ASSUME NEW s \in Slots, Live(s)
      PROVE  Waiting(s)' = Waiting(s) /\ WriteInv(s)' /\ ReadInv(s)'
  <2>1. WriteInv(s) /\ ReadInv(s)
    BY <1>3 DEF QInv
  <2>2. PipeFrame(s)
    BY DEF PipeFrame
  <2>3. Whole(s)' = Whole(s) /\ Waiting(s)' = Waiting(s) /\ WriteInv(s)'
    BY <1>0, <2>1, <2>2, WriteSame
  <2>4. \A v \in Users : Reads(v, s)' <=> Reads(v, s)
    BY DEF Reads
  <2> QED BY <2>1, <2>3, <2>4, ReadSame
<1>4. ResetInv'
  <2>1. ASSUME NEW v \in Users, pc'[v] = "claim"
        PROVE  nIN'[slot'[v]] = 0 /\ nOUT'[slot'[v]] = 0 /\ ~Writing(slot[v])'
    <3>1. v # u /\ pc[v] = "claim" /\ slot'[v] = slot[v] /\ slot[v] \in Slots
      BY <1>0, <2>1 DEF TInv, PlaceOK
    <3>2. ~used[slot[v]] /\ ~Writing(slot[v]) /\ nIN[slot[v]] = 0 /\ nOUT[slot[v]] = 0
      BY <1>0, <3>1 DEF HInv, SlotsSound, ResetInv
    <3>3. ASSUME NEW t \in Users, slot'[t] = slot'[v] PROVE ~Mid(t)'
      <4>1. CASE t = u
        BY <3>1, <3>2, <3>3, <4>1
      <4>2. CASE t # u
        BY <3>1, <3>2, <3>3, <4>2 DEF Writing
      <4> QED BY <4>1, <4>2
    <3> QED BY <3>1, <3>2, <3>3 DEF Writing
  <2>2. ASSUME NEW v \in Users, pc'[v] = "purge" PROVE nOUT'[handler'[v]] = 0
    <3>1. pc[v] = "purge"
      BY <2>2
    <3> QED BY <1>0, <3>1 DEF ResetInv
  <2> QED BY <2>1, <2>2 DEF ResetInv, Writing, Mid
<1>5. QInv'
  BY <1>2, <1>3, <1>4 DEF QInv
<1>6. Queued' = Queued
  BY <1>1, <1>3 DEF Queued, Live
<1>7. Asked' = Asked /\ Taken' = Taken
  BY <1>1 DEF Asked, Taken, EventOf, UnitOf
<1> QED BY <1>1, <1>5, <1>6, <1>7

LEMMA StartSendQ ==
  ASSUME Safe, Safe', QInv, NEW u \in Users, NEW c \in Classes, StartSend(u, c)
  PROVE  QInv' /\ Queue!Step
<1> DEFINE e == [nr |-> sent + 1, class |-> c]
<1>0. TInv /\ TInv' /\ SendInv /\ Sending \subseteq Senders
  BY DEF QInv, Safe, SendInv
<1>1. /\ u \in Senders /\ pc[u] = "idle" /\ pc' = [pc EXCEPT ![u] = "send"]
      /\ event' = [event EXCEPT ![u] = e] /\ slot' = [slot EXCEPT ![u] = 0]
      /\ done' = [done EXCEPT ![u] = 0]
      /\ UNCHANGED <<used, mask, nIN, nOUT, buffer, ask, handler, out, reg>>
  BY DEF StartSend, At, pipes
<1>e. e \in Event
  BY <1>0, Sizes DEF StartSend, TInv, TypeOK, Event
<1> HIDE DEF e
<1>2. /\ pc'[u] = "send" /\ event'[u] = e /\ slot'[u] = 0 /\ done'[u] = 0
      /\ \A v \in Users \ {u} : pc'[v] = pc[v] /\ slot'[v] = slot[v]
  BY <1>0, <1>1 DEF TInv, TypeOK
<1>3. Sending = {}
  <2>1. \A v \in Sending : v = u
    BY <1>0, <1>1, EvtAssumption
  <2> QED BY <1>1, <2>1 DEF Sending
<1>4. Sending' = {u}
  <2>1. \A v \in Users : v \in Sending' <=> v = u
    BY <1>2, <1>3 DEF Sending
  <2>2. Sending' \subseteq Users
    BY DEF Sending
  <2> QED BY <2>1, <2>2
<1>5. \A v \in Users : ~Mid(v)' /\ ~Mid(v)
  BY <1>2, <1>3, <1>4 DEF Mid, Sending
<1>6. \A v \in Users, s \in Slots : ~InPart(v, s)' /\ ~InPart(v, s)
  BY <1>2, <1>3, <1>4 DEF InPart
<1>7. SendInv'
  BY <1>1, <1>4, <1>5 DEF SendInv, Mid
<1>8. QInv' /\ UNCHANGED <<Queued, Asked, Purged, Unmasked, Taken>>
  BY <1>1, <1>2, <1>5, <1>6, <1>7, SendQuiet
<1>9. Posting = NoEvent /\ Left = {}
  BY <1>0, <1>3, SenderIs
<1>10. Posting' = e /\ Left' = Slots
  <2>1. /\ Posting' = event'[u]
        /\ Left' = {s \in Slots : s > slot'[u] \/ (s = slot'[u] /\ done'[u] < EvtSize)}
    BY <1>4, <1>7, SenderNext DEF SendInv
  <2>2. \A s \in Slots : s > 0 \/ (s = 0 /\ 0 < EvtSize)
    BY Sizes DEF Slots
  <2> QED BY <1>2, <2>1, <2>2
<1>11. Queue!BeginPost(e)
  BY <1>8, <1>9, <1>10 DEF Queue!BeginPost
<1> QED BY <1>e, <1>8, <1>11 DEF Queue!Step

LEMMA LoadInQ ==
  ASSUME Safe, Safe', QInv, NEW u \in Users, LoadIn(u)
  PROVE  QInv' /\ UNCHANGED Queue!aVars
<1>0. TInv /\ TInv' /\ SendInv /\ Sending \subseteq Senders
  BY DEF QInv, Safe, SendInv
<1>1. /\ pc[u] = "send" /\ pc' = [pc EXCEPT ![u] = "store"] /\ done[u] < EvtSize
      /\ done[u] = 0 => slot[u] \in Wanted(event[u])
      /\ reg' = [reg EXCEPT ![u] = nIN[slot[u]]]
      /\ UNCHANGED <<used, mask, nIN, nOUT, buffer, slot, handler, out, event, done>>
  BY DEF LoadIn, At, pipes
<1>2. /\ pc'[u] = "store" /\ \A v \in Users \ {u} : pc'[v] = pc[v] /\ slot'[v] = slot[v]
      /\ reg'[u] = nIN[slot[u]] /\ u \in Sending
  BY <1>0, <1>1 DEF TInv, TypeOK, Sending
<1>3. Sending' = Sending /\ Sending = {u}
  <2>1. \A v \in Users : v \in Sending' <=> v \in Sending
    BY <1>1, <1>2 DEF Sending
  <2> QED BY <1>0, <1>2, <2>1, SenderIs DEF Sending
<1>4. \A v \in Users \ {u} : ~Mid(v)' /\ ~Mid(v)
  BY <1>3 DEF Mid, Sending
<1>5. done[u] \in 0..EvtSize /\ slot[u] \in Slots
  BY <1>0, <1>1 DEF TInv, TypeOK, PlaceOK
<1>6. (used[slot[u]] \/ Writing(slot[u])) /\ event[u].class \in mask[slot[u]]
  <2>1. CASE done[u] = 0
    BY <1>1, <2>1 DEF Wanted
  <2>2. CASE done[u] # 0
    <3>1. Mid(u)
      BY <1>1, <1>5, <2>2, Sizes DEF Mid
    <3> QED BY <1>0, <3>1 DEF SendInv, Writing
  <2> QED BY <2>1, <2>2
<1>7. SendInv'
  <2>1. \A v \in Users \ {u} : pc'[v] # "store"
    BY <1>4 DEF Mid
  <2> QED BY <1>0, <1>1, <1>2, <1>3, <1>4, <1>6, <2>1 DEF SendInv
<1>8. \A v \in Users, s \in Slots : InPart(v, s)' <=> InPart(v, s)
  BY <1>1, <1>3 DEF InPart
<1>9. QInv' /\ UNCHANGED <<Queued, Asked, Purged, Unmasked, Taken>>
  <2>1. used[slot'[u]] \/ Writing(slot'[u])
    BY <1>1, <1>6
  <2> QED BY <1>1, <1>2, <1>4, <1>7, <1>8, <2>1, SendQuiet
<1>10. Posting' = Posting /\ Left' = Left
  BY <1>1, <1>3 DEF Posting, Sent, Left
<1> QED BY <1>9, <1>10 DEF Queue!aVars

LEMMA NextHandlerQ ==
  ASSUME Safe, Safe', QInv, NEW u \in Users, NextHandler(u)
  PROVE  QInv' /\ AbstractStep
<1>0. TInv /\ TInv' /\ SendInv /\ Sending \subseteq Senders
  BY DEF QInv, Safe, SendInv
<1>x. PICK x \in Slots : x = slot[u]
  BY <1>0 DEF NextHandler, TInv, PlaceOK
<1> DEFINE last == x + 1 \notin Slots
<1>1. /\ pc[u] = "send" /\ (done[u] = EvtSize \/ (done[u] = 0 /\ x \notin Wanted(event[u])))
      /\ done' = [done EXCEPT ![u] = 0]
      /\ UNCHANGED <<used, mask, nIN, nOUT, buffer, handler, out, event, reg>>
  BY <1>x DEF NextHandler, pipes
<1>2. /\ ~last => slot' = [slot EXCEPT ![u] = x + 1] /\ pc' = pc
      /\ last => slot' = [slot EXCEPT ![u] = NONE] /\ pc' = [pc EXCEPT ![u] = "idle"]
  BY <1>x DEF NextHandler
<1>3. /\ \A v \in Users \ {u} : pc'[v] = pc[v] /\ slot'[v] = slot[v]
      /\ done'[u] = 0
      /\ IF last THEN pc'[u] = "idle" ELSE pc'[u] = "send" /\ slot'[u] = x + 1
  <2>1. CASE last
    BY <1>0, <1>1, <1>2, <2>1 DEF TInv, TypeOK
  <2>2. CASE ~last
    BY <1>0, <1>1, <1>2, <2>2 DEF TInv, TypeOK
  <2> QED BY <2>1, <2>2
<1> HIDE DEF last
<1>4. u \in Sending /\ Sending = {u}
  BY <1>0, <1>1, SenderIs DEF Sending
<1>5. IF last THEN Sending' = {} ELSE Sending' = {u}
  <2>1. \A v \in Users \ {u} : v \notin Sending'
    BY <1>3, <1>4 DEF Sending
  <2>2. u \in Sending' <=> ~last
    BY <1>3 DEF Sending
  <2>3. Sending' \subseteq Users
    BY DEF Sending
  <2> QED BY <2>1, <2>2, <2>3
<1>6. \A v \in Users : ~Mid(v)' /\ ~Mid(v)
  <2>1. ~Mid(u) /\ ~Mid(u)'
    <3>1. done[u] \notin 1..(EvtSize - 1) /\ done'[u] \notin 1..(EvtSize - 1)
      BY <1>1, <1>3, Sizes
    <3>2. pc'[u] # "store"
      BY <1>3
    <3> QED BY <1>1, <3>1, <3>2 DEF Mid
  <2>2. ASSUME NEW v \in Users \ {u} PROVE ~Mid(v) /\ ~Mid(v)'
    <3>1. pc[v] \notin {"send", "store"} /\ pc'[v] = pc[v]
      BY <1>3, <1>4 DEF Sending
    <3> QED BY <3>1 DEF Mid
  <2> QED BY <2>1, <2>2
<1>7. \A v \in Users, s \in Slots : ~InPart(v, s)' /\ ~InPart(v, s)
  <2>1. done[u] \notin 1..(EvtSize - 1) /\ done'[u] \notin 1..(EvtSize - 1)
    BY <1>1, <1>3, Sizes
  <2>2. \A v \in Users : (v \in Sending' \/ v \in Sending) => v = u
    BY <1>4, <1>5
  <2> QED BY <2>1, <2>2 DEF InPart
<1>8. SendInv'
  <2>1. Sending' \subseteq Senders
    BY <1>0, <1>4, <1>5
  <2>2. \A v \in Users : pc'[v] # "store"
    BY <1>6 DEF Mid
  <2> QED BY <1>6, <2>1, <2>2 DEF SendInv
<1>9. QInv' /\ UNCHANGED <<Queued, Asked, Purged, Unmasked, Taken>>
  <2>1. pc'[u] \in {"idle", "send", "store"}
    BY <1>3
  <2> QED BY <1>1, <1>3, <1>6, <1>7, <1>8, <2>1, SendQuiet
<1>10. Posting = event[u] /\ Left = {s \in Slots : s > x \/ (s = x /\ done[u] < EvtSize)}
  BY <1>0, <1>4, <1>x, SenderIs
<1>11. IF last THEN Posting' = NoEvent /\ Left' = {}
               ELSE Posting' = Posting /\ Left' = {s \in Slots : s > x}
  <2>1. CASE last
    BY <1>5, <1>8, <2>1, SenderNext DEF SendInv
  <2>2. CASE ~last
    <3>1. /\ Posting' = event'[u]
          /\ Left' = {s \in Slots : s > slot'[u] \/ (s = slot'[u] /\ done'[u] < EvtSize)}
      BY <1>5, <1>8, <2>2, SenderNext DEF SendInv
    <3>2. \A s \in Slots : (s > x + 1 \/ (s = x + 1 /\ 0 < EvtSize)) <=> s > x
      BY Sizes DEF Slots
    <3>3. slot'[u] = x + 1 /\ done'[u] = 0
      BY <1>3, <2>2
    <3> QED BY <1>1, <1>10, <2>2, <3>1, <3>2, <3>3
  <2> QED BY <2>1, <2>2
<1>12. last => \A s \in Slots : ~(s > x)
  BY Sizes DEF Slots, last
<1>13. CASE done[u] = EvtSize
  <2>1. Left = {s \in Slots : s > x}
    BY <1>10, <1>13, Sizes
  <2>2. CASE last
    <3>1. Left = {}
      BY <1>12, <2>1, <2>2
    <3>2. Queue!EndPost
      BY <1>9, <1>11, <2>2, <3>1 DEF Queue!EndPost
    <3> QED BY <1>9, <3>2 DEF Queue!Step, AbstractStep
  <2>3. CASE ~last
    <3>1. UNCHANGED Queue!aVars
      BY <1>9, <1>11, <2>1, <2>3 DEF Queue!aVars
    <3> QED BY <1>9, <3>1 DEF AbstractStep
  <2> QED BY <2>2, <2>3
<1>14. CASE done[u] = 0 /\ x \notin Wanted(event[u])
  <2>1. x \in Left /\ \A t \in Left : x <= t
    BY <1>10, <1>14, Sizes DEF Slots
  <2>2. Left \ {x} = {s \in Slots : s > x}
    BY <1>10 DEF Slots
  <2>3. Left' = Left \ {x} /\ (Posting' = Posting \/ (Left' = {} /\ Posting' = NoEvent))
    <3>1. CASE last
      <4>1. {s \in Slots : s > x} = {}
        BY <1>12, <3>1
      <4> QED BY <1>11, <2>2, <3>1, <4>1
    <3>2. CASE ~last
      BY <1>11, <2>2, <3>2
    <3> QED BY <3>1, <3>2
  <2>4. Posting.class \notin Asked[x]
    BY <1>10, <1>14 DEF Asked, Wanted
  <2>5. Queue!Deliver(x)
    BY <1>9, <2>1, <2>3, <2>4 DEF Queue!Deliver, Queue!With
  <2> QED BY <1>9, <2>5 DEF Queue!Step, AbstractStep
<1> QED BY <1>1, <1>13, <1>14

LEMMA RestKeep ==
  ASSUME NEW buf, NEW bug, NEW o \in Nat, NEW w \in Nat, NEW v, NEW seq,
         \A j \in 0..(w - 1) : bug[Wrap(o + j)] = buf[Wrap(o + j)],
         v % EvtSize = w % EvtSize, RestAt(buf, o, w, seq)
  PROVE  RestAt(bug, o, v, seq)
<1> DEFINE n == Len(seq)
           r == w % EvtSize
<1>0. EvtSize \in Nat \ {0}
  BY Sizes
<1>1. r \in Nat /\ r <= w
  <2> DEFINE x == (w \div EvtSize) * EvtSize
  <2>1. w \div EvtSize \in Nat /\ r \in 0..(EvtSize - 1) /\ w = x + r
    BY Parts
  <2>2. x \in Nat
    BY <1>0, <2>1
  <2> HIDE DEF x, r
  <2> QED BY <2>1, <2>2, <1>0
<1>2. v % EvtSize = r
  OBVIOUS
<1>3. CASE n \in {0, EvtSize} /\ r = 0
  BY <1>2, <1>3 DEF RestAt
<1>4. CASE /\ n \in 1..(EvtSize - 1) /\ r = EvtSize - n
           /\ \E e \in Event : /\ \A i \in 1..n : seq[i] = UnitOf(e, i)
                               /\ \A i \in 1..(EvtSize - n) : buf[Wrap(o + i - 1)] = UnitOf(e, n + i)
  <2>1. PICK e \in Event : /\ \A i \in 1..n : seq[i] = UnitOf(e, i)
                           /\ \A i \in 1..(EvtSize - n) : buf[Wrap(o + i - 1)] = UnitOf(e, n + i)
    BY <1>4
  <2> HIDE DEF r
  <2>2. ASSUME NEW i \in 1..(EvtSize - n) PROVE bug[Wrap(o + i - 1)] = UnitOf(e, n + i)
    <3> DEFINE j == i - 1
    <3>1. j \in 0..(w - 1) /\ o + i - 1 = o + j
      <4> HIDE DEF n
      <4> QED BY <1>0, <1>1, <1>4
    <3> HIDE DEF j
    <3>2. bug[Wrap(o + j)] = buf[Wrap(o + j)]
      BY <3>1
    <3>3. buf[Wrap(o + i - 1)] = UnitOf(e, n + i)
      BY <2>1
    <3> QED BY <3>1, <3>2, <3>3
  <2>3. \E q \in Event : /\ \A i \in 1..n : seq[i] = UnitOf(q, i)
                         /\ \A i \in 1..(EvtSize - n) : bug[Wrap(o + i - 1)] = UnitOf(q, n + i)
    BY <2>1, <2>2
  <2>4. n \in 1..(EvtSize - 1) /\ v % EvtSize = EvtSize - n
    BY <1>2, <1>4
  <2> QED BY <2>3, <2>4, Zenon DEF RestAt
<1> QED BY <1>3, <1>4 DEF RestAt

\* A step of a sender that adds behind what is waiting.
LEMMA ReadKeep ==
  ASSUME NEW s \in Slots, ReadInv(s), nOUT[s] \in Nat, Whole(s) \in Nat,
         Whole(s)' % EvtSize = Whole(s) % EvtSize, nOUT'[s] = nOUT[s],
         \A j \in 0..(Whole(s) - 1) :
           buffer'[s][Wrap(nOUT[s] + j)] = buffer[s][Wrap(nOUT[s] + j)],
         \A u \in Users : Reads(u, s)' <=> Reads(u, s), UNCHANGED out
  PROVE  ReadInv(s)'
<1>1. (\A u \in Users : ~Reads(u, s)') => Whole(s)' % EvtSize = 0
  BY DEF ReadInv
<1>2. ASSUME NEW u \in Users, Reads(u, s)' PROVE Resting(u, s)'
  <2>1. RestAt(buffer[s], nOUT[s], Whole(s), out[u])
    BY <1>2 DEF ReadInv, Resting
  <2>2. RestAt(buffer'[s], nOUT[s], Whole(s)', out[u])
    BY <2>1, RestKeep
  <2>3. RestAt(buffer'[s], nOUT'[s], Whole(s)', out'[u])
    BY <2>2
  <2> QED BY <2>3 DEF Resting, RestAt, Wrap, UnitOf
<1> QED BY <1>1, <1>2 DEF ReadInv

\* The units evt_send writes in an interrupt.
Copied(buf, bug, i, e) ==
  \A k \in 0..(PipeSize - 1) :
    bug[k] = IF Wrap(k - i) < EvtSize THEN UnitOf(e, Wrap(k - i) + 1) ELSE buf[k]

LEMMA IrqUnits ==
  ASSUME NEW buf, NEW bug, NEW o \in 0..(PipeSize - 1), NEW p \in 0..(PipeSize - 1),
         p + EvtSize < PipeSize, NEW e \in Event, Copied(buf, bug, Wrap(o + p), e)
  PROVE  /\ Wrap(Wrap(Wrap(o + p) + EvtSize) - o) = p + EvtSize
         /\ SameIn(buf, bug, o, p) /\ Grown(buf, bug, o, p, e)
<1> DEFINE i == Wrap(o + p)
<1>1. \A k \in 0..(PipeSize - 1) :
        bug[k] = IF Wrap(k - i) < EvtSize THEN UnitOf(e, Wrap(k - i) + 1) ELSE buf[k]
  BY DEF Copied
<1>2. /\ Wrap(Wrap(i + EvtSize) - o) = p + EvtSize
      /\ \A j \in 0..(p - 1) : ~(Wrap(Wrap(o + j) - i) < EvtSize)
      /\ \A k \in 1..EvtSize : Wrap(Wrap(o + p + k - 1) - i) = k - 1
  BY SpanEvent
<1> HIDE DEF i
<1>3. o \in Nat /\ p \in Nat /\ EvtSize \in Nat \ {0} /\ PipeSize \in Nat /\ o \in Int /\ p \in Int
  BY Sizes
<1>4. \A j \in 0..(p - 1) : bug[Wrap(o + j)] = buf[Wrap(o + j)]
  <2> SUFFICES ASSUME NEW j \in 0..(p - 1) PROVE bug[Wrap(o + j)] = buf[Wrap(o + j)]
    OBVIOUS
  <2> DEFINE a == o + j
  <2>1. a \in Int
    BY <1>3
  <2> HIDE DEF a
  <2>2. Wrap(a) \in 0..(PipeSize - 1)
    BY <2>1, WrapIs
  <2>3. ~(Wrap(Wrap(a) - i) < EvtSize)
    BY <1>2 DEF a
  <2>4. bug[Wrap(a)] = buf[Wrap(a)]
    BY <1>1, <2>2, <2>3, Zenon
  <2> QED BY <2>4 DEF a
<1>5. \A k \in 1..EvtSize : bug[Wrap(o + p + k - 1)] = UnitOf(e, k)
  <2> SUFFICES ASSUME NEW k \in 1..EvtSize PROVE bug[Wrap(o + p + k - 1)] = UnitOf(e, k)
    OBVIOUS
  <2> DEFINE a == o + p + k - 1
  <2>1. a \in Int
    BY <1>3
  <2>3. Wrap(Wrap(a) - i) = k - 1
    BY <1>2
  <2> HIDE DEF a
  <2>2. Wrap(a) \in 0..(PipeSize - 1)
    BY <2>1, WrapIs
  <2>4. Wrap(Wrap(a) - i) < EvtSize /\ Wrap(Wrap(a) - i) + 1 = k
    BY <1>3, <2>3
  <2>5. bug[Wrap(a)] = UnitOf(e, Wrap(Wrap(a) - i) + 1)
    BY <1>1, <2>2, <2>4, Zenon
  <2> QED BY <2>4, <2>5 DEF a
<1>6. SameIn(buf, bug, o, p) /\ EventAt(bug, o, p, e)
  BY <1>4, <1>5 DEF SameIn, EventAt
<1>7. Grown(buf, bug, o, p, e)
  <2>1. o \in Nat /\ p \in Nat
    BY <1>3
  <2> QED BY <2>1, <1>6, WaitGrow
<1> QED BY <1>2, <1>6, <1>7 DEF i

\* An interrupt adds an event to a pipe.
LEMMA IrqPipe ==
  ASSUME Safe, Safe', QInv, NEW c \in Classes, IrqSend(c), ~broken',
         NEW e, e = [nr |-> sent + 1, class |-> c], NEW s \in Slots, s \in Wanted(e), Live(s)
  PROVE  /\ Waiting(s)' = Append(Waiting(s), e)
         /\ WriteInv(s)' /\ ReadInv(s)'
<1> DEFINE o == nOUT[s]
           p == Whole(s)
           buf == buffer[s]
           bug == buffer'[s]
           i == nIN[s]
<1>0. TInv /\ TInv' /\ SendInv /\ Sending \subseteq Senders
  BY DEF Safe, QInv, SendInv
<1>1. /\ Room(s) /\ ~Writing(s) /\ UNCHANGED <<nOUT, pc, slot, handler, out>> /\ UNCHANGED sending
      /\ nIN'[s] = Wrap(i + EvtSize)
      /\ bug = [k \in 0..(PipeSize - 1) |->
                  IF Wrap(k - i) < EvtSize THEN UnitOf(e, Wrap(k - i) + 1) ELSE buf[k]]
  BY DEF IrqSend, Break
<1>e. e \in Event
  BY <1>0, Sizes DEF IrqSend, TInv, TypeOK, Event
<1>2. WriteInv(s) /\ ReadInv(s)
  BY DEF QInv
<1>3. \A v \in Users : ~InPart(v, s) /\ ~InPart(v, s)'
  BY <1>1, InPartMid DEF InPart, Sending, sending
<1>4. Partial(s) = 0 /\ Partial(s)' = 0
  <2>1. (Sending \subseteq Senders)'
    BY <1>0, <1>1 DEF Sending
  <2> QED BY <1>0, <1>3, <2>1, PartialNow, PartialNext
<1>5. /\ i \in 0..(PipeSize - 1) /\ o \in 0..(PipeSize - 1) /\ p \in 0..(PipeSize - 1)
      /\ Pending(s) = p /\ i = Wrap(o + p) /\ Waiting(s) = WaitOf(buf, o, p)
  <2>1. Partial(s) <= Pending(s)
    BY <1>2 DEF WriteInv
  <2>2. /\ i \in 0..(PipeSize - 1) /\ o \in 0..(PipeSize - 1)
        /\ Pending(s) \in 0..(PipeSize - 1) /\ i = Wrap(o + Pending(s))
        /\ p \in 0..(PipeSize - 1) /\ Pending(s) = p + Partial(s)
        /\ Waiting(s) = WaitOf(buf, o, p)
    BY <1>0, <2>1, WholeIs
  <2>3. Pending(s) = p
    BY <1>4, <2>2, Sizes
  <2> QED BY <2>2, <2>3
<1>6. p + EvtSize < PipeSize
  BY <1>1, <1>5 DEF Room
<1>7. WholeIn(buf, o, p)
  BY <1>2 DEF WriteInv
<1>8. Pending(s)' = Wrap(Wrap(i + EvtSize) - o)
  BY <1>1 DEF Pending, Wrap
<1>9. nOUT'[s] = o /\ bug = buffer'[s]
  BY <1>1
<1> HIDE DEF o, p, buf, bug, i
<1> DEFINE q == p + EvtSize
<1>10. q = p + EvtSize
  OBVIOUS
<1>11. /\ Wrap(Wrap(i + EvtSize) - o) = q
       /\ \A j \in 0..(p - 1) : bug[Wrap(o + j)] = buf[Wrap(o + j)]
       /\ WaitOf(bug, o, q) = Append(WaitOf(buf, o, p), e)
       /\ WholeIn(buf, o, p) => WholeIn(bug, o, q)
       /\ q % EvtSize = p % EvtSize
  <2>1. Copied(buf, bug, i, e)
    BY <1>1 DEF Copied
  <2>2. Copied(buf, bug, Wrap(o + p), e)
    BY <1>5, <2>1
  <2>3. /\ Wrap(Wrap(Wrap(o + p) + EvtSize) - o) = p + EvtSize
        /\ SameIn(buf, bug, o, p) /\ Grown(buf, bug, o, p, e)
    <3> HIDE DEF q
    <3> QED BY <1>5, <1>6, <1>e, <2>2, IrqUnits
  <2> QED BY <1>5, <2>3 DEF SameIn, Grown
<1> HIDE DEF q
<1>12. o \in Nat /\ p \in Nat /\ q \in Nat /\ EvtSize \in Nat \ {0} /\ PipeSize \in Nat
  BY <1>5, <1>10, Sizes
<1>15. Waiting(s)' = WaitOf(bug, o, q) /\ Whole(s)' = q
  <2>1. q \in 0..(PipeSize - 1) /\ Pending(s)' - Partial(s)' = q
    BY <1>4, <1>6, <1>8, <1>10, <1>11, <1>12
  <2>2. Waiting(s)' = WaitOf(buffer'[s], nOUT'[s], q) /\ Whole(s)' = q
    BY <2>1, WaitNext
  <2> QED BY <1>9, <2>2
<1>16. WriteInv(s)'
  <2>1. (Partial(s) <= Pending(s))'
    BY <1>4, <1>8, <1>11, <1>12
  <2>2. WholeIn(buffer[s], nOUT[s], Whole(s))'
    <3>1. WholeIn(buffer'[s], nOUT'[s], Whole(s)')
      BY <1>7, <1>9, <1>11, <1>15
    <3> QED BY <3>1 DEF WholeIn, Place, Wrap
  <2> QED BY <1>3, <2>1, <2>2 DEF WriteInv
<1>17. ReadInv(s)'
  <2>1. \A v \in Users : Reads(v, s)' <=> Reads(v, s)
    BY <1>1 DEF Reads
  <2>2. Whole(s)' % EvtSize = Whole(s) % EvtSize
    BY <1>11, <1>15, Zenon DEF p
  <2>3. /\ nOUT[s] \in Nat /\ Whole(s) \in Nat /\ nOUT'[s] = nOUT[s]
        /\ \A j \in 0..(Whole(s) - 1) :
             buffer'[s][Wrap(nOUT[s] + j)] = buffer[s][Wrap(nOUT[s] + j)]
    BY <1>9, <1>11, <1>12 DEF o, p, buf, bug
  <2> QED BY <1>1, <1>2, <2>1, <2>2, <2>3, ReadKeep
<1>18. Waiting(s)' = Append(Waiting(s), e)
  BY <1>5, <1>11, <1>15
<1> QED BY <1>16, <1>17, <1>18

LEMMA IrqSendQ ==
  ASSUME Safe, Safe', QInv, NEW c \in Classes, IrqSend(c), ~broken'
  PROVE  QInv' /\ Queue!Step
<1>0. TInv /\ TInv' /\ HInv /\ SendInv /\ ResetInv /\ Sending \subseteq Senders
  BY DEF QInv, Safe, SendInv
<1>e. PICK e : e = [nr |-> sent + 1, class |-> c]
  OBVIOUS
<1>1. /\ \A s \in Wanted(e) : s \in Slots /\ used[s] /\ ~Writing(s)
      /\ UNCHANGED <<used, mask, nOUT, pc, slot, handler, out>> /\ UNCHANGED sending
      /\ UNCHANGED <<event, reg, done>>
      /\ \A s \in Slots : s \notin Wanted(e) => nIN'[s] = nIN[s] /\ buffer'[s] = buffer[s]
  BY <1>e DEF IrqSend, Break, sending, Wanted
<1>2. e \in Event /\ e.class = c
  BY <1>0, <1>e, Sizes DEF IrqSend, TInv, TypeOK, Event
<1>3. /\ Sending' = Sending /\ Posting' = Posting /\ Left' = Left
      /\ Purged' = Purged /\ Unmasked' = Unmasked
  BY <1>1 DEF Sending, Posting, Sent, Left, Purged, Unmasked
<1>4. /\ \A v \in Users : Mid(v)' <=> Mid(v)
      /\ \A v \in Users, s \in Slots : InPart(v, s)' <=> InPart(v, s)
      /\ \A v \in Users, s \in Slots : Reads(v, s)' <=> Reads(v, s)
      /\ \A s \in Slots : Live(s)' <=> Live(s)
  BY <1>1, <1>3 DEF Mid, InPart, Reads, Live
<1>5. SendInv'
  <2>1. ASSUME NEW v \in Users, Mid(v)' PROVE nIN'[slot'[v]] = nIN[slot[v]]
    <3>1. Mid(v) /\ slot'[v] = slot[v]
      BY <1>1, <1>4, <2>1
    <3>2. slot[v] \in Slots /\ slot[v] \notin Wanted(e)
      BY <1>0, <1>1, <3>1 DEF Writing, Mid, TInv, PlaceOK
    <3> QED BY <1>1, <3>1, <3>2
  <2>2. \A v \in Users : pc'[v] = "store" => Mid(v)'
    BY DEF Mid
  <2> QED BY <1>0, <1>1, <1>3, <1>4, <2>1, <2>2 DEF SendInv
<1>6. ResetInv'
  <2>1. ASSUME NEW v \in Users, pc[v] = "claim"
        PROVE  nIN'[slot'[v]] = 0 /\ nOUT'[slot'[v]] = 0 /\ ~Writing(slot[v])'
    <3>1. slot[v] \in Slots /\ slot[v] \notin Wanted(e) /\ ~Writing(slot[v])
      BY <1>0, <1>1, <2>1 DEF HInv, SlotsSound, TInv, PlaceOK, ResetInv
    <3>2. nIN[slot[v]] = 0 /\ nOUT[slot[v]] = 0
      BY <1>0, <2>1 DEF ResetInv
    <3> QED BY <1>1, <1>4, <3>1, <3>2 DEF Writing
  <2>2. ASSUME NEW v \in Users, pc[v] = "purge" PROVE nOUT'[handler'[v]] = 0
    BY <1>0, <1>1, <2>2 DEF ResetInv
  <2> QED BY <1>1, <2>1, <2>2 DEF ResetInv, Writing, Mid
<1>7. ASSUME NEW s \in Slots, Live(s), s \in Wanted(e)
      PROVE  Waiting(s)' = Append(Waiting(s), e) /\ WriteInv(s)' /\ ReadInv(s)'
  BY <1>e, <1>7, IrqPipe
<1>8. ASSUME NEW s \in Slots, Live(s), s \notin Wanted(e)
      PROVE  Waiting(s)' = Waiting(s) /\ WriteInv(s)' /\ ReadInv(s)'
  <2>1. WriteInv(s) /\ ReadInv(s)
    BY <1>8 DEF QInv
  <2>2. PipeFrame(s)
    <3>1. nIN'[s] = nIN[s] /\ nOUT'[s] = nOUT[s] /\ buffer'[s] = buffer[s]
      BY <1>1, <1>8
    <3> QED BY <1>1, <1>4, <3>1 DEF PipeFrame
  <2>3. Whole(s)' = Whole(s) /\ Waiting(s)' = Waiting(s) /\ WriteInv(s)'
    BY <1>0, <1>3, <2>1, <2>2, WriteSame
  <2>4. /\ nOUT'[s] = nOUT[s] /\ buffer'[s] = buffer[s]
        /\ \A v \in Users : (Reads(v, s)' <=> Reads(v, s)) /\ out'[v] = out[v]
    BY <1>1, <1>4, <1>8
  <2> QED BY <2>1, <2>3, <2>4, ReadSame
<1>9. QInv'
  BY <1>4, <1>5, <1>6, <1>7, <1>8 DEF QInv
<1>10. Asked' = Asked /\ Taken' = Taken
  BY <1>1, <1>3 DEF Asked, Taken, EventOf, UnitOf
<1>11. ASSUME NEW s \in Slots PROVE Queued'[s] \in Queue!With(s, e)
  <2>1. CASE Live(s) /\ s \in Wanted(e)
    <3>1. Queued[s] = Waiting(s) /\ Queued'[s] = Waiting(s)'
      BY <1>4, <2>1 DEF Queued, Live
    <3>2. Queued'[s] = Append(Queued[s], e)
      BY <1>7, <2>1, <3>1
    <3>3. s \in Purged \cup Unmasked \/ e.class \in Asked[s]
      BY <2>1 DEF Asked, Wanted, Live
    <3> QED BY <3>2, <3>3 DEF Queue!With
  <2>2. CASE Live(s) /\ s \notin Wanted(e)
    <3>1. Queued[s] = Waiting(s) /\ Queued'[s] = Waiting(s)'
      BY <1>4, <2>2 DEF Queued, Live
    <3>2. Queued'[s] = Queued[s]
      BY <1>8, <2>2, <3>1
    <3>3. e.class \notin Asked[s]
      BY <2>2 DEF Asked, Wanted, Live
    <3> QED BY <3>2, <3>3 DEF Queue!With
  <2>3. CASE ~Live(s)
    <3>1. Queued[s] = <<>> /\ Queued'[s] = <<>>
      BY <1>4, <2>3 DEF Queued, Live
    <3>2. s \in Purged \/ e.class \notin Asked[s]
      BY <2>3 DEF Asked, Live
    <3> QED BY <3>1, <3>2 DEF Queue!With
  <2> QED BY <2>1, <2>2, <2>3
<1>12. Queue!Post(e)
  BY <1>3, <1>10, <1>11 DEF Queue!Post
<1> QED BY <1>2, <1>9, <1>12 DEF Queue!Step

\* The unit a thread writes, behind those of its event it has written.
Stored(buf, bug, i, e, n) ==
  \A k \in 0..(PipeSize - 1) : bug[k] = IF k = i THEN UnitOf(e, n) ELSE buf[k]

Begun(buf, o, w, d, e) == \A i \in 1..d : buf[Wrap(o + w + i - 1)] = UnitOf(e, i)

LEMMA StoreUnits ==
  ASSUME NEW buf, NEW bug, NEW o \in 0..(PipeSize - 1), NEW w \in Nat, NEW d \in Nat,
         w + d < PipeSize, NEW e,
         Stored(buf, bug, Wrap(o + (w + d)), e, d + 1), Begun(buf, o, w, d, e)
  PROVE  SameIn(buf, bug, o, w) /\ Begun(bug, o, w, d + 1, e)
<1>0. PipeSize \in Nat \ {0} /\ o \in Int
  BY Sizes
<1> DEFINE p == w + d
           i == Wrap(o + p)
<1>1. p \in 0..(PipeSize - 1) /\ i \in 0..(PipeSize - 1)
  <2> DEFINE a == o + p
  <2>1. a \in Int /\ p \in 0..(PipeSize - 1)
    BY <1>0
  <2> HIDE DEF a, p
  <2> QED BY <2>1, WrapIs DEF a
<1>2. bug[i] = UnitOf(e, d + 1)
  <2> HIDE DEF i
  <2> QED BY <1>1 DEF Stored, i
<1>3. ASSUME NEW j \in 0..(p - 1) PROVE bug[Wrap(o + j)] = buf[Wrap(o + j)]
  <2>1. j \in 0..(PipeSize - 1) /\ j # p /\ o + j \in Int
    BY <1>0, <1>1
  <2> HIDE DEF p
  <2>2. Wrap(o + j) # Wrap(o + p)
    BY <1>0, <1>1, <2>1, PlacesApart
  <2> DEFINE a == o + j
  <2>3. Wrap(a) \in 0..(PipeSize - 1)
    <3> HIDE DEF a
    <3> QED BY <2>1, WrapIs DEF a
  <2>4. \A k \in 0..(PipeSize - 1) : k # i => bug[k] = buf[k]
    <3> HIDE DEF i
    <3> QED BY DEF Stored, i, p
  <2> HIDE DEF a, i
  <2>5. Wrap(a) # i
    BY <2>2 DEF a, i
  <2>6. bug[Wrap(a)] = buf[Wrap(a)]
    BY <2>3, <2>4, <2>5
  <2> QED BY <2>6 DEF a
<1>4. SameIn(buf, bug, o, w)
  <2>1. \A j \in 0..(w - 1) : j \in 0..(p - 1)
    BY <1>0
  <2> HIDE DEF p
  <2> QED BY <1>3, <2>1 DEF SameIn
<1>5. ASSUME NEW k \in 1..(d + 1) PROVE bug[Wrap(o + w + k - 1)] = UnitOf(e, k)
  <2>1. CASE k = d + 1
    <3>1. o + w + k - 1 = o + p
      BY <1>0, <2>1
    <3> QED BY <1>2, <2>1, <3>1
  <2>2. CASE k # d + 1
    <3> DEFINE j == w + k - 1
    <3>1. j \in 0..(p - 1) /\ o + w + k - 1 = o + j /\ k \in 1..d
      BY <1>0, <2>2
    <3> HIDE DEF j, p
    <3>2. bug[Wrap(o + j)] = buf[Wrap(o + j)]
      BY <1>3, <3>1
    <3>3. buf[Wrap(o + w + k - 1)] = UnitOf(e, k)
      BY <3>1 DEF Begun
    <3> QED BY <3>1, <3>2, <3>3
  <2> QED BY <2>1, <2>2
<1> QED BY <1>4, <1>5 DEF Begun

\* A thread adds a unit to a pipe: with the last one there is one event more.
LEMMA StorePipe ==
  ASSUME Safe, Safe', QInv, SendInv', NEW u \in Users, StoreUnit(u), ~broken',
         NEW x \in Slots, x = slot[u], Live(x),
         Sending = {u}, Sending' = {u}, done'[u] = done[u] + 1
  PROVE  /\ WriteInv(x)' /\ ReadInv(x)'
         /\ done[u] + 1 # EvtSize => Waiting(x)' = Waiting(x)
         /\ done[u] + 1 = EvtSize => Waiting(x)' = Append(Waiting(x), event[u])
<1> DEFINE o == nOUT[x]
           i == nIN[x]
           w == Whole(x)
           d == done[u]
           e == event[u]
           buf == buffer[x]
           bug == buffer'[x]
<1>0. /\ TInv /\ TInv' /\ SendInv /\ Sending \subseteq Senders /\ (Sending \subseteq Senders)'
      /\ EvtSize \in Nat \ {0} /\ PipeSize \in Nat \ {0}
  BY Sizes DEF QInv, Safe, SendInv
<1>1. /\ pc[u] = "store" /\ d \in 0..(EvtSize - 1) /\ e \in Event /\ reg[u] = i
      /\ UNCHANGED <<nOUT, event, handler, out>> /\ slot'[u] = x
      /\ Wrap(i + 1) # o
  <2>1. /\ pc[u] = "store" /\ UNCHANGED <<nOUT, event, handler, out, slot>>
        /\ Wrap(reg[u] + 1) # nOUT[slot[u]]
    BY DEF StoreUnit, At, Break
  <2>2. reg[u] = i
    BY <1>0, <2>1 DEF SendInv
  <2>3. d \in 0..EvtSize /\ d < EvtSize /\ e \in Event
    BY <1>0, <2>1 DEF TInv, TypeOK, PlaceOK
  <2>4. d \in 0..(EvtSize - 1)
    <3> HIDE DEF d
    <3> QED BY <1>0, <2>3
  <2> QED BY <2>1, <2>2, <2>3, <2>4
<1>2. /\ nIN'[x] = Wrap(i + 1)
      /\ Stored(buf, bug, i, e, d + 1)
  <2>1. /\ nIN' = [nIN EXCEPT ![x] = Wrap(i + 1)]
        /\ buffer' = [buffer EXCEPT ![x][i] = UnitOf(e, d + 1)]
    BY <1>1 DEF StoreUnit
  <2>2. /\ x \in DOMAIN nIN /\ x \in DOMAIN buffer /\ DOMAIN buffer[x] = 0..(PipeSize - 1)
        /\ i \in 0..(PipeSize - 1)
    BY <1>0 DEF TInv, TypeOK
  <2> HIDE DEF d, e, i
  <2> QED BY <2>1, <2>2 DEF Stored
<1>3. WriteInv(x) /\ ReadInv(x)
  BY DEF QInv
<1>4. \A v \in Users : (InPart(v, x) => v = u) /\ (InPart(v, x)' => v = u)
  BY DEF InPart
<1>5. /\ InPart(u, x) <=> d \in 1..(EvtSize - 1)
      /\ InPart(u, x)' <=> d + 1 \in 1..(EvtSize - 1)
  BY <1>1 DEF InPart
<1>6. Partial(x) = d /\ Begun(buf, o, w, d, e)
  <2>1. CASE d = 0
    <3>1. ~InPart(u, x)
      BY <1>5, <2>1
    <3>2. \A v \in Users : ~InPart(v, x)
      BY <1>4, <3>1
    <3>3. Partial(x) = 0
      BY <1>0, <3>2, PartialNow
    <3> QED BY <2>1, <3>3 DEF Begun
  <2>2. CASE d # 0
    <3>1. InPart(u, x)
      BY <1>0, <1>1, <1>5, <2>2
    <3>2. Partial(x) = done[u]
      BY <1>0, <3>1, PartialNow
    <3>3. \A k \in 1..done[u] : buffer[x][Wrap(nOUT[x] + Whole(x) + k - 1)] = UnitOf(event[u], k)
      BY <1>3, <3>1 DEF WriteInv
    <3> QED BY <3>2, <3>3 DEF Begun
  <2> QED BY <2>1, <2>2
<1>7. Partial(x)' = IF d + 1 = EvtSize THEN 0 ELSE d + 1
  <2>1. CASE d + 1 = EvtSize
    <3>1. ~InPart(u, x)'
      BY <1>0, <1>5, <2>1
    <3>2. \A v \in Users : ~InPart(v, x)'
      BY <1>4, <3>1
    <3>3. Partial(x)' = 0
      BY <1>0, <3>2, PartialNext
    <3> QED BY <2>1, <3>3
  <2>2. CASE d + 1 # EvtSize
    <3>1. InPart(u, x)'
      BY <1>0, <1>1, <1>5, <2>2
    <3>2. Partial(x)' = done'[u]
      BY <1>0, <3>1, PartialNext
    <3> QED BY <2>2, <3>2
  <2> QED BY <2>1, <2>2
<1>8. /\ i \in 0..(PipeSize - 1) /\ o \in 0..(PipeSize - 1) /\ w \in 0..(PipeSize - 1)
      /\ Pending(x) = w + d /\ Pending(x) \in 0..(PipeSize - 1) /\ i = Wrap(o + Pending(x))
      /\ Waiting(x) = WaitOf(buf, o, w)
  <2>1. Partial(x) <= Pending(x)
    BY <1>3 DEF WriteInv
  <2>2. /\ i \in 0..(PipeSize - 1) /\ o \in 0..(PipeSize - 1) /\ w \in 0..(PipeSize - 1)
        /\ Pending(x) \in 0..(PipeSize - 1) /\ i = Wrap(o + Pending(x))
        /\ Pending(x) = w + Partial(x) /\ Waiting(x) = WaitOf(buf, o, w)
    BY <1>0, <2>1, WholeIs
  <2> QED BY <1>6, <2>2
<1>9. WholeIn(buf, o, w)
  BY <1>3 DEF WriteInv
<1>10. nOUT'[x] = o /\ event'[u] = e
  BY <1>1
<1>11. Pending(x)' = Wrap(Wrap(i + 1) - o)
  BY <1>1, <1>2 DEF Pending, Wrap
<1> HIDE DEF o, i, w, d, e, buf, bug
<1>12. /\ o \in Nat /\ w \in Nat /\ d \in Nat /\ o \in Int
       /\ w + d < PipeSize /\ w + d \in 0..(PipeSize - 1)
  BY <1>0, <1>1, <1>8
<1>13. SameIn(buf, bug, o, w) /\ Begun(bug, o, w, d + 1, e)
  <2>1. Stored(buf, bug, Wrap(o + (w + d)), e, d + 1)
    BY <1>2, <1>8
  <2> QED BY <1>6, <1>8, <1>12, <2>1, StoreUnits
<1>14. w + d + 1 \in 0..(PipeSize - 1) /\ Pending(x)' = w + d + 1
  <2> DEFINE p == w + d
  <2>1. p \in 0..(PipeSize - 1) /\ i = Wrap(o + p)
    BY <1>8, <1>12
  <2> HIDE DEF p
  <2>2. p + 1 \in 0..(PipeSize - 1) /\ Wrap(i + 1) = Wrap(o + (p + 1))
    BY <1>1, <1>8, <2>1, SpanMore DEF o
  <2> DEFINE q == p + 1
  <2>3. q \in 0..(PipeSize - 1) /\ Wrap(i + 1) = Wrap(o + q)
    BY <2>2
  <2> HIDE DEF q
  <2>4. Wrap(Wrap(o + q) - o) = q
    BY <1>12, <2>3, SpanOf
  <2>5. Pending(x)' = q /\ q = p + 1
    BY <1>11, <2>3, <2>4 DEF q
  <2> QED BY <2>3, <2>5 DEF p
<1>15. \A j \in 0..(w - 1) : bug[Wrap(o + j)] = buf[Wrap(o + j)]
  BY <1>13 DEF SameIn
<1>16. \A v \in Users : Reads(v, x)' <=> Reads(v, x)
  <2>1. \A v \in Users : (pc'[v] = "read") <=> (pc[v] = "read")
    BY <1>0 DEF StoreUnit, At, TInv, TypeOK
  <2> QED BY <1>1, <2>1 DEF Reads
<1>17. CASE d + 1 # EvtSize
  <2>1. Partial(x)' = d + 1 /\ Pending(x)' - Partial(x)' = w
    BY <1>7, <1>12, <1>14, <1>17
  <2>2. Waiting(x)' = WaitOf(buffer'[x], nOUT'[x], w) /\ Whole(x)' = w
    BY <1>8, <2>1, WaitNext
  <2>3. WaitOf(bug, o, w) = WaitOf(buf, o, w) /\ WholeIn(bug, o, w)
    BY ONLY <1>9, <1>12, <1>15, WaitSame
  <2>4. Waiting(x)' = Waiting(x)
    BY <1>8, <1>10, <2>2, <2>3 DEF bug
  <2>5. WriteInv(x)'
    <3>1. (Partial(x) <= Pending(x))'
      BY <1>12, <1>14, <2>1
    <3>2. WholeIn(buffer[x], nOUT[x], Whole(x))'
      <4>1. WholeIn(buffer'[x], nOUT'[x], Whole(x)')
        BY <1>10, <2>2, <2>3 DEF bug
      <4> QED BY <4>1 DEF WholeIn, Place, Wrap
    <3>3. ASSUME NEW v \in Users, InPart(v, x)', NEW k \in 1..done'[v]
          PROVE  buffer'[x][Wrap(nOUT'[x] + Whole(x)' + k - 1)] = UnitOf(event'[v], k)
      <4>1. v = u /\ k \in 1..(d + 1)
        BY <1>4, <3>3 DEF d
      <4>2. bug[Wrap(o + w + k - 1)] = UnitOf(e, k)
        BY <1>13, <4>1 DEF Begun
      <4> QED BY <1>10, <2>2, <4>1, <4>2 DEF bug
    <3> QED BY <3>1, <3>2, <3>3 DEF WriteInv, Wrap, UnitOf
  <2>6. ReadInv(x)'
    <3>1. nOUT[x] \in Nat /\ Whole(x) \in Nat /\ Whole(x)' % EvtSize = Whole(x) % EvtSize
          /\ nOUT'[x] = nOUT[x]
          /\ \A j \in 0..(Whole(x) - 1) :
               buffer'[x][Wrap(nOUT[x] + j)] = buffer[x][Wrap(nOUT[x] + j)]
      BY <1>10, <1>12, <1>15, <2>2 DEF o, w, buf, bug
    <3> QED BY <1>1, <1>3, <1>16, <3>1, ReadKeep
  <2> QED BY <1>17, <2>4, <2>5, <2>6 DEF d
<1>18. CASE d + 1 = EvtSize
  <2> DEFINE q == w + EvtSize
  <2>1. /\ q \in 0..(PipeSize - 1) /\ Pending(x)' - Partial(x)' = q
        /\ Partial(x)' = 0 /\ Pending(x)' \in Nat
    BY <1>0, <1>7, <1>12, <1>14, <1>18
  <2>2. Grown(buf, bug, o, w, e)
    <3>1. EventAt(bug, o, w, e)
      BY <1>13, <1>18 DEF Begun, EventAt
    <3> QED BY <1>1, <1>12, <1>13, <3>1, WaitGrow DEF e
  <2>3. /\ WaitOf(bug, o, q) = Append(WaitOf(buf, o, w), e)
        /\ WholeIn(bug, o, q) /\ q % EvtSize = w % EvtSize
    BY <1>9, <2>2 DEF Grown
  <2> HIDE DEF q
  <2>4. Waiting(x)' = WaitOf(buffer'[x], nOUT'[x], q) /\ Whole(x)' = q
    BY <2>1, WaitNext
  <2>5. Waiting(x)' = Append(Waiting(x), e)
    BY <1>8, <1>10, <2>3, <2>4 DEF bug
  <2>6. WriteInv(x)'
    <3>1. (Partial(x) <= Pending(x))'
      BY <2>1
    <3>2. WholeIn(buffer[x], nOUT[x], Whole(x))'
      <4>1. WholeIn(buffer'[x], nOUT'[x], Whole(x)')
        BY <1>10, <2>3, <2>4 DEF bug
      <4> QED BY <4>1 DEF WholeIn, Place, Wrap
    <3>3. \A v \in Users : ~InPart(v, x)'
      BY <1>0, <1>4, <1>5, <1>18 DEF d
    <3> QED BY <3>1, <3>2, <3>3 DEF WriteInv
  <2>7. ReadInv(x)'
    <3>1. nOUT[x] \in Nat /\ Whole(x) \in Nat /\ Whole(x)' % EvtSize = Whole(x) % EvtSize
          /\ nOUT'[x] = nOUT[x]
          /\ \A j \in 0..(Whole(x) - 1) :
               buffer'[x][Wrap(nOUT[x] + j)] = buffer[x][Wrap(nOUT[x] + j)]
      BY <1>10, <1>12, <1>15, <2>3, <2>4 DEF o, w, buf, bug
    <3> QED BY <1>1, <1>3, <1>16, <3>1, ReadKeep
  <2> QED BY <1>18, <2>5, <2>6, <2>7 DEF d, e
<1> QED BY <1>17, <1>18

LEMMA StoreUnitQ ==
  ASSUME Safe, Safe', QInv, NEW u \in Users, StoreUnit(u), ~broken'
  PROVE  QInv' /\ AbstractStep
<1>0. TInv /\ TInv' /\ HInv /\ SendInv /\ ResetInv /\ Sending \subseteq Senders
  BY DEF QInv, Safe, SendInv
<1>x. PICK x \in Slots : x = slot[u]
  BY <1>0 DEF StoreUnit, At, TInv, PlaceOK
<1>1. /\ pc[u] = "store" /\ pc' = [pc EXCEPT ![u] = "send"]
      /\ done' = [done EXCEPT ![u] = @ + 1]
      /\ UNCHANGED <<used, mask, nOUT, slot, handler, out, event, reg>>
      /\ \A s \in Slots \ {x} : nIN'[s] = nIN[s] /\ buffer'[s] = buffer[s]
  BY <1>0, <1>x DEF StoreUnit, At, TInv, TypeOK
<1>2. /\ pc'[u] = "send" /\ done'[u] = done[u] + 1
      /\ \A v \in Users \ {u} : pc'[v] = pc[v] /\ done'[v] = done[v]
  BY <1>0, <1>1 DEF TInv, TypeOK
<1>3. Sending = {u} /\ Sending' = {u}
  <2>1. u \in Sending
    BY <1>1 DEF Sending
  <2>2. Sending = {u}
    BY <1>0, <2>1, SenderIs
  <2>3. \A v \in Users : v \in Sending' <=> v \in Sending
    BY <1>1, <1>2 DEF Sending
  <2> QED BY <2>2, <2>3 DEF Sending
<1>4. \A v \in Users \ {u} : ~Mid(v)' /\ ~Mid(v)
  BY <1>3 DEF Mid, Sending
<1>5. Mid(u) /\ Writing(x) /\ event[u].class \in mask[x]
  <2>1. Mid(u)
    BY <1>1 DEF Mid
  <2> QED BY <1>0, <1>x, <2>1 DEF Writing, SendInv
<1>6. SendInv'
  <2>1. \A v \in Users : pc'[v] # "store"
    BY <1>2, <1>4 DEF Mid
  <2> QED BY <1>0, <1>1, <1>3, <1>4, <1>5, <1>x, <2>1 DEF SendInv
<1>7. ResetInv'
  <2>1. ASSUME NEW v \in Users, pc'[v] = "claim"
        PROVE  nIN'[slot'[v]] = 0 /\ nOUT'[slot'[v]] = 0 /\ ~Writing(slot[v])'
    <3>1. v # u /\ pc[v] = "claim"
      BY <1>2, <2>1
    <3>2. slot[v] \in Slots /\ nIN[slot[v]] = 0 /\ nOUT[slot[v]] = 0 /\ ~Writing(slot[v])
      BY <1>0, <3>1 DEF ResetInv, TInv, PlaceOK
    <3>3. slot[v] # x
      BY <1>5, <3>2
    <3>4. ASSUME NEW t \in Users, slot'[t] = slot'[v] PROVE ~Mid(t)'
      <4>1. t # u
        BY <1>1, <1>x, <3>3, <3>4
      <4> QED BY <1>4, <4>1
    <3> QED BY <1>1, <3>2, <3>3, <3>4 DEF Writing
  <2>2. ASSUME NEW v \in Users, pc'[v] = "purge" PROVE nOUT'[handler'[v]] = 0
    <3>1. pc[v] = "purge"
      BY <1>2, <2>2
    <3> QED BY <1>0, <1>1, <3>1 DEF ResetInv
  <2> QED BY <2>1, <2>2 DEF ResetInv, Writing, Mid
<1>8. Purged' = Purged /\ Unmasked' = Unmasked
  <2>1. \A v \in Users : /\ (pc'[v] = "purge") <=> (pc[v] = "purge")
                         /\ (pc'[v] = "mask") <=> (pc[v] = "mask")
    BY <1>1, <1>2
  <2> QED BY <1>1, <2>1 DEF Purged, Unmasked
<1>9. \A s \in Slots : Live(s)' <=> Live(s)
  BY <1>1, <1>8 DEF Live
<1>10. ASSUME NEW s \in Slots \ {x}, Live(s)
       PROVE  Waiting(s)' = Waiting(s) /\ WriteInv(s)' /\ ReadInv(s)'
  <2>1. WriteInv(s) /\ ReadInv(s)
    BY <1>10 DEF QInv
  <2>2. \A v \in Users : ~InPart(v, s)' /\ ~InPart(v, s)
    BY <1>1, <1>3, <1>x DEF InPart
  <2>3. PipeFrame(s)
    BY <1>1, <2>2 DEF PipeFrame
  <2>4. Whole(s)' = Whole(s) /\ Waiting(s)' = Waiting(s) /\ WriteInv(s)'
    BY <1>0, <1>3, <2>1, <2>3, WriteSame
  <2>5. \A v \in Users : Reads(v, s)' <=> Reads(v, s)
    <3>1. \A v \in Users : (pc'[v] = "read") <=> (pc[v] = "read")
      BY <1>1, <1>2
    <3> QED BY <1>1, <3>1 DEF Reads
  <2> QED BY <1>1, <2>1, <2>4, <2>5, ReadSame
<1>11. ASSUME Live(x)
       PROVE  /\ WriteInv(x)' /\ ReadInv(x)'
              /\ done[u] + 1 # EvtSize => Waiting(x)' = Waiting(x)
              /\ done[u] + 1 = EvtSize => Waiting(x)' = Append(Waiting(x), event[u])
  BY <1>2, <1>3, <1>6, <1>11, <1>x, StorePipe
<1>12. QInv'
  BY <1>6, <1>7, <1>9, <1>10, <1>11 DEF QInv
<1>13. Asked' = Asked /\ Taken' = Taken
  BY <1>1, <1>8 DEF Asked, Taken, EventOf, UnitOf
<1>14. \A s \in Slots \ {x} : Queued'[s] = Queued[s]
  BY <1>9, <1>10 DEF Queued, Live
<1>15. Posting = event[u] /\ Left = {s \in Slots : s > x \/ (s = x /\ done[u] < EvtSize)}
  BY <1>0, <1>3, <1>x, SenderIs
<1>16. Posting' = Posting /\ Left' = {s \in Slots : s > x \/ (s = x /\ done[u] + 1 < EvtSize)}
  <2>1. /\ Posting' = event'[u]
        /\ Left' = {s \in Slots : s > slot'[u] \/ (s = slot'[u] /\ done'[u] < EvtSize)}
    BY <1>3, <1>6, SenderNext DEF SendInv
  <2> QED BY <1>1, <1>2, <1>15, <1>x, <2>1
<1>17. done[u] \in Nat /\ done[u] < EvtSize /\ EvtSize \in Nat
  BY <1>0, <1>1, Sizes DEF TInv, TypeOK, PlaceOK
<1>18. CASE done[u] + 1 # EvtSize
  <2>1. Left' = Left
    <3>1. done[u] + 1 < EvtSize
      BY <1>17, <1>18
    <3> QED BY <1>15, <1>16, <1>17, <3>1
  <2>2. Queued'[x] = Queued[x]
    BY <1>9, <1>11, <1>18 DEF Queued, Live
  <2>3. Queued' = Queued
    BY <1>14, <2>2 DEF Queued
  <2>4. UNCHANGED Queue!aVars
    BY <1>8, <1>13, <1>16, <2>1, <2>3 DEF Queue!aVars
  <2> QED BY <1>12, <2>4 DEF AbstractStep
<1>19. CASE done[u] + 1 = EvtSize
  <2>1. x \in Left /\ \A t \in Left : x <= t
    BY <1>15, <1>17 DEF Slots
  <2>2. Left' = Left \ {x}
    <3>1. /\ ~(done[u] + 1 < EvtSize) /\ done[u] < EvtSize
          /\ \A s \in Slots : (s > x) <=> ((s > x \/ s = x) /\ s # x)
      BY <1>17, <1>19 DEF Slots
    <3> QED BY <1>15, <1>16, <3>1
  <2>3. Queued'[x] \in Queue!With(x, Posting)
    <3>1. CASE Live(x)
      <4>1. Queued'[x] = Append(Queued[x], Posting)
        BY <1>9, <1>11, <1>15, <1>19, <3>1 DEF Queued, Live
      <4>2. x \in Purged \cup Unmasked \/ Posting.class \in Asked[x]
        BY <1>5, <1>15, <3>1 DEF Asked, Live
      <4> QED BY <4>1, <4>2 DEF Queue!With
    <3>2. CASE ~Live(x)
      <4>1. Queued[x] = <<>> /\ Queued'[x] = <<>>
        BY <1>9, <3>2 DEF Queued, Live
      <4>2. x \in Purged \/ Posting.class \notin Asked[x]
        BY <3>2 DEF Asked, Live
      <4> QED BY <4>1, <4>2 DEF Queue!With
    <3> QED BY <3>1, <3>2
  <2>4. Queue!Deliver(x)
    BY <1>8, <1>13, <1>14, <1>16, <2>1, <2>2, <2>3 DEF Queue!Deliver
  <2> QED BY <1>12, <2>4 DEF Queue!Step, AbstractStep
<1> QED BY <1>18, <1>19

(* --- every handler is a queue ------------------------------------------- *)

LEMMA InitQ ==
  ASSUME Init
  PROVE  QInv /\ Queue!Start
<1>1. /\ \A u \in Users : pc[u] = "idle" /\ out[u] = <<>>
      /\ \A s \in Slots : ~used[s]
  BY DEF Init
<1>2. Sending = {} /\ Purged = {} /\ Unmasked = {} /\ \A u \in Users : ~Mid(u)
  BY <1>1 DEF Sending, Purged, Unmasked, Mid
<1>3. QInv
  BY <1>1, <1>2 DEF QInv, SendInv, ResetInv, Live
<1>4. Posting = NoEvent /\ Left = {}
  <2>1. Sending \subseteq Senders
    BY <1>2
  <2> QED BY <1>2, <2>1, SenderIs
<1>5. /\ Queued = [s \in Slots |-> <<>>] /\ Asked = [s \in Slots |-> {}]
      /\ Taken = [u \in Users |-> NoEvent]
  BY <1>1 DEF Queued, Asked, Taken, EventOf
<1>6. Queue!Start
  BY <1>2, <1>4, <1>5 DEF Queue!Start
<1> QED BY <1>3, <1>6

LEMMA StutterQ ==
  ASSUME Safe, Safe', QInv, UNCHANGED vars
  PROVE  QInv' /\ UNCHANGED Queue!aVars
<1>1. /\ UNCHANGED <<used, mask, nIN, nOUT, buffer, pc, slot, handler, out>>
      /\ UNCHANGED <<event, reg, done>>
  BY DEF vars, pipes, sending
<1>2. /\ Sending' = Sending /\ Posting' = Posting /\ Left' = Left
      /\ Purged' = Purged /\ Unmasked' = Unmasked /\ Asked' = Asked /\ Taken' = Taken
  BY <1>1 DEF Sending, Posting, Sent, Left, Purged, Unmasked, Asked, Taken, EventOf, UnitOf
<1>3. TInv /\ TInv' /\ SendInv /\ ResetInv /\ Sending \subseteq Senders
  BY DEF QInv, Safe, SendInv
<1>4. SendInv' /\ ResetInv'
  <2>1. /\ \A v \in Users : Mid(v)' <=> Mid(v)
        /\ \A v \in Users : Writing(slot[v])' <=> Writing(slot[v])
    BY <1>1 DEF Mid, Writing
  <2>2. SendInv'
    BY <1>1, <1>2, <1>3, <2>1 DEF SendInv
  <2>3. ResetInv'
    BY <1>1, <1>3, <2>1 DEF ResetInv
  <2> QED BY <2>2, <2>3
<1>5. ASSUME NEW s \in Slots, Live(s)
      PROVE  Waiting(s)' = Waiting(s) /\ WriteInv(s)' /\ ReadInv(s)'
  <2>1. WriteInv(s) /\ ReadInv(s)
    BY <1>5 DEF QInv
  <2>2. PipeFrame(s)
    BY <1>1, <1>2 DEF PipeFrame, InPart
  <2>3. Whole(s)' = Whole(s) /\ Waiting(s)' = Waiting(s) /\ WriteInv(s)'
    BY <1>2, <1>3, <2>1, <2>2, WriteSame
  <2>4. \A v \in Users : Reads(v, s)' <=> Reads(v, s)
    BY <1>1 DEF Reads
  <2> QED BY <1>1, <2>1, <2>3, <2>4, ReadSame
<1>6. \A s \in Slots : Live(s)' <=> Live(s)
  BY <1>1, <1>2 DEF Live
<1>7. QInv' /\ Queued' = Queued
  BY <1>4, <1>5, <1>6 DEF QInv, Queued, Live
<1> QED BY <1>2, <1>7 DEF Queue!aVars

LEMMA NextQ ==
  ASSUME Apart = TRUE, Safe, Safe', QInv, [Next]_vars, ~broken'
  PROVE  QInv' /\ AbstractStep
<1>1. CASE \E c \in Classes : IrqSend(c)
  BY <1>1, IrqSendQ DEF AbstractStep
<1>2. ASSUME NEW u \in Users, UserStep(u)
      PROVE  QInv' /\ AbstractStep
  <2>1. CASE \E m \in Masks : FindFree(u, m)
    BY <2>1, FindFreeQ DEF AbstractStep
  <2>2. CASE ResetPipe(u)
    BY <2>2, ResetPipeQ DEF AbstractStep
  <2>3. CASE Claim(u)
    BY <2>3, ClaimQ DEF AbstractStep
  <2>4. CASE SetMask(u)
    BY <2>4, SetMaskQ DEF AbstractStep
  <2>5. CASE evt_freeHandler(u)
    BY <2>5, FreeQ DEF AbstractStep
  <2>6. CASE evt_getFullStatus(u)
    BY <2>6, StatusQ DEF AbstractStep
  <2>7. CASE pipeRead(u)
    BY <2>7, ReadUnitQ, ReadEndQ DEF AbstractStep
  <2>8. CASE evt_purgeHandler(u)
    BY <2>8, PurgeQ DEF AbstractStep
  <2>9. CASE PurgeIn(u)
    BY <2>9, PurgeInQ DEF AbstractStep
  <2>10. CASE \E c \in Classes : StartSend(u, c)
    BY <2>10, StartSendQ DEF AbstractStep
  <2>11. CASE NextHandler(u)
    BY <2>11, NextHandlerQ
  <2>12. CASE LoadIn(u)
    BY <2>12, LoadInQ DEF AbstractStep
  <2>13. CASE StoreUnit(u)
    BY <2>13, StoreUnitQ
  <2> QED BY <1>2, <2>1, <2>2, <2>3, <2>4, <2>5, <2>6, <2>7, <2>8, <2>9, <2>10, <2>11, <2>12, <2>13
          DEF UserStep
<1>3. CASE UNCHANGED vars
  BY <1>3, StutterQ DEF AbstractStep
<1>4. (\E c \in Classes : IrqSend(c)) \/ (\E u \in Users : UserStep(u)) \/ UNCHANGED vars
  BY DEF Next
<1> QED BY <1>1, <1>2, <1>3, <1>4

\* The promise does not come back.
LEMMA BrokenStays ==
  ASSUME [Next]_vars, broken
  PROVE  broken'
<1>1. ASSUME NEW c \in Classes, IrqSend(c) PROVE broken'
  BY <1>1 DEF IrqSend, Break
<1>2. ASSUME NEW u \in Users, UserStep(u) PROVE broken'
  <2>1. CASE ResetPipe(u) \/ SetMask(u) \/ pipeRead(u) \/ PurgeIn(u) \/ StoreUnit(u)
    BY <2>1 DEF ResetPipe, SetMask, pipeRead, PurgeIn, StoreUnit, Break
  <2>2. CASE \/ \E m \in Masks : FindFree(u, m)
             \/ Claim(u) \/ evt_freeHandler(u) \/ evt_getFullStatus(u) \/ evt_purgeHandler(u)
    BY <2>2 DEF FindFree, Claim, evt_freeHandler, evt_getFullStatus, evt_purgeHandler
  <2>3. CASE \/ \E c \in Classes : StartSend(u, c)
             \/ NextHandler(u) \/ LoadIn(u)
    BY <2>3 DEF StartSend, NextHandler, LoadIn
  <2> QED BY <1>2, <2>1, <2>2, <2>3 DEF UserStep
<1>3. CASE UNCHANGED vars
  BY <1>3 DEF vars
<1> QED BY <1>1, <1>2, <1>3 DEF Next

\* When no two registrations overlap, the handlers and their pipes implement one
\* queue of events for each handler, for any number of threads, handlers and
\* classes, any masks and any sizes of pipe and event, until a pipe overflows or is
\* used while a thread writes to it: events come out whole, once and in the order
\* of sending, between whatever steps interrupts come (evt.c, pipes.c).
THEOREM HandlersImplementQueues ==
  ASSUME Apart = TRUE
  PROVE  Spec => ImplementsQueue
<1> DEFINE Inv == TInv /\ HInv /\ (broken \/ QInv)
<1>1. Init => Inv /\ Queue!Start
  BY InitT, InitH, InitQ
<1>2. Inv /\ [Next]_vars => Inv' /\ (broken' \/ AbstractStep)
  <2> SUFFICES ASSUME Inv, [Next]_vars
               PROVE  Inv' /\ (broken' \/ AbstractStep)
    OBVIOUS
  <2>1. TInv' /\ HInv'
    BY NextT, NextH
  <2>2. CASE broken'
    BY <2>1, <2>2
  <2>3. CASE ~broken'
    <3>1. QInv
      BY <2>3, BrokenStays
    <3>2. QInv' /\ AbstractStep
      BY <2>1, <2>3, <3>1, NextQ DEF Safe
    <3> QED BY <2>1, <3>2
  <2> QED BY <2>2, <2>3
<1>3. broken' \/ AbstractStep => [broken' \/ Queue!Step]_(Queue!aVars)
  BY DEF AbstractStep
<1> HIDE DEF Inv
<1> QED BY <1>1, <1>2, <1>3, PTL DEF Spec, ImplementsQueue
=============================================================================
