---------------------------- MODULE TimerProofs ----------------------------
(***************************************************************************)
(* Proofs about the timers: types for every parameter, and, as long as the *)
(* tick counter does not wrap and no start takes as many ticks as its      *)
(* delay, that actions are neither early nor forgotten.                    *)
(***************************************************************************)
EXTENDS Timer, TLAPS

LEMMA ModRange ==
  ASSUME NEW x \in Nat, NEW u \in Nat \ {0}
  PROVE  x % u \in 0..(u - 1)
  BY SMT

LEMMA ModSmall ==
  ASSUME NEW x \in Nat, NEW u \in Nat \ {0}, x < u
  PROVE  x % u = x
  BY SMT

LEMMA DelayType ==
  ASSUME NEW t \in Timers, NEW d \in DelayOf(t)
  PROVE  d \in Nat \ {0}
  BY TimerAssumption DEF DelayOf

LEMMA InitType == Init => TypeOK
  BY TimerAssumption DEF Init, TypeOK, Timers

LEMMA FireType ==
  ASSUME TypeOK, NEW t \in Timers, Fire(t)
  PROVE  TypeOK'
<1>0. PICK u \in Timers, op \in {"none", "start", "stop"} :
        \E d \in DelayOf(u) : Effect(t, u, op, d)
  BY DEF Fire
<1>1. PICK d \in DelayOf(u) : Effect(t, u, op, d)
  BY <1>0
<1>3. d \in Nat \ {0} /\ StdDelay \in Nat \ {0} /\ U \in Nat \ {0} /\ tick \in Nat
      /\ now \in Nat
  BY DelayType, TimerAssumption DEF TypeOK
<1>4. (tick + d) % U \in 0..(U - 1) /\ (tick + StdDelay) % U \in 0..(U - 1)
  <2>1. tick + d \in Nat /\ tick + StdDelay \in Nat /\ U \in Nat \ {0}
    BY <1>3
  <2>2. (tick + d) % U \in 0..(U - 1)
    BY <2>1, ModRange, Zenon
  <2>3. (tick + StdDelay) % U \in 0..(U - 1)
    BY <2>1, ModRange, Zenon
  <2> QED BY <2>2, <2>3
<1>5. expires' \in [Timers -> 0..(U - 1)]
  BY <1>1, <1>4 DEF TypeOK, Effect
<1>6. due' \in [Timers -> Nat]
  BY <1>1, <1>3 DEF TypeOK, Effect
<1>7. trigger' \in [Timers -> BOOLEAN] /\ on' \in [Timers -> BOOLEAN]
  BY <1>1, Zenon DEF TypeOK, Effect
<1>8. at' \in 0..N /\ UNCHANGED <<tick, pc, tmr, val, now, goal, lag>>
  BY TimerAssumption DEF Fire, After, Timers
<1> QED BY <1>5, <1>6, <1>7, <1>8 DEF TypeOK

LEMMA NextType == TypeOK /\ [Next]_vars => TypeOK'
<1> SUFFICES ASSUME TypeOK, [Next]_vars PROVE TypeOK'
  OBVIOUS
<1>a. N \in Nat /\ U \in Nat \ {0} /\ MaxTime \in Nat /\ Lag \in Nat
  BY TimerAssumption
<1>1. CASE Tick
  <2>1. tick' \in 0..(U - 1)
    BY <1>1, <1>a, ModRange DEF Tick, TypeOK
  <2>2. now' \in 0..MaxTime /\ lag' \in 0..Lag /\ at' \in 0..N
    BY <1>1, <1>a DEF Tick, TypeOK
  <2> QED BY <1>1, <2>1, <2>2 DEF Tick, TypeOK, tmrVars
<1>2. ASSUME NEW t \in Timers, Skip(t) PROVE TypeOK'
  BY <1>2, <1>a DEF Skip, After, Timers, TypeOK, tmrVars
<1>3. ASSUME NEW t \in Timers, Fire(t) PROVE TypeOK'
  BY <1>3, FireType
<1>4. ASSUME NEW t \in Timers, tmr_stop(t) PROVE TypeOK'
  BY <1>4 DEF tmr_stop, TypeOK
<1>5. ASSUME NEW t \in Timers, NEW d \in DelayOf(t), ReadTick(t, d) PROVE TypeOK'
  <2>1. d \in Nat
    BY DelayType
  <2>2. val' \in 0..(U - 1)
    BY <1>5, <2>1, <1>a, ModRange DEF ReadTick, TypeOK
  <2>3. goal' \in Nat /\ tmr' \in 0..N /\ tmr' \in Timers /\ lag' \in 0..Lag
    BY <1>5, <2>1, <1>a DEF ReadTick, TypeOK, Timers
  <2> QED BY <1>5, <2>2, <2>3 DEF ReadTick, TypeOK, tmrVars
<1>6. CASE StoreExpires
  BY <1>6 DEF StoreExpires, TypeOK
<1>7. CASE Compare
  BY <1>7 DEF Compare, TypeOK, tmrVars
<1>8. CASE SetTrigger
  BY <1>8, <1>a DEF SetTrigger, TypeOK
<1>9. CASE UNCHANGED vars
  BY <1>9 DEF vars, tmrVars, TypeOK
<1> QED BY <1>1, <1>2, <1>3, <1>4, <1>5, <1>6, <1>7, <1>8, <1>9 DEF Next, ThreadStep

\* Every variable keeps its type, for every number of timers, width and delay.
THEOREM TimerTypeCorrect == Spec => []TypeOK
  BY InitType, NextType, PTL DEF Spec

(***************************************************************************)
(* Before the counter wraps.                                               *)
(***************************************************************************)

\* No delay started before MaxTime reaches past the last tick value, and no start
\* is delayed for as long as its delay.
NoWrap ==
  /\ MaxTime < U
  /\ \A t \in Timers : \A d \in DelayOf(t) : MaxTime + d < U /\ Lag < d

\* The deadlines agree with real time.
Clock ==
  /\ tick = now
  /\ due = expires
  /\ pc = "store" => val = goal /\ goal + lag > now + Lag

\* Armed timers are ahead of the tick, but for those the walk has still to visit;
\* the one the thread is starting stays ahead as long as the start may last.
Ahead ==
  /\ \A t \in Timers : trigger[t] /\ (at = 0 \/ t < at) => expires[t] > tick
  /\ pc \in {"compare", "arm"} => expires[tmr] + lag > tick + Lag
  /\ pc # "disarm"

TInv == TypeOK /\ Clock /\ Ahead /\ StaysArmed

LEMMA InitTInv == Init => TInv
<1> SUFFICES ASSUME Init PROVE TInv
  OBVIOUS
<1>1. TypeOK
  BY InitType
<1>2. Clock /\ Ahead /\ StaysArmed
  BY DEF Init, Clock, Ahead, StaysArmed
<1> QED BY <1>1, <1>2 DEF TInv

LEMMA SoonSum ==
  ASSUME NoWrap, TInv, NEW t \in Timers, NEW d \in DelayOf(t)
  PROVE  /\ (tick + d) % U = tick + d
         /\ d \in Nat \ {0} /\ tick \in Nat /\ Lag < d /\ Lag \in Nat
<1>1. d \in Nat \ {0} /\ U \in Nat \ {0} /\ tick \in Nat /\ MaxTime \in Nat /\ Lag \in Nat
  BY DelayType, TimerAssumption DEF TInv, TypeOK
<1>2. tick + d \in Nat /\ tick + d < U /\ Lag < d
  BY <1>1 DEF NoWrap, TInv, Clock, TypeOK
<1>3. (tick + d) % U = tick + d
  BY <1>1, <1>2, ModSmall, Zenon
<1> QED BY <1>1, <1>2, <1>3

LEMMA FireTInv ==
  ASSUME NoWrap, TInv, NEW t \in Timers, Fire(t)
  PROVE  TInv'
<1>1. TypeOK'
  BY FireType DEF TInv
<1>2. PICK u \in Timers, op \in {"none", "start", "stop"} :
        \E d \in DelayOf(u) : Effect(t, u, op, d)
  BY DEF Fire
<1>3. PICK d \in DelayOf(u) : Effect(t, u, op, d)
  BY <1>2
<1> DEFINE again == t \in FreeRun /\ ~(op = "stop" /\ u = t)
<1>4. /\ (tick + d) % U = tick + d /\ d \in Nat \ {0} /\ tick \in Nat
      /\ Lag < d /\ Lag \in Nat
  BY SoonSum
<1>5. again => (tick + StdDelay) % U = tick + StdDelay /\ Lag < StdDelay
  <2> SUFFICES ASSUME t \in FreeRun PROVE (tick + StdDelay) % U = tick + StdDelay
                                          /\ Lag < StdDelay
    OBVIOUS
  <2>1. StdDelay \in DelayOf(t)
    BY DEF DelayOf
  <2> QED BY <2>1, SoonSum
<1>6. StdDelay \in Nat \ {0}
  BY TimerAssumption
<1>7. /\ expires' = [x \in Timers |->
                       IF op = "start" /\ x = u THEN tick + d
                       ELSE IF x = t /\ again THEN tick + StdDelay ELSE expires[x]]
      /\ due' = [x \in Timers |->
                   IF op = "start" /\ x = u THEN now + d
                   ELSE IF x = t /\ again THEN now + StdDelay ELSE due[x]]
  BY <1>3, <1>4, <1>5 DEF Effect
<1>8. trigger' = [x \in Timers |-> IF op # "none" /\ x = u THEN op = "start"
                                   ELSE IF x = t THEN again ELSE trigger[x]]
  <2>1. tick + d > tick /\ tick + StdDelay > tick
    BY <1>4, <1>6
  <2> QED BY <1>3, <1>4, <1>5, <2>1 DEF Effect
<1>9. /\ UNCHANGED <<tick, pc, tmr, val, now, goal, lag>>
      /\ at = t /\ at' = After(t)
  BY DEF Fire
<1>10. Clock'
  BY <1>7, <1>9 DEF TInv, Clock, TypeOK
<1>11. StaysArmed'
  <2>1. on' = [x \in Timers |-> IF op # "none" /\ x = u THEN op = "start"
                                ELSE on[x] /\ (x # t \/ t \in FreeRun)]
    BY <1>3 DEF Effect
  <2>2. ASSUME NEW x \in Timers, on'[x] PROVE trigger'[x]
    <3>1. CASE op # "none" /\ x = u
      BY <2>1, <2>2, <3>1, <1>8
    <3>2. CASE ~(op # "none" /\ x = u) /\ x = t
      BY <2>1, <2>2, <3>2, <1>8
    <3>3. CASE ~(op # "none" /\ x = u) /\ x # t
      BY <2>1, <2>2, <3>3, <1>8 DEF TInv, StaysArmed
    <3> QED BY <3>1, <3>2, <3>3
  <2> QED BY <2>2 DEF StaysArmed
<1>12. Ahead'
  <2>1. ASSUME NEW x \in Timers, trigger'[x], at' = 0 \/ x < at'
        PROVE  expires'[x] > tick'
    <3>1. CASE op = "start" /\ x = u
      BY <3>1, <1>4, <1>7, <1>9
    <3>2. CASE ~(op = "start" /\ x = u) /\ x = t
      <4>1. again
        BY <2>1, <3>2, <1>8
      <4>2. expires'[x] = tick + StdDelay
        BY <3>2, <4>1, <1>7
      <4> HIDE DEF again
      <4> QED BY <4>2, <1>4, <1>6, <1>9
    <3>3. CASE ~(op = "start" /\ x = u) /\ x # t
      <4>1. trigger[x] /\ expires'[x] = expires[x]
        BY <2>1, <3>3, <1>7, <1>8
      <4>2. x < at
        BY <2>1, <3>3, <1>9, TimerAssumption DEF After, Timers
      <4> QED BY <4>1, <4>2, <1>9 DEF TInv, Ahead
    <3> QED BY <3>1, <3>2, <3>3
  <2>2. ASSUME pc \in {"compare", "arm"} PROVE expires'[tmr] + lag > tick + Lag
    <3>1. tmr \in Timers /\ lag \in Nat /\ expires[tmr] + lag > tick + Lag
      BY <2>2 DEF TInv, Ahead, TypeOK
    <3>2. CASE op = "start" /\ tmr = u
      BY <3>1, <3>2, <1>4, <1>7
    <3>3. CASE ~(op = "start" /\ tmr = u) /\ tmr = t /\ again
      <4>1. expires'[tmr] = tick + StdDelay
        BY <3>1, <3>3, <1>7
      <4>2. Lag < StdDelay
        BY <3>3, <1>5
      <4> HIDE DEF again
      <4> QED BY <3>1, <4>1, <4>2, <1>4, <1>6
    <3>4. CASE ~(op = "start" /\ tmr = u) /\ ~(tmr = t /\ again)
      BY <3>1, <3>4, <1>7
    <3> QED BY <3>2, <3>3, <3>4
  <2> QED BY <2>1, <2>2, <1>9 DEF Ahead, TInv
<1> QED BY <1>1, <1>10, <1>11, <1>12 DEF TInv

LEMMA NextTInv == NoWrap /\ TInv /\ [Next]_vars => TInv'
<1> SUFFICES ASSUME NoWrap, TInv, [Next]_vars PROVE TInv'
  OBVIOUS
<1>t. TypeOK'
  BY NextType DEF TInv
<1>n. /\ N \in Nat /\ U \in Nat \ {0} /\ MaxTime \in Nat /\ Lag \in Nat
      /\ tick \in Nat /\ now \in Nat /\ lag \in Nat /\ at \in 0..N
      /\ expires \in [Timers -> Nat] /\ due = expires /\ tick = now
      /\ trigger \in [Timers -> BOOLEAN] /\ on \in [Timers -> BOOLEAN]
  BY TimerAssumption DEF TInv, TypeOK, Clock
<1>1. CASE Tick
  <2>1. tick' = tick + 1 /\ now' = now + 1
    <3>1. tick + 1 \in Nat /\ tick + 1 < U
      BY <1>1, <1>n DEF Tick, NoWrap
    <3>2. (tick + 1) % U = tick + 1
      BY <3>1, <1>n, ModSmall, Zenon
    <3> QED BY <3>2, <1>1 DEF Tick
  <2>2. UNCHANGED <<expires, trigger, due, on, pc, tmr, val, goal>>
    BY <1>1 DEF Tick, tmrVars
  <2>3. pc # "rest" => lag' = lag + 1
    BY <1>1 DEF Tick
  <2>4. Clock'
    BY <2>1, <2>2, <2>3, <1>n DEF TInv, Clock, TypeOK
  <2>5. \A t \in Timers : ~(at' = 0 \/ t < at')
    BY <1>1, <1>n DEF Tick, Timers
  <2>6. Ahead'
    BY <2>1, <2>2, <2>3, <2>5, <1>n DEF TInv, Ahead, TypeOK
  <2> QED BY <1>t, <2>2, <2>4, <2>6 DEF TInv, StaysArmed
<1>2. ASSUME NEW t \in Timers, Skip(t) PROVE TInv'
  <2>1. /\ UNCHANGED <<tick, expires, trigger, due, on, pc, tmr, val, now, goal, lag>>
        /\ at = t /\ at' = After(t) /\ ~Expired(t)
    BY <1>2 DEF Skip, tmrVars
  <2>2. ASSUME NEW x \in Timers, trigger[x], at' = 0 \/ x < at' PROVE expires[x] > tick
    <3>1. CASE x = t
      BY <2>1, <2>2, <3>1, <1>n DEF Expired
    <3>2. CASE x # t
      <4>1. x < at
        BY <2>1, <2>2, <3>2, <1>n DEF After, Timers
      <4> QED BY <4>1, <2>2 DEF TInv, Ahead
    <3> QED BY <3>1, <3>2
  <2>3. Clock' /\ Ahead' /\ StaysArmed'
    BY <2>1, <2>2 DEF TInv, Clock, Ahead, StaysArmed
  <2> QED BY <1>t, <2>3 DEF TInv
<1>3. ASSUME NEW t \in Timers, Fire(t) PROVE TInv'
  BY <1>3, FireTInv
<1>4. ASSUME NEW t \in Timers, tmr_stop(t) PROVE TInv'
  <2>1. Clock' /\ Ahead' /\ StaysArmed'
    BY <1>4, <1>n DEF tmr_stop, TInv, Clock, Ahead, StaysArmed
  <2> QED BY <1>t, <2>1 DEF TInv
<1>5. ASSUME NEW t \in Timers, NEW d \in DelayOf(t), ReadTick(t, d) PROVE TInv'
  <2>1. (tick + d) % U = tick + d /\ d \in Nat /\ Lag < d
    BY SoonSum
  <2>2. Clock' /\ Ahead' /\ StaysArmed'
    BY <1>5, <1>n, <2>1 DEF ReadTick, tmrVars, TInv, Clock, Ahead, StaysArmed
  <2> QED BY <1>t, <2>2 DEF TInv
<1>6. CASE StoreExpires
  <2>1. /\ val = goal /\ goal + lag > now + Lag /\ goal \in Nat /\ tmr \in Timers
        /\ lag <= Lag
    BY <1>6 DEF StoreExpires, TInv, Clock, TypeOK
  <2>2. expires' = [expires EXCEPT ![tmr] = goal] /\ due' = expires'
    BY <1>6, <1>n, <2>1 DEF StoreExpires
  <2>3. Clock'
    BY <1>6, <1>n, <2>2 DEF StoreExpires, TInv, Clock
  <2>4. Ahead' /\ StaysArmed'
    BY <1>6, <1>n, <2>1, <2>2 DEF StoreExpires, TInv, Ahead, StaysArmed
  <2> QED BY <1>t, <2>3, <2>4 DEF TInv
<1>7. CASE Compare
  <2>1. tmr \in Timers /\ expires[tmr] + lag > tick + Lag /\ lag <= Lag
    BY <1>7 DEF Compare, TInv, Ahead, TypeOK
  <2>2. pc' = "arm"
    BY <1>7, <1>n, <2>1 DEF Compare
  <2>3. Clock' /\ Ahead' /\ StaysArmed'
    BY <1>7, <2>1, <2>2 DEF Compare, tmrVars, TInv, Clock, Ahead, StaysArmed
  <2> QED BY <1>t, <2>3 DEF TInv
<1>8. CASE SetTrigger
  <2>1. /\ pc = "arm" /\ tmr \in Timers /\ expires[tmr] + lag > tick + Lag
        /\ lag <= Lag
    BY <1>8 DEF SetTrigger, TInv, Ahead, TypeOK
  <2>2. trigger' = [trigger EXCEPT ![tmr] = TRUE]
    BY <1>8, <2>1 DEF SetTrigger
  <2>3. Clock' /\ Ahead' /\ StaysArmed'
    BY <1>8, <1>n, <2>1, <2>2 DEF SetTrigger, TInv, Clock, Ahead, StaysArmed
  <2> QED BY <1>t, <2>3 DEF TInv
<1>9. CASE UNCHANGED vars
  BY <1>9, <1>t DEF vars, tmrVars, TInv, Clock, Ahead, StaysArmed
<1> QED BY <1>1, <1>2, <1>3, <1>4, <1>5, <1>6, <1>7, <1>8, <1>9 DEF Next, ThreadStep

\* The four facts of TInv hold in every reachable state before the counter wraps.
LEMMA TInvAlways == ASSUME NoWrap PROVE Spec => []TInv
  BY InitTInv, NextTInv, PTL DEF Spec

\* No action runs before the deadline its timer was last given.
THEOREM NeverTooEarly == ASSUME NoWrap PROVE Spec => []NeverEarly
<1>1. TInv => NeverEarly
  BY DEF TInv, Clock, TypeOK, NeverEarly, Expired
<1> QED BY <1>1, TInvAlways, PTL

\* Between two ticks no armed timer is overdue.
THEOREM AlwaysOnTime == ASSUME NoWrap PROVE Spec => []OnTime
<1>1. TInv => OnTime
  BY DEF TInv, Ahead, OnTime
<1> QED BY <1>1, TInvAlways, PTL

\* A timer that was started stays armed until it expires or is stopped.
THEOREM StartsAreKept == ASSUME NoWrap PROVE Spec => []StaysArmed
<1>1. TInv => StaysArmed
  BY DEF TInv
<1> QED BY <1>1, TInvAlways, PTL
=============================================================================
