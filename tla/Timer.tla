------------------------------- MODULE Timer -------------------------------
(***************************************************************************)
(* The software timers of MediOS, kernel/core/timer.c: the tick interrupt  *)
(* that walks the list of timers and runs the actions of those that have   *)
(* expired, and tmr_start and tmr_stop called by actions and by a thread.  *)
(*                                                                         *)
(* All tmr_setup calls of the kernel run before the first tick, so the     *)
(* list is fixed; timers are numbered in list order.  The tick runs with   *)
(* interrupts masked: no thread step between two timers of one walk.  The  *)
(* thread is not protected against the tick: the code that sets expires    *)
(* and calls tmr_start is four steps (read tick, store expires, compare,   *)
(* store trigger).  tick and expires are unsigned words of Width bits.     *)
(***************************************************************************)
EXTENDS Integers

CONSTANTS
  N,          \* number of timers
  FreeRun,    \* the timers with freeRun set
  StdDelay,   \* stdDelay of those
  Delays,     \* delays the others are started with
  Width,      \* bits of an unsigned long
  MaxTime,    \* bound: ticks in a behaviour
  Lag         \* bound: ticks between reading tick and the end of tmr_start

Timers == 1..N
U == 2^Width

ASSUME TimerAssumption ==
  /\ N \in Nat /\ FreeRun \subseteq Timers
  /\ Width \in Nat /\ MaxTime \in Nat /\ Lag \in Nat
  /\ U \in Nat \ {0}
  /\ StdDelay \in Nat \ {0} /\ Delays \subseteq Nat \ {0}

VARIABLES
  tick,
  expires, trigger,   \* fields of struct tmr_s
  at,                 \* the timer the tick looks at, 0 outside the interrupt
  pc, tmr, val,       \* the thread: where it is in a start, of which timer
  now,                \* ghost: ticks since boot
  goal,               \* ghost: the time the thread aims at
  lag,                \* ghost: ticks since the thread read tick
  due,                \* ghost: when each timer was last told to expire
  on                  \* ghost: started, and neither stopped nor expired since

tmrVars == <<expires, trigger, due, on>>
vars == <<tick, tmrVars, at, pc, tmr, val, now, goal, lag>>

Init ==
  /\ tick = 0 /\ now = 0 /\ goal = 0 /\ lag = 0
  /\ expires = [t \in Timers |-> 0]
  /\ trigger = [t \in Timers |-> FALSE]
  /\ due = [t \in Timers |-> 0]
  /\ on = [t \in Timers |-> FALSE]
  /\ at = 0
  /\ pc = "rest" /\ tmr = 0 /\ val = 0

(***************************************************************************)
(* The tick.  An action may start a timer, its own (evt_timer_action,      *)
(* hd_launchTimer) or another (ata_stopHD), stop one (ata_stopHDEnd,       *)
(* chgTimer), or leave the timers alone.                                   *)
(***************************************************************************)
DelayOf(t) == IF t \in FreeRun THEN {StdDelay} ELSE Delays

Tick ==
  /\ at = 0 /\ now < MaxTime
  /\ pc # "rest" => lag < Lag
  /\ tick' = (tick + 1) % U
  /\ now' = now + 1
  /\ lag' = IF pc = "rest" THEN 0 ELSE lag + 1
  /\ at' = IF N = 0 THEN 0 ELSE 1
  /\ UNCHANGED <<tmrVars, pc, tmr, val, goal>>

\* Mutant: a timer is due one tick late.
ExpiredLate(t) == trigger[t] /\ expires[t] < tick
\* Mutant: the deadline is not looked at.
ExpiredAny(t) == trigger[t]

Expired(t) == trigger[t] /\ expires[t] <= tick

\* Mutant: the walk does not see the end of the list.
AfterEndless(t) == t + 1

After(t) == IF t = N THEN 0 ELSE t + 1

\* One timer of the walk of tmr_intAction: not due.
Skip(t) ==
  /\ at = t /\ ~Expired(t)
  /\ at' = After(t)
  /\ UNCHANGED <<tick, tmrVars, pc, tmr, val, now, goal, lag>>

\* Mutant: a one-shot timer is disarmed after its action, not before.
EffectLate(t, u, op, d) ==
  LET again == t \in FreeRun /\ ~(op = "stop" /\ u = t)
      mine  == (tick + StdDelay) % U
      e     == (tick + d) % U
  IN  /\ expires' = [x \in Timers |->
                       IF op = "start" /\ x = u THEN e
                       ELSE IF x = t /\ again THEN mine ELSE expires[x]]
      /\ trigger' = [x \in Timers |->
                       IF x = t THEN again /\ mine > tick
                       ELSE IF op # "none" /\ x = u THEN op = "start" /\ e > tick
                       ELSE trigger[x]]
      /\ due' = [x \in Timers |->
                   IF op = "start" /\ x = u THEN now + d
                   ELSE IF x = t /\ again THEN now + StdDelay ELSE due[x]]
      /\ on' = [x \in Timers |->
                  IF op # "none" /\ x = u THEN op = "start"
                  ELSE on[x] /\ (x # t \/ t \in FreeRun)]

\* What the visit of timer t, which is due, does to the timers when its action
\* starts or stops timer u, for d ticks.  A one-shot timer is disarmed before the
\* action; a free running one that is still armed after it gets its next deadline,
\* and is disarmed if that one is not ahead.
Effect(t, u, op, d) ==
  LET again == t \in FreeRun /\ ~(op = "stop" /\ u = t)
      mine  == (tick + StdDelay) % U
      e     == (tick + d) % U
  IN  /\ expires' = [x \in Timers |->
                       IF op = "start" /\ x = u THEN e
                       ELSE IF x = t /\ again THEN mine ELSE expires[x]]
      /\ trigger' = [x \in Timers |->
                       IF op # "none" /\ x = u THEN op = "start" /\ e > tick
                       ELSE IF x = t THEN again /\ mine > tick
                       ELSE trigger[x]]
      /\ due' = [x \in Timers |->
                   IF op = "start" /\ x = u THEN now + d
                   ELSE IF x = t /\ again THEN now + StdDelay ELSE due[x]]
      /\ on' = [x \in Timers |->
                  IF op # "none" /\ x = u THEN op = "start"
                  ELSE on[x] /\ (x # t \/ t \in FreeRun)]

Fire(t) ==
  /\ at = t /\ Expired(t)
  /\ \E u \in Timers, op \in {"none", "start", "stop"} : \E d \in DelayOf(u) :
       Effect(t, u, op, d)
  /\ at' = After(t)
  /\ UNCHANGED <<tick, pc, tmr, val, now, goal, lag>>

(***************************************************************************)
(* The thread (hd_launchTimer and its like, then tmr_start).               *)
(***************************************************************************)

\* tick + delay is computed.
ReadTick(t, d) ==
  /\ at = 0 /\ pc = "rest"
  /\ pc' = "store" /\ tmr' = t /\ val' = (tick + d) % U
  /\ goal' = now + d /\ lag' = 0
  /\ UNCHANGED <<tick, tmrVars, at, now>>

\* expires = ...
StoreExpires ==
  /\ at = 0 /\ pc = "store"
  /\ expires' = [expires EXCEPT ![tmr] = val]
  /\ due' = [due EXCEPT ![tmr] = goal]
  /\ pc' = "compare"
  /\ UNCHANGED <<tick, trigger, on, at, tmr, val, now, goal, lag>>

\* if(tmr_data->expires>tick)
Compare ==
  /\ at = 0 /\ pc = "compare"
  /\ pc' = IF expires[tmr] > tick THEN "arm" ELSE "disarm"
  /\ UNCHANGED <<tick, tmrVars, at, tmr, val, now, goal, lag>>

\* trigger = 1 or 0: the start is over.
SetTrigger ==
  /\ at = 0 /\ pc \in {"arm", "disarm"}
  /\ trigger' = [trigger EXCEPT ![tmr] = (pc = "arm")]
  /\ on' = [on EXCEPT ![tmr] = TRUE]
  /\ pc' = "rest" /\ lag' = 0
  /\ UNCHANGED <<tick, expires, due, at, tmr, val, now, goal>>

tmr_stop(t) ==
  /\ at = 0 /\ pc = "rest"
  /\ trigger' = [trigger EXCEPT ![t] = FALSE]
  /\ on' = [on EXCEPT ![t] = FALSE]
  /\ UNCHANGED <<tick, expires, due, at, pc, tmr, val, now, goal, lag>>

ThreadStep ==
  \/ \E t \in Timers : tmr_stop(t) \/ \E d \in DelayOf(t) : ReadTick(t, d)
  \/ StoreExpires \/ Compare \/ SetTrigger

Next ==
  \/ Tick
  \/ \E t \in Timers : Skip(t) \/ Fire(t)
  \/ ThreadStep

Spec == Init /\ [][Next]_vars

(***************************************************************************)
(* Properties.                                                             *)
(***************************************************************************)

\* The shape of the timers and of the thread that starts them.
TypeOK ==
  /\ tick \in 0..(U - 1) /\ now \in 0..MaxTime /\ lag \in 0..Lag
  /\ expires \in [Timers -> 0..(U - 1)]
  /\ trigger \in [Timers -> BOOLEAN]
  /\ due \in [Timers -> Nat] /\ goal \in Nat
  /\ on \in [Timers -> BOOLEAN]
  /\ at \in 0..N
  /\ pc \in {"rest", "store", "compare", "arm", "disarm"}
  /\ tmr \in 0..N /\ (pc # "rest" => tmr \in Timers)
  /\ val \in 0..(U - 1)

\* An action never runs before the deadline its timer was last given, even when
\* the timer is being started again while it is armed.
NeverEarly ==
  \A t \in Timers : at = t /\ Expired(t) => due[t] <= now

\* Between two ticks no armed timer is overdue: every walk of the list runs each
\* action that is due, also those of timers armed by other actions in that walk.
OnTime ==
  at = 0 => \A t \in Timers : trigger[t] => expires[t] > tick

\* A timer that was started, and neither stopped nor expired since, is armed; a
\* free running one stays so until it is stopped.
StaysArmed ==
  \A t \in Timers : on[t] => trigger[t]
=============================================================================
