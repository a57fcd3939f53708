------------------------------- MODULE Thread -------------------------------
(***************************************************************************)
(* The MediOS thread layer: kernel/core/thread.c with the context switch   *)
(* of trap.S, the command line thread of cmd_line.c that kills, enables    *)
(* and renices threads, and the loader's hand-over to a MED program        *)
(* (thread_startMed and the end of med_loadParam).                         *)
(*                                                                         *)
(* One processor: the thread at the head of the ring runs, one action at a *)
(* time; a tick interrupt may switch away between any two actions unless   *)
(* the running thread has its I bit set.  A step that the code runs with   *)
(* interrupts masked is one action.  A thread is named by its pid.         *)
(***************************************************************************)
EXTENDS Ring, FiniteSets

CONSTANTS
  MaxPid,        \* bound: the largest pid ever given out
  MaxLines,      \* bound: command lines waiting in the UART
  MaxPrio,       \* THREAD_MAX_PRIO
  Starters,      \* who loads MED programs: the shell (KERNEL), "run" (CMD)
  KillTargets,   \* pids the operator gives to "kill"
  StateTargets,  \* pids the operator gives to "thread state"
  NiceTargets,   \* pids the operator gives to "nice"
  NicePrios,     \* priorities the operator gives to "nice"
  MemFails       \* TRUE: kmalloc may return NULL in thread_create

KERNEL == 0
IDLE   == 1
CMD    == 2
Thread == 0..MaxPid
Med    == 3..MaxPid
NULL   == -1
PRIO_HIGH == 1

ASSUME BoundsAssumption ==
  /\ MaxPid \in Nat /\ MaxPid >= 2
  /\ MaxLines \in Nat
  /\ MaxPrio \in Nat /\ MaxPrio >= PRIO_HIGH
ASSUME OperatorAssumption ==
  /\ Starters \subseteq {KERNEL, CMD}
  /\ KillTargets \subseteq Thread
  /\ StateTargets \subseteq Thread
  /\ NiceTargets \subseteq Thread
  /\ NicePrios \subseteq Int
  /\ MemFails \in BOOLEAN

VARIABLES
  ring,           \* the thread ring, read from threadCurrent
  enable,         \* THREAD_INFO.enable
  priority,       \* THREAD_INFO.priority
  idleCnt,        \* THREAD_INFO.idleCnt
  masked,         \* I bit of the CPSR, live or saved in regs[0]
  nextPid,        \* the global pid
  threadSysStack, \* the thread the kernel believes to be on the SYS stack
  stackOf,        \* the thread whose frames really lie in the SYS stack area
  saved,          \* t's saveStack holds t's frames as t last left them
  pc, arg,        \* where KERNEL and CMD are in their code, and its argument
  argsFreed,      \* MEDs whose argv the loader has freed
  rx, uartIrq,    \* lines in the UART, its pending interrupt
  fault           \* the first access through a dead or wild THREAD_INFO

ringVars  == <<ring, enable, idleCnt>>
stackVars == <<threadSysStack, stackOf, saved>>
uartVars  == <<rx, uartIrq>>
vars == <<ringVars, priority, masked, nextPid, stackVars, pc, arg, argsFreed,
          uartVars, fault>>

threadCurrent == Head(ring)
Alive == Members(ring)
useSysStack(t) == t = KERNEL \/ t \in Med
Label  == {"shell", "poll", "created", "away", "kill", "on", "off", "nice",
           "pause", "paused"}
Home(t) == IF t = CMD THEN "poll" ELSE "shell"

Init ==
  /\ ring = <<KERNEL, CMD, IDLE>>
  /\ enable = [t \in Thread |-> t = KERNEL]
  /\ priority = [t \in Thread |-> PRIO_HIGH]
  /\ idleCnt = [t \in Thread |-> 0]
  /\ masked = [t \in Thread |-> FALSE]
  /\ nextPid = 3
  /\ threadSysStack = KERNEL
  /\ stackOf = KERNEL
  /\ saved = [t \in Thread |-> t # KERNEL]
  /\ pc = [t \in Thread |-> Home(t)]
  /\ arg = [t \in Thread |-> NULL]
  /\ argsFreed = {}
  /\ rx = 0
  /\ uartIrq = FALSE
  /\ fault = "none"

\* Mutant: the frames of the previous thread are not saved.
GiveSysStackUnsaved(t, tss) ==
  IF useSysStack(t) /\ tss # t
  THEN /\ stackOf' = IF saved[t] THEN t ELSE NULL
       /\ saved' = [saved EXCEPT ![t] = FALSE]
       /\ threadSysStack' = t
  ELSE /\ threadSysStack' = tss
       /\ UNCHANGED <<stackOf, saved>>

(***************************************************************************)
(* Giving the SYS stack area to thread t (end of thread_nxt).  Only one of *)
(* the threads that use it can have its frames there; the others keep      *)
(* theirs in saveStack.  As t runs, its saveStack goes out of date.        *)
(***************************************************************************)
GiveSysStack(t, tss) ==
  IF useSysStack(t) /\ tss # t
  THEN LET savedPrev == IF tss = NULL THEN saved
                        ELSE [saved EXCEPT ![tss] = (stackOf = tss)]
       IN  /\ stackOf' = IF savedPrev[t] THEN t ELSE NULL
           /\ saved' = [savedPrev EXCEPT ![t] = FALSE]
           /\ threadSysStack' = t
  ELSE /\ threadSysStack' = tss
       /\ UNCHANGED <<stackOf, saved>>

\* Mutant: no aging, the waiting threads are not counted.
thread_nxtNoAging(r, en, tss) ==
  LET ready    == {i \in DOMAIN r : en[r[i]] /\ r[i] # IDLE}
      Top(i)   == /\ i \in ready
                  /\ \A j \in ready : \/ priority[r[j]] > priority[r[i]]
                                      \/ priority[r[j]] = priority[r[i]] /\ j <= i
  IN  \E i \in DOMAIN r :
        /\ IF ready = {} THEN r[i] = IDLE ELSE Top(i)
        /\ ring' = TurnTo(r, i)
        /\ enable' = [en EXCEPT ![IDLE] = (ready = {})]
        /\ idleCnt' = idleCnt
        /\ GiveSysStack(r[i], tss)

\* Mutant: the score grows with the priority and falls with the wait.
thread_nxtRecent(r, en, tss) ==
  LET ready    == {i \in DOMAIN r : en[r[i]] /\ r[i] # IDLE}
      cnt      == [idleCnt EXCEPT ![Head(r)] = 0]
      Score(i) == priority[r[i]] - cnt[r[i]]
      Top(i)   == /\ i \in ready
                  /\ \A j \in ready : \/ Score(j) < Score(i)
                                      \/ Score(j) = Score(i) /\ j <= i
  IN  \E i \in DOMAIN r :
        /\ IF ready = {} THEN r[i] = IDLE ELSE Top(i)
        /\ ring' = TurnTo(r, i)
        /\ enable' = [en EXCEPT ![IDLE] = (ready = {})]
        /\ idleCnt' = [t \in Thread |->
                         cnt[t] + (IF \E j \in ready : r[j] = t THEN 1 ELSE 0)]
        /\ GiveSysStack(r[i], tss)

(***************************************************************************)
(* thread_nxt on ring r, enable flags en and threadSysStack tss: the       *)
(* enabled thread of the highest score runs, the last such one in ring     *)
(* order from the current thread; every enabled thread counts one more     *)
(* idle switch; the idle thread runs when nobody is enabled.               *)
(***************************************************************************)
thread_nxt(r, en, tss) ==
  LET ready    == {i \in DOMAIN r : en[r[i]] /\ r[i] # IDLE}
      cnt      == [idleCnt EXCEPT ![Head(r)] = 0]
      Score(i) == cnt[r[i]] - priority[r[i]]
      Top(i)   == /\ i \in ready
                  /\ \A j \in ready : \/ Score(j) < Score(i)
                                      \/ Score(j) = Score(i) /\ j <= i
  IN  \E i \in DOMAIN r :
        /\ IF ready = {} THEN r[i] = IDLE ELSE Top(i)
        /\ ring' = TurnTo(r, i)
        /\ enable' = [en EXCEPT ![IDLE] = (ready = {})]
        /\ idleCnt' = [t \in Thread |->
                         cnt[t] + (IF \E j \in ready : r[j] = t THEN 1 ELSE 0)]
        /\ GiveSysStack(r[i], tss)

Switch == thread_nxt(ring, enable, threadSysStack)

(***************************************************************************)
(* A step through a THREAD_INFO that is no longer in the ring (freed, its  *)
(* links NULL), or through an uninitialised pointer, is undefined: the     *)
(* model records it in fault and follows the program no further.           *)
(***************************************************************************)
Running(t) == fault = "none" /\ threadCurrent = t
Wild(kind) ==
  /\ fault' = kind
  /\ UNCHANGED <<ringVars, priority, masked, nextPid, stackVars, pc, arg,
                 argsFreed, uartVars>>

Goto(t, label, a) ==
  /\ pc' = [pc EXCEPT ![t] = label]
  /\ arg' = [arg EXCEPT ![t] = a]

(* --- interrupts -------------------------------------------------------- *)

\* The tick: tmr_intAction ends in thread_nxt.
TimerTick ==
  /\ fault = "none" /\ ~masked[threadCurrent]
  /\ Switch
  /\ UNCHANGED <<priority, masked, nextPid, pc, arg, argsFreed, uartVars, fault>>

\* Somebody types a command line on the serial port.
UartLine ==
  /\ fault = "none" /\ rx < MaxLines
  /\ rx' = rx + 1
  /\ uartIrq' = TRUE
  /\ UNCHANGED <<ringVars, priority, masked, nextPid, stackVars, pc, arg,
                 argsFreed, fault>>

\* cmd_line_INT wakes the command line thread.
cmd_line_INT ==
  /\ fault = "none" /\ uartIrq /\ ~masked[threadCurrent]
  /\ IF CMD \in Alive
     THEN /\ uartIrq' = FALSE
          /\ enable' = [enable EXCEPT ![CMD] = TRUE]
          /\ UNCHANGED <<ring, idleCnt, priority, masked, nextPid, stackVars,
                         pc, arg, argsFreed, rx, fault>>
     ELSE Wild("stale")

\* thread_idleFct yields for ever.
IdleYield ==
  /\ Running(IDLE)
  /\ Switch
  /\ UNCHANGED <<priority, masked, nextPid, pc, arg, argsFreed, uartVars, fault>>

(* --- starting and ending a MED ----------------------------------------- *)

\* The start of a command: the shell acts on its own, CMD takes a line.
TakeLine(t) == rx' = IF t = CMD THEN rx - 1 ELSE rx
AtHome(t) == Running(t) /\ pc[t] = Home(t) /\ (t = CMD => rx > 0)

\* thread_create of a MED: inserted disabled, runs on the SYS stack.
CreateMed(t) ==
  /\ t \in Starters /\ AtHome(t) /\ nextPid <= MaxPid
  /\ ring' = Insert(ring, nextPid)
  /\ nextPid' = nextPid + 1
  /\ Goto(t, "created", nextPid)
  /\ TakeLine(t)
  /\ UNCHANGED <<enable, idleCnt, priority, masked, stackVars, argsFreed,
                 uartIrq, fault>>

\* thread_create fails: thread_startMed goes on with med_thread unset.
CreateMedNoMem(t) ==
  /\ MemFails /\ t \in Starters /\ AtHome(t)
  /\ Goto(t, "created", NULL)
  /\ TakeLine(t)
  /\ UNCHANGED <<ringVars, priority, masked, nextPid, stackVars, argsFreed,
                 uartIrq, fault>>

\* Mutant: KERNEL stays enabled while its MED runs.
LaunchMedShared(t) ==
  /\ Running(t) /\ pc[t] = "created" /\ arg[t] \in Alive
  /\ masked' = [masked EXCEPT ![t] = TRUE]
  /\ Goto(t, "away", arg[t])
  /\ thread_nxt(ring, [enable EXCEPT ![arg[t]] = TRUE], threadSysStack)
  /\ UNCHANGED <<priority, nextPid, argsFreed, uartVars, fault>>

\* __cli; sysThread->enable=0; med_thread->enable=1; yield().  The shell is
\* disabled before med_thread is looked at, whether that was created (it is NULL
\* here when not) and is still there or not.
LaunchMed(t) ==
  /\ Running(t) /\ pc[t] = "created"
  /\ masked' = [masked EXCEPT ![t] = TRUE]
  /\ \/ /\ arg[t] \in Alive
        /\ Goto(t, "away", arg[t])
        /\ thread_nxt(ring, [enable EXCEPT ![KERNEL] = FALSE, ![arg[t]] = TRUE],
                      threadSysStack)
        /\ UNCHANGED fault
     \/ /\ arg[t] \notin Alive
        /\ enable' = [enable EXCEPT ![KERNEL] = FALSE]
        /\ fault' = IF arg[t] = NULL THEN "uninit" ELSE "stale"
        /\ UNCHANGED <<ring, idleCnt, stackVars, pc, arg>>
  /\ UNCHANGED <<priority, nextPid, argsFreed, uartVars>>

\* Back from the yield: __sti, "back from med", the arguments are freed.
BackFromMed(t) ==
  /\ Running(t) /\ pc[t] = "away"
  /\ masked' = [masked EXCEPT ![t] = FALSE]
  /\ argsFreed' = argsFreed \cup {arg[t]}
  /\ Goto(t, Home(t), NULL)
  /\ UNCHANGED <<ringVars, priority, nextPid, stackVars, uartVars, fault>>

\* Mutant: the end of a MED does not enable KERNEL.
thread_doKillQuiet(t) ==
  LET rest == Remove(ring, t)
      tss  == IF t \in Med THEN NULL ELSE threadSysStack
  IN  IF t = threadCurrent
      THEN thread_nxt(rest, enable, tss) /\ UNCHANGED <<masked, fault>>
      ELSE /\ ring' = rest
           /\ threadSysStack' = tss
           /\ masked' = [masked EXCEPT ![threadCurrent] = TRUE]
           /\ fault' = IF t = KERNEL THEN "stale" ELSE fault
           /\ UNCHANGED <<enable, idleCnt, stackOf, saved>>

\* thread_doKill(t) by the current thread, from its __cli on.  The thread that
\* kills another one goes on with interrupts masked; one that kills itself
\* leaves through swi nTHREAD_NXT.  With KERNEL goes all that kmalloc gave out,
\* its list: the structs and stacks of the others too, the current one's among
\* them.
thread_doKill(t) ==
  LET rest == Remove(ring, t)
      en   == IF t \in Med THEN [enable EXCEPT ![KERNEL] = TRUE] ELSE enable
      tss  == IF t \in Med THEN NULL ELSE threadSysStack
  IN  IF t = threadCurrent
      THEN thread_nxt(rest, en, tss) /\ UNCHANGED <<masked, fault>>
      ELSE /\ ring' = rest
           /\ enable' = en
           /\ threadSysStack' = tss
           /\ masked' = [masked EXCEPT ![threadCurrent] = TRUE]
           /\ fault' = IF t = KERNEL THEN "stale" ELSE fault
           /\ UNCHANGED <<idleCnt, stackOf, saved>>

\* A MED returns from its entry function into thread_exit.
thread_exit(m) ==
  /\ m \in Med /\ Running(m)
  /\ thread_doKill(m)
  /\ UNCHANGED <<priority, nextPid, pc, arg, argsFreed, uartVars>>

(* --- the command line thread ------------------------------------------- *)

\* thread_findPid for a command on pid p: the struct found is used later.
FindPid(label, p) ==
  /\ AtHome(CMD)
  /\ IF p \in Alive THEN Goto(CMD, label, p) ELSE UNCHANGED <<pc, arg>>
  /\ TakeLine(CMD)
  /\ UNCHANGED <<ringVars, priority, masked, nextPid, stackVars, argsFreed,
                 uartIrq, fault>>

do_kill == \E p \in KillTargets : FindPid("kill", p)
do_ThreadState ==
  \E p \in StateTargets, label \in {"on", "off"} : FindPid(label, p)
do_ThreadNice == \E p \in NiceTargets : FindPid("nice", p)

\* A command that touches no thread (ps, mem, help, an unknown one).
OtherCommand ==
  /\ AtHome(CMD)
  /\ TakeLine(CMD)
  /\ UNCHANGED <<ringVars, priority, masked, nextPid, stackVars, pc, arg,
                 argsFreed, uartIrq, fault>>

\* Mutant: the idle thread is killed like any other.
KillFoundIdle ==
  /\ Running(CMD) /\ pc[CMD] = "kill" /\ arg[CMD] \in Alive
  /\ thread_doKill(arg[CMD])
  /\ Goto(CMD, "poll", NULL)
  /\ UNCHANGED <<priority, nextPid, argsFreed, uartVars>>

\* thread_doKill on the struct found; the idle thread is refused.
KillFound ==
  /\ Running(CMD) /\ pc[CMD] = "kill"
  /\ IF arg[CMD] \notin Alive
     THEN Wild("stale")
     ELSE /\ IF arg[CMD] = IDLE THEN UNCHANGED <<ringVars, masked, stackVars, fault>>
                                ELSE thread_doKill(arg[CMD])
          /\ Goto(CMD, "poll", NULL)
          /\ UNCHANGED <<priority, nextPid, argsFreed, uartVars>>

\* thread_enable, thread_disable: __cli; ptr->enable=..; __sti
SetStateFound ==
  /\ Running(CMD) /\ pc[CMD] \in {"on", "off"}
  /\ IF arg[CMD] \notin Alive
     THEN Wild("stale")
     ELSE /\ enable' = [enable EXCEPT ![arg[CMD]] = (pc[CMD] = "on")]
          /\ masked' = [masked EXCEPT ![CMD] = FALSE]
          /\ Goto(CMD, "poll", NULL)
          /\ UNCHANGED <<ring, idleCnt, priority, nextPid, stackVars, argsFreed,
                         uartVars, fault>>

\* Mutant: thread_nice stores whatever it is given.
NiceFoundAny ==
  /\ Running(CMD) /\ pc[CMD] = "nice" /\ arg[CMD] \in Alive
  /\ \E v \in NicePrios : priority' = [priority EXCEPT ![arg[CMD]] = v]
  /\ Goto(CMD, "poll", NULL)
  /\ UNCHANGED <<ringVars, masked, nextPid, stackVars, argsFreed, uartVars, fault>>

\* thread_nice: a priority in range is stored, another one is refused.
NiceFound ==
  /\ Running(CMD) /\ pc[CMD] = "nice"
  /\ IF arg[CMD] \notin Alive
     THEN Wild("stale")
     ELSE /\ \E v \in NicePrios :
               priority' = IF v \in 0..MaxPrio
                           THEN [priority EXCEPT ![arg[CMD]] = v] ELSE priority
          /\ Goto(CMD, "poll", NULL)
          /\ UNCHANGED <<ringVars, masked, nextPid, stackVars, argsFreed,
                         uartVars, fault>>

\* uart_in finds the reception buffer empty: the read loop ends.
NothingToRead ==
  /\ Running(CMD) /\ pc[CMD] = "poll" /\ rx = 0
  /\ Goto(CMD, "pause", NULL)
  /\ UNCHANGED <<ringVars, priority, masked, nextPid, stackVars, argsFreed,
                 uartVars, fault>>

\* THREAD_PAUSE, first half: __cli; threadCurrent->enable=0; __sti
PauseDisable ==
  /\ Running(CMD) /\ pc[CMD] = "pause"
  /\ enable' = [enable EXCEPT ![CMD] = FALSE]
  /\ masked' = [masked EXCEPT ![CMD] = FALSE]
  /\ Goto(CMD, "paused", NULL)
  /\ UNCHANGED <<ring, idleCnt, priority, nextPid, stackVars, argsFreed,
                 uartVars, fault>>

\* THREAD_PAUSE, second half: yield()
PauseYield ==
  /\ Running(CMD) /\ pc[CMD] = "paused"
  /\ Goto(CMD, "poll", NULL)
  /\ Switch
  /\ UNCHANGED <<priority, masked, nextPid, argsFreed, uartVars, fault>>

CmdStep ==
  \/ do_kill \/ do_ThreadState \/ do_ThreadNice \/ OtherCommand
  \/ KillFound \/ SetStateFound \/ NiceFound
  \/ NothingToRead \/ PauseDisable \/ PauseYield

MedStep ==
  \/ \E t \in {KERNEL, CMD} : \/ CreateMed(t) \/ CreateMedNoMem(t)
                              \/ LaunchMed(t) \/ BackFromMed(t)
  \/ \E m \in Med : thread_exit(m)

Next == TimerTick \/ UartLine \/ cmd_line_INT \/ IdleYield \/ MedStep \/ CmdStep

Spec == Init /\ [][Next]_vars

(***************************************************************************)
(* The processor runs: ticks keep coming, a pending interrupt is taken,    *)
(* and a thread that gets the processor again and again executes its code  *)
(* (strong fairness: a tick may preempt it any number of times).           *)
(***************************************************************************)
Fairness ==
  /\ WF_vars(TimerTick)
  /\ SF_vars(cmd_line_INT)
  /\ SF_vars(CmdStep)
  /\ \A t \in {KERNEL, CMD} : SF_vars(LaunchMed(t)) /\ SF_vars(BackFromMed(t))

FairSpec == Spec /\ Fairness

(***************************************************************************)
(* Properties.                                                             *)
(***************************************************************************)

\* The shape of every variable (THREAD_INFO and the globals of thread.c).
TypeOK ==
  /\ ring \in Seq(Thread) /\ ring # <<>>
  /\ enable \in [Thread -> BOOLEAN]
  /\ priority \in [Thread -> 0..MaxPrio]
  /\ idleCnt \in [Thread -> Nat]
  /\ masked \in [Thread -> BOOLEAN]
  /\ nextPid \in 3..(MaxPid + 1)
  /\ threadSysStack \in Thread \cup {NULL}
  /\ stackOf \in Thread \cup {NULL}
  /\ saved \in [Thread -> BOOLEAN]
  /\ pc \in [Thread -> Label]
  /\ arg \in [Thread -> Thread \cup {NULL}]
  /\ argsFreed \subseteq Thread \cup {NULL}
  /\ rx \in 0..MaxLines
  /\ uartIrq \in BOOLEAN
  /\ fault \in {"none", "stale", "uninit"}

\* The ring holds each thread once, never one that was not created, and always
\* the idle thread, whatever the operator kills: the scheduler finds it there
\* when nobody else may run (thread_doKill refuses it, pids only grow).  KERNEL
\* is not refused: it stays as long as the operator does not type "kill 0",
\* which takes the memory of all the others away too (fault).
RingSound ==
  /\ Distinct(ring)
  /\ IDLE \in Alive
  /\ KERNEL \in KillTargets \/ KERNEL \in Alive
  /\ \A t \in Alive : t < nextPid

\* What the commands hold in arg: the operator's targets, a MED being started.
ArgSound ==
  /\ pc[CMD] = "kill" => arg[CMD] \in KillTargets
  /\ pc[CMD] \in {"on", "off"} => arg[CMD] \in StateTargets
  /\ \A t \in Thread : pc[t] = "created" => arg[t] \in Med \cup {NULL}

\* Why SysStackOwned holds while no MED is killed: threadSysStack is the thread
\* whose frames are in the area, every other user of it has its own saved, and
\* only the user named by threadSysStack may run.
StackSound ==
  /\ threadSysStack # NULL => /\ threadSysStack \in Alive
                              /\ useSysStack(threadSysStack)
                              /\ stackOf = threadSysStack
  /\ useSysStack(threadCurrent) => threadSysStack = threadCurrent
  /\ \A t \in Alive \cup nextPid..MaxPid :
       useSysStack(t) /\ t # threadSysStack => saved[t]

\* Why ArgsAlive holds while only the shell starts MEDs and nobody enables it
\* meanwhile: at most one MED is there, the one it started, and until that MED
\* has ended the shell is disabled and does not run.
MedSound ==
  /\ pc[KERNEL] \in {"shell", "created", "away"} /\ pc[CMD] \notin {"created", "away"}
  /\ Alive \cap Med \subseteq IF pc[KERNEL] = "shell" THEN {} ELSE {arg[KERNEL]}
  /\ pc[KERNEL] # "shell" => arg[KERNEL] \in Med \cup {NULL} /\ arg[KERNEL] < nextPid
  /\ pc[KERNEL] = "away" /\ arg[KERNEL] \in Alive =>
       ~enable[KERNEL] /\ threadCurrent # KERNEL
  /\ \A m \in argsFreed : m < nextPid /\ m \notin Alive

\* Why BoundedWait holds: of the threads that wait, enabled or not, one fewer
\* has an idle count that reaches each next level.  A count that is driven up
\* to a level was passed over by a thread from the level below, whose count is
\* forgotten now.
AgeLevel(k) == k * (MaxPrio + 1)
Waiting(v) == {t \in Alive \ {IDLE, threadCurrent} : idleCnt[t] >= v}
AgeSound ==
  /\ \A t \in {IDLE} \cup nextPid..MaxPid : idleCnt[t] = 0
  /\ idleCnt[threadCurrent] <= AgeLevel(MaxPid)
  /\ \A k \in 1..MaxPid : Cardinality(Waiting(AgeLevel(k))) <= MaxPid - k

\* A thread that runs on the SYS stack finds its own frames there, whatever
\* threads used the area since it last ran (the two memcpy of thread_nxt and
\* the reset of threadSysStack in thread_doKill).
SysStackOwned ==
  useSysStack(threadCurrent) => stackOf = threadCurrent

\* When no MED is left the shell is enabled: the device never ends up with
\* nobody to listen to its buttons (thread_startMed disables KERNEL, the end
\* of a MED enables it), unless the operator kills it.
ShellNeverLost ==
  KERNEL \in Alive /\ Alive \cap Med = {} => enable[KERNEL]

\* The same, whatever the operator kills and in any order, until a start fails,
\* KERNEL is killed or a command meets a thread that has ended (fault).  It says
\* nothing of what follows: a MED that finds no memory, or is killed between its
\* creation and its launch, does leave the shell disabled.
ShellAlive ==
  fault = "none" => ShellNeverLost

\* Why ShellNeverLost holds while memory suffices and the operator leaves the
\* MEDs alone: a MED that is created waits, disabled, for its launch.
LaunchSound ==
  /\ \A t \in {KERNEL, CMD} : pc[t] = "created" =>
       /\ arg[t] \in Alive /\ ~enable[arg[t]] /\ arg[t] # threadCurrent
       /\ \A u \in {KERNEL, CMD} \ {t} : pc[u] = "created" => arg[u] # arg[t]
  /\ \A p \in nextPid..MaxPid : ~enable[p]

\* An enabled thread is passed over a bounded number of times, whatever the
\* priorities, starts, ends and wake-ups around it.  The bound is not the sum
\* of the worst priority and the number of threads: a thread keeps its idle
\* count while it is disabled, so one thread after the other can be brought
\* MaxPrio + 1 above the one before.
BoundedWait ==
  \A t \in Alive : enable[t] => idleCnt[t] <= AgeLevel(MaxPid)

\* The loader frees the argv of a MED only when the MED is gone (the end of
\* med_loadParam runs "back from med").
ArgsAlive ==
  Alive \cap argsFreed = {}

\* An enabled thread runs eventually, unless it is disabled or ends first.
EnabledRuns ==
  \A t \in Thread \ {IDLE} :
    (t \in Alive /\ enable[t]) ~>
      (t \notin Alive \/ ~enable[t] \/ threadCurrent = t)

\* When the MED it started has ended, the shell takes over again.
ShellReturns ==
  (pc[KERNEL] = "away" /\ arg[KERNEL] \notin Alive) ~> pc[KERNEL] = "shell"

\* The command line thread is ready for a new command after each one: a full
\* reception buffer is read from eventually.
LinesAreRead ==
  (rx = MaxLines) ~> (rx < MaxLines)
=============================================================================
