---------------------------- MODULE ThreadProofs ----------------------------
(***************************************************************************)
(* What Thread guarantees for any number of threads, command lines and     *)
(* priorities: the ring stays sound whatever the operator types, the shell *)
(* comes back when the last MED is gone, as long as every launch finds its *)
(* MED, and while "kill" is not used a thread on the SYS stack finds its   *)
(* frames.                                                                 *)
(***************************************************************************)
EXTENDS Thread, SequenceTheorems, FiniteSetTheorems, TLAPS

(***************************************************************************)
(* What Insert, Remove and TurnTo do to the members and to the distinctness*)
(* of a ring.                                                              *)
(***************************************************************************)
\* thread_insert adds its thread, keeps the current one, and repeats nobody.
LEMMA InsertRing ==
  ASSUME NEW S, NEW r \in Seq(S), NEW t \in S
  PROVE  /\ Insert(r, t) \in Seq(S)
         /\ Len(Insert(r, t)) = Len(r) + 1
         /\ Members(Insert(r, t)) = Members(r) \cup {t}
         /\ r # <<>> => Head(Insert(r, t)) = Head(r)
         /\ Distinct(r) /\ t \notin Members(r) => Distinct(Insert(r, t))
<1> DEFINE q == Insert(r, t)
<1>0. Len(r) \in Nat /\ (r = <<>> <=> Len(r) = 0)
      /\ DOMAIN r = 1..Len(r) /\ \A i \in 1..Len(r) : r[i] \in S
  OBVIOUS
<1>1. /\ q \in Seq(S) /\ Len(q) = Len(r) + 1 /\ DOMAIN q = 1..(Len(r) + 1)
      /\ \A i \in 1..(Len(r) + 1) :
            q[i] = IF r = <<>> \/ i = 2 THEN t ELSE IF i = 1 THEN r[1] ELSE r[i - 1]
  <2>1. \A i \in 1..(Len(r) + 1) :
          (IF r = <<>> \/ i = 2 THEN t ELSE IF i = 1 THEN r[1] ELSE r[i - 1]) \in S
    BY <1>0
  <2>2. q \in [1..(Len(r) + 1) -> S]
    BY <2>1 DEF Insert
  <2>3. q \in Seq(S) /\ Len(q) = Len(r) + 1
    BY <2>2, <1>0, SeqDef, LenProperties
  <2> QED BY <2>2, <2>3 DEF Insert
<1>2. Members(q) = Members(r) \cup {t}
  <2>1. ASSUME NEW x \in Members(q) PROVE x \in Members(r) \cup {t}
    BY <1>0, <1>1 DEF Members
  <2>2. t \in Members(q)
    <3>1. CASE r = <<>>  BY <3>1, <1>0, <1>1 DEF Members
    <3>2. CASE r # <<>>
      <4>1. 2 \in DOMAIN q /\ q[2] = t  BY <3>2, <1>0, <1>1
      <4> QED BY <4>1 DEF Members
    <3> QED BY <3>1, <3>2
  <2>3. ASSUME NEW i \in DOMAIN r PROVE r[i] \in Members(q)
    <3>1. CASE i = 1
      <4>1. 1 \in DOMAIN q /\ q[1] = r[1]  BY <3>1, <1>0, <1>1
      <4> QED BY <4>1, <3>1 DEF Members
    <3>2. CASE i # 1
      <4>1. i + 1 \in DOMAIN q /\ q[i + 1] = r[i]  BY <3>2, <1>0, <1>1
      <4> QED BY <4>1 DEF Members
    <3> QED BY <3>1, <3>2
  <2> QED BY <2>1, <2>2, <2>3 DEF Members
<1>3. r # <<>> => Head(q) = Head(r)
  BY <1>0, <1>1
<1>4. ASSUME Distinct(r), t \notin Members(r) PROVE Distinct(q)
  <2>1. \A i \in 1..Len(r) : r[i] # t
    BY <1>0, <1>4 DEF Members
  <2>2. \A i, j \in 1..Len(r) : r[i] = r[j] => i = j
    BY <1>0, <1>4 DEF Distinct
  <2> HIDE DEF q
  <2> SUFFICES ASSUME NEW i \in 1..(Len(r) + 1), NEW j \in 1..(Len(r) + 1),
                      q[i] = q[j], i < j
               PROVE  FALSE
    BY <1>0, <1>1 DEF Distinct
  <2>3. CASE i = 1 /\ j = 2  BY <2>1, <2>3, <1>0, <1>1
  <2>4. CASE i = 1 /\ j > 2  BY <2>2, <2>4, <1>0, <1>1
  <2>5. CASE i = 2 /\ j > 2  BY <2>1, <2>5, <1>0, <1>1
  <2>6. CASE i > 2 /\ j > 2  BY <2>2, <2>6, <1>0, <1>1
  <2> QED BY <2>3, <2>4, <2>5, <2>6, <1>0
<1> QED BY <1>1, <1>2, <1>3, <1>4

\* thread_remove takes out its thread and nobody else; when that is not the
\* current one, the current one stays.
LEMMA RemoveRing ==
  ASSUME NEW S, NEW r \in Seq(S), NEW t \in Members(r), Distinct(r)
  PROVE  /\ Remove(r, t) \in Seq(S)
         /\ Len(Remove(r, t)) = Len(r) - 1
         /\ Members(Remove(r, t)) = Members(r) \ {t}
         /\ t # Head(r) => Head(Remove(r, t)) = Head(r)
         /\ Distinct(Remove(r, t))
<1> DEFINE p == CHOOSE i \in DOMAIN r : r[i] = t
           q == Remove(r, t)
<1>0. Len(r) \in Nat /\ DOMAIN r = 1..Len(r) /\ \A i \in 1..Len(r) : r[i] \in S
  OBVIOUS
<1>1. p \in 1..Len(r) /\ r[p] = t
  BY <1>0 DEF Members
<1> HIDE DEF p
<1>2. /\ q \in Seq(S) /\ Len(q) = Len(r) - 1 /\ DOMAIN q = 1..(Len(r) - 1)
      /\ \A i \in 1..(Len(r) - 1) : q[i] = IF i < p THEN r[i] ELSE r[i + 1]
  <2>1. \A i \in 1..(Len(r) - 1) : (IF i < p THEN r[i] ELSE r[i + 1]) \in S
    BY <1>0, <1>1
  <2>2. q = [i \in 1..(Len(r) - 1) |-> IF i < p THEN r[i] ELSE r[i + 1]]
    BY DEF Remove, p
  <2>3. q \in [1..(Len(r) - 1) -> S]
    BY <2>1, <2>2
  <2>4. Len(r) - 1 \in Nat
    BY <1>0, <1>1
  <2>5. q \in Seq(S) /\ Len(q) = Len(r) - 1
    <3> HIDE DEF q
    <3> QED BY <2>3, <2>4, SeqDef, LenProperties
  <2> QED BY <2>2, <2>3, <2>5
<1>3. Members(q) = Members(r) \ {t}
  <2>1. ASSUME NEW i \in DOMAIN q PROVE q[i] \in Members(r) \ {t}
    BY <1>0, <1>1, <1>2 DEF Members, Distinct
  <2>2. ASSUME NEW i \in DOMAIN r, r[i] # t PROVE r[i] \in Members(q)
    <3>1. CASE i < p
      <4>1. i \in DOMAIN q /\ q[i] = r[i]  BY <3>1, <1>0, <1>1, <1>2
      <4> QED BY <4>1 DEF Members
    <3>2. CASE i > p
      <4>1. i - 1 \in DOMAIN q /\ q[i - 1] = r[i]  BY <3>2, <1>0, <1>1, <1>2
      <4> QED BY <4>1 DEF Members
    <3> QED BY <3>1, <3>2, <2>2, <1>0, <1>1
  <2> QED BY <2>1, <2>2 DEF Members
<1>4. Distinct(q)
  <2>1. \A i, j \in 1..Len(r) : r[i] = r[j] => i = j
    BY <1>0 DEF Distinct
  <2> HIDE DEF q
  <2> SUFFICES ASSUME NEW i \in 1..(Len(r) - 1), NEW j \in 1..(Len(r) - 1),
                      q[i] = q[j]
               PROVE  i = j
    BY <1>2 DEF Distinct
  <2>2. CASE i < p /\ j < p  BY <2>1, <2>2, <1>0, <1>1, <1>2
  <2>3. CASE i < p /\ ~(j < p)  BY <2>1, <2>3, <1>0, <1>1, <1>2
  <2>4. CASE ~(i < p) /\ j < p  BY <2>1, <2>4, <1>0, <1>1, <1>2
  <2>5. CASE ~(i < p) /\ ~(j < p)  BY <2>1, <2>5, <1>0, <1>1, <1>2
  <2> QED BY <2>2, <2>3, <2>4, <2>5
<1>5. ASSUME t # Head(r) PROVE Head(q) = Head(r)
  <2>1. p # 1 /\ 1 \in 1..(Len(r) - 1) /\ 1 < p
    BY <1>0, <1>1, <1>5
  <2>2. q[1] = r[1]
    BY <1>2, <2>1
  <2> QED BY <1>0, <1>2, <2>1, <2>2
<1> QED BY <1>2, <1>3, <1>4, <1>5

\* Changing the current thread moves nobody in or out.
LEMMA TurnToRing ==
  ASSUME NEW S, NEW r \in Seq(S), NEW k \in DOMAIN r
  PROVE  /\ TurnTo(r, k) \in Seq(S)
         /\ Len(TurnTo(r, k)) = Len(r)
         /\ Members(TurnTo(r, k)) = Members(r)
         /\ Head(TurnTo(r, k)) = r[k]
         /\ Distinct(r) => Distinct(TurnTo(r, k))
<1> DEFINE q == TurnTo(r, k)
<1>0. /\ Len(r) \in Nat /\ DOMAIN r = 1..Len(r) /\ \A i \in 1..Len(r) : r[i] \in S
      /\ k \in 1..Len(r)
  OBVIOUS
<1>1. /\ q \in Seq(S) /\ Len(q) = Len(r) /\ DOMAIN q = 1..Len(r)
      /\ \A i \in 1..Len(r) : q[i] = IF i + k - 1 <= Len(r) THEN r[i + k - 1]
                                     ELSE r[i + k - 1 - Len(r)]
  <2>1. \A i \in 1..Len(r) : (IF i + k - 1 <= Len(r) THEN r[i + k - 1]
                              ELSE r[i + k - 1 - Len(r)]) \in S
    BY <1>0
  <2>2. q \in [1..Len(r) -> S]
    BY <2>1 DEF TurnTo
  <2>3. q \in Seq(S) /\ Len(q) = Len(r)
    BY <2>2, <1>0, SeqDef, LenProperties
  <2> QED BY <2>2, <2>3 DEF TurnTo
<1>2. Members(q) = Members(r)
  <2>1. ASSUME NEW i \in DOMAIN q PROVE q[i] \in Members(r)
    BY <1>0, <1>1 DEF Members
  <2>2. ASSUME NEW i \in DOMAIN r PROVE r[i] \in Members(q)
    <3>1. CASE i >= k
      <4>1. i - k + 1 \in DOMAIN q /\ q[i - k + 1] = r[i]  BY <3>1, <1>0, <1>1
      <4> QED BY <4>1 DEF Members
    <3>2. CASE i < k
      <4>1. i - k + 1 + Len(r) \in DOMAIN q /\ q[i - k + 1 + Len(r)] = r[i]
        BY <3>2, <1>0, <1>1
      <4> QED BY <4>1 DEF Members
    <3> QED BY <3>1, <3>2, <1>0
  <2> QED BY <2>1, <2>2 DEF Members
<1>3. Head(q) = r[k]
  BY <1>0, <1>1
<1>4. ASSUME Distinct(r) PROVE Distinct(q)
  <2>1. \A i, j \in 1..Len(r) : r[i] = r[j] => i = j
    BY <1>0, <1>4 DEF Distinct
  <2> HIDE DEF q
  <2> SUFFICES ASSUME NEW i \in 1..Len(r), NEW j \in 1..Len(r), q[i] = q[j]
               PROVE  i = j
    BY <1>1 DEF Distinct
  <2> DEFINE src(n) == IF n + k - 1 <= Len(r) THEN n + k - 1 ELSE n + k - 1 - Len(r)
  <2>2. /\ q[i] = r[src(i)] /\ src(i) \in 1..Len(r)
        /\ q[j] = r[src(j)] /\ src(j) \in 1..Len(r)
    BY <1>0, <1>1, SMTT(20)
  <2>3. src(i) = src(j)
    <3> HIDE DEF src
    <3> QED BY <2>1, <2>2
  <2> QED BY <2>3, <1>0
<1> QED BY <1>1, <1>2, <1>3, <1>4

\* The members of a ring are elements of its base set, and its head is one.
LEMMA MembersRing ==
  ASSUME NEW S, NEW r \in Seq(S)
  PROVE  /\ Members(r) \subseteq S
         /\ r # <<>> => Head(r) \in Members(r)
         /\ Members(r) # {} => r # <<>>
BY DEF Members

-----------------------------------------------------------------------------
USE BoundsAssumption, OperatorAssumption
    DEF KERNEL, IDLE, CMD, NULL, PRIO_HIGH, Thread, Med

Inv == TypeOK /\ RingSound /\ ArgSound

(***************************************************************************)
(* The scheduler, on any ring it is given: nobody joins or leaves, only    *)
(* the idle thread's enable flag changes, and the SYS stack is handed to   *)
(* the thread that becomes current.                                        *)
(***************************************************************************)
LEMMA NxtRing ==
  ASSUME TypeOK,
         NEW r \in Seq(Thread), Distinct(r), r # <<>>,
         NEW en \in [Thread -> BOOLEAN],
         NEW tss \in Thread \cup {NULL},
         thread_nxt(r, en, tss)
  PROVE  /\ ring' \in Seq(Thread) /\ ring' # <<>>
         /\ Members(ring') = Members(r) /\ Distinct(ring')
         /\ enable' \in [Thread -> BOOLEAN]
         /\ \A t \in Thread \ {IDLE} : enable'[t] = en[t]
         /\ idleCnt' \in [Thread -> Nat]
         /\ GiveSysStack(Head(ring'), tss)
<1> DEFINE cnt == [idleCnt EXCEPT ![Head(r)] = 0]
           ready == {i \in DOMAIN r : en[r[i]] /\ r[i] # IDLE}
<1>1. PICK i \in DOMAIN r :
        /\ ring' = TurnTo(r, i)
        /\ enable' = [en EXCEPT ![IDLE] = (ready = {})]
        /\ idleCnt' = [t \in Thread |->
                         cnt[t] + (IF \E j \in ready : r[j] = t THEN 1 ELSE 0)]
        /\ GiveSysStack(r[i], tss)
  BY DEF thread_nxt
<1>2. /\ ring' \in Seq(Thread) /\ Len(ring') = Len(r)
      /\ Members(ring') = Members(r) /\ Distinct(ring') /\ Head(ring') = r[i]
  BY <1>1, TurnToRing
<1>3. ring' # <<>>
  BY <1>2
<1>4. /\ enable' \in [Thread -> BOOLEAN]
      /\ \A t \in Thread \ {IDLE} : enable'[t] = en[t]
  BY <1>1
<1>5. idleCnt' \in [Thread -> Nat]
  <2>1. cnt \in [Thread -> Nat]
    BY DEF TypeOK
  <2> HIDE DEF cnt, ready
  <2> QED BY <1>1, <2>1
<1> QED BY <1>1, <1>2, <1>3, <1>4, <1>5

\* The stack variables keep their types when the SYS stack changes hands.
LEMMA GiveType ==
  ASSUME TypeOK, NEW t \in Thread, NEW tss \in Thread \cup {NULL},
         GiveSysStack(t, tss)
  PROVE  /\ threadSysStack' \in Thread \cup {NULL}
         /\ stackOf' \in Thread \cup {NULL}
         /\ saved' \in [Thread -> BOOLEAN]
<1>1. CASE useSysStack(t) /\ tss # t
  <2> DEFINE savedPrev == IF tss = NULL THEN saved
                          ELSE [saved EXCEPT ![tss] = (stackOf = tss)]
  <2>1. savedPrev \in [Thread -> BOOLEAN]
    BY DEF TypeOK
  <2>2. /\ stackOf' = IF savedPrev[t] THEN t ELSE NULL
        /\ saved' = [savedPrev EXCEPT ![t] = FALSE]
        /\ threadSysStack' = t
    BY <1>1 DEF GiveSysStack
  <2> HIDE DEF savedPrev
  <2> QED BY <2>1, <2>2
<1>2. CASE ~(useSysStack(t) /\ tss # t)
  BY <1>2 DEF GiveSysStack, TypeOK
<1> QED BY <1>1, <1>2

\* Switch, the scheduler on the ring as it is.
LEMMA SwitchKeeps ==
  ASSUME Inv, Switch
  PROVE  /\ ring' \in Seq(Thread) /\ ring' # <<>>
         /\ Members(ring') = Members(ring) /\ Distinct(ring')
         /\ enable' \in [Thread -> BOOLEAN]
         /\ \A t \in Thread \ {IDLE} : enable'[t] = enable[t]
         /\ idleCnt' \in [Thread -> Nat]
         /\ threadSysStack' \in Thread \cup {NULL}
         /\ stackOf' \in Thread \cup {NULL}
         /\ saved' \in [Thread -> BOOLEAN]
         /\ GiveSysStack(Head(ring'), threadSysStack)
<1>1. /\ ring \in Seq(Thread) /\ Distinct(ring) /\ ring # <<>>
      /\ enable \in [Thread -> BOOLEAN] /\ threadSysStack \in Thread \cup {NULL}
  BY DEF Inv, TypeOK, RingSound
<1>2. thread_nxt(ring, enable, threadSysStack)
  BY DEF Switch
<1>3. /\ ring' \in Seq(Thread) /\ ring' # <<>>
      /\ Members(ring') = Members(ring) /\ Distinct(ring')
      /\ enable' \in [Thread -> BOOLEAN]
      /\ \A t \in Thread \ {IDLE} : enable'[t] = enable[t]
      /\ idleCnt' \in [Thread -> Nat]
      /\ GiveSysStack(Head(ring'), threadSysStack)
  BY <1>1, <1>2, NxtRing DEF Inv
<1>4. Head(ring') \in Thread
  BY <1>3
<1> QED BY <1>1, <1>3, <1>4, GiveType DEF Inv

\* The scheduler gives the processor to the idle thread or to an enabled one.
LEMMA NxtHead ==
  ASSUME TypeOK,
         NEW r \in Seq(Thread), Distinct(r), r # <<>>,
         NEW en \in [Thread -> BOOLEAN], NEW tss,
         thread_nxt(r, en, tss)
  PROVE  Head(ring') = IDLE \/ en[Head(ring')]
<1> DEFINE ready == {i \in DOMAIN r : en[r[i]] /\ r[i] # IDLE}
<1>1. PICK i \in DOMAIN r : /\ ready = {} => r[i] = IDLE
                            /\ ready # {} => i \in ready
                            /\ ring' = TurnTo(r, i)
  BY DEF thread_nxt
<1>2. Head(ring') = r[i]
  BY <1>1, TurnToRing
<1> QED BY <1>1, <1>2

\* thread_doKill takes its thread and nobody else out of the ring; the end of
\* a MED enables the shell.
LEMMA KillKeeps ==
  ASSUME Inv, NEW t \in Alive \ {IDLE}, thread_doKill(t)
  PROVE  /\ ring' \in Seq(Thread) /\ ring' # <<>>
         /\ Members(ring') = Members(ring) \ {t} /\ Distinct(ring')
         /\ enable' \in [Thread -> BOOLEAN]
         /\ \A u \in Thread \ {IDLE, KERNEL} : enable'[u] = enable[u]
         /\ t \in Med => enable'[KERNEL] = TRUE
         /\ t \notin Med => enable'[KERNEL] = enable[KERNEL]
         /\ idleCnt' \in [Thread -> Nat]
         /\ masked' \in [Thread -> BOOLEAN]
         /\ threadSysStack' \in Thread \cup {NULL}
         /\ stackOf' \in Thread \cup {NULL}
         /\ saved' \in [Thread -> BOOLEAN]
         /\ fault' \in {"stale", fault}
<1> DEFINE rest == Remove(ring, t)
           en   == IF t \in Med THEN [enable EXCEPT ![KERNEL] = TRUE] ELSE enable
           tss  == IF t \in Med THEN NULL ELSE threadSysStack
<1>1. /\ ring \in Seq(Thread) /\ Distinct(ring) /\ t \in Members(ring)
      /\ IDLE \in Members(ring)
  BY DEF Inv, TypeOK, RingSound, Alive
<1>2. /\ rest \in Seq(Thread) /\ Members(rest) = Members(ring) \ {t} /\ Distinct(rest)
  BY <1>1, RemoveRing
<1>3. rest # <<>>
  <2>1. Members(rest) # {}
    BY <1>1, <1>2
  <2> HIDE DEF rest
  <2> QED BY <1>2, <2>1, MembersRing
<1>4. /\ en \in [Thread -> BOOLEAN] /\ tss \in Thread \cup {NULL}
      /\ \A u \in Thread \ {IDLE, KERNEL} : en[u] = enable[u]
      /\ t \in Med => en[KERNEL] = TRUE
      /\ t \notin Med => en[KERNEL] = enable[KERNEL]
  <2>1. enable \in [Thread -> BOOLEAN] /\ threadSysStack \in Thread \cup {NULL}
    BY DEF Inv, TypeOK
  <2>2. CASE t \in Med
    <3>1. en = [enable EXCEPT ![KERNEL] = TRUE] /\ tss = NULL
      BY <2>2
    <3> HIDE DEF en, tss
    <3>2. en \in [Thread -> BOOLEAN] /\ tss \in Thread \cup {NULL} /\ en[KERNEL] = TRUE
      BY <2>1, <3>1
    <3>3. \A u \in Thread \ {IDLE, KERNEL} : en[u] = enable[u]
      BY <2>1, <3>1
    <3> QED BY <2>2, <3>2, <3>3
  <2>3. CASE t \notin Med
    <3>1. en = enable /\ tss = threadSysStack
      BY <2>3
    <3> HIDE DEF en, tss
    <3> QED BY <2>1, <2>3, <3>1
  <2> QED BY <2>2, <2>3
<1>5. CASE t = threadCurrent
  <2>1. thread_nxt(rest, en, tss) /\ UNCHANGED <<masked, fault>>
    BY <1>5 DEF thread_doKill
  <2> HIDE DEF rest, en, tss
  <2>2. /\ ring' \in Seq(Thread) /\ ring' # <<>>
        /\ Members(ring') = Members(rest) /\ Distinct(ring')
        /\ enable' \in [Thread -> BOOLEAN]
        /\ \A u \in Thread \ {IDLE} : enable'[u] = en[u]
        /\ idleCnt' \in [Thread -> Nat]
        /\ GiveSysStack(Head(ring'), tss)
    BY <1>2, <1>3, <1>4, <2>1, NxtRing DEF Inv
  <2>3. Head(ring') \in Thread
    BY <2>2
  <2>4. /\ threadSysStack' \in Thread \cup {NULL}
        /\ stackOf' \in Thread \cup {NULL}
        /\ saved' \in [Thread -> BOOLEAN]
    BY <1>4, <2>2, <2>3, GiveType DEF Inv
  <2>5. masked' \in [Thread -> BOOLEAN]
    BY <2>1 DEF Inv, TypeOK
  <2>6. enable'[KERNEL] = en[KERNEL]
    BY <2>2
  <2>7. \A u \in Thread \ {IDLE, KERNEL} : enable'[u] = enable[u]
    BY <1>4, <2>2
  <2> QED BY <1>2, <1>4, <2>1, <2>2, <2>4, <2>5, <2>6, <2>7
<1>6. CASE t # threadCurrent
  <2>1. /\ ring' = rest /\ enable' = en /\ threadSysStack' = tss
        /\ masked' = [masked EXCEPT ![threadCurrent] = TRUE]
        /\ fault' \in {"stale", fault}
        /\ UNCHANGED <<idleCnt, stackOf, saved>>
    BY <1>6 DEF thread_doKill
  <2> HIDE DEF rest, en, tss
  <2> QED BY <1>2, <1>3, <1>4, <2>1 DEF Inv, TypeOK
<1> QED BY <1>5, <1>6

(***************************************************************************)
(* Inv is inductive.                                                       *)
(***************************************************************************)
LEMMA InitInv == Init => Inv
<1> SUFFICES ASSUME Init PROVE Inv
  OBVIOUS
<1>1. ring = <<0, 2, 1>> /\ nextPid = 3
  BY DEF Init
<1>2. ring \in Seq(Thread) /\ ring # <<>> /\ Len(ring) = 3
  BY <1>1
<1>3. RingSound
  BY <1>1, <1>2 DEF RingSound, Distinct, Members, Alive
<1>4. TypeOK
  <2>1. pc \in [Thread -> Label]
    BY DEF Init, Home, Label
  <2>2. /\ enable \in [Thread -> BOOLEAN] /\ priority \in [Thread -> 0..MaxPrio]
        /\ idleCnt \in [Thread -> Nat] /\ masked \in [Thread -> BOOLEAN]
        /\ arg \in [Thread -> Thread \cup {NULL}]
    BY DEF Init
  <2>3. saved \in [Thread -> BOOLEAN]
    BY DEF Init
  <2>4. nextPid \in 3..(MaxPid + 1) /\ rx \in 0..MaxLines /\ fault = "none"
    BY DEF Init
  <2>5. threadSysStack \in Thread \cup {NULL} /\ stackOf \in Thread \cup {NULL}
    BY DEF Init
  <2>6. argsFreed \subseteq Thread \cup {NULL}
    BY DEF Init
  <2>7. uartIrq \in BOOLEAN
    BY DEF Init
  <2> QED BY <1>2, <2>1, <2>2, <2>3, <2>4, <2>5, <2>6, <2>7 DEF TypeOK
<1>5. ArgSound
  BY DEF Init, ArgSound, Home
<1> QED BY <1>3, <1>4, <1>5 DEF Inv

LEMMA NextInv == Inv /\ [Next]_vars => Inv'
<1> SUFFICES ASSUME Inv, [Next]_vars PROVE Inv'
  OBVIOUS
<1> USE DEF Inv
<1>l. /\ \A l \in {"kill", "on", "off", "nice", "created", "away", "pause", "paused"} :
             l \in Label
      /\ \A t \in Thread : Home(t) \in {"shell", "poll"} /\ Home(t) \in Label
  BY DEF Label, Home
<1>r. ASSUME UNCHANGED <<ring, nextPid>> PROVE RingSound'
  BY <1>r DEF RingSound, Alive
<1>a. ASSUME UNCHANGED <<pc, arg>> PROVE ArgSound'
  BY <1>a DEF ArgSound
<1>s. ASSUME Switch, UNCHANGED <<priority, nextPid, argsFreed, masked, rx, uartIrq, fault>>,
             pc' \in [Thread -> Label], arg' \in [Thread -> Thread \cup {NULL}],
             ArgSound'
      PROVE  Inv'
  <2>1. TypeOK'
    BY <1>s, SwitchKeeps DEF TypeOK
  <2>2. RingSound'
    BY <1>s, SwitchKeeps DEF RingSound, Alive
  <2> QED BY <1>s, <2>1, <2>2
<1>d. ASSUME NEW t \in Alive \ {IDLE}, thread_doKill(t), nextPid' = nextPid,
             t = KERNEL => t \in KillTargets
      PROVE  RingSound'
  <2>1. Members(ring') = Members(ring) \ {t} /\ Distinct(ring')
    BY <1>d, KillKeeps
  <2>2. /\ IDLE \in Members(ring) /\ \A u \in Members(ring) : u < nextPid
        /\ KERNEL \in KillTargets \/ KERNEL \in Members(ring)
    BY DEF RingSound, Alive
  <2> QED BY <1>d, <2>1, <2>2 DEF RingSound, Alive
<1>w. ASSUME Wild("stale") PROVE Inv'
  <2>1. TypeOK'
    BY <1>w DEF Wild, TypeOK, ringVars, stackVars, uartVars
  <2> QED BY <1>w, <1>r, <1>a, <2>1 DEF Wild, ringVars
<1>1. CASE TimerTick
  BY <1>1, <1>s, <1>a DEF TimerTick, TypeOK, uartVars
<1>2. CASE UartLine
  <2>1. TypeOK'
    <3>1. rx + 1 \in 0..MaxLines
      BY <1>2 DEF UartLine, TypeOK
    <3> QED BY <1>2, <3>1 DEF UartLine, TypeOK, ringVars, stackVars
  <2> QED BY <1>2, <1>r, <1>a, <2>1 DEF UartLine, ringVars
<1>3. CASE cmd_line_INT
  <2>1. CASE CMD \in Alive
    <3>1. TypeOK'
      BY <1>3, <2>1 DEF cmd_line_INT, TypeOK, stackVars
    <3> QED BY <1>3, <2>1, <1>r, <1>a, <3>1 DEF cmd_line_INT
  <2>2. CASE CMD \notin Alive
    BY <1>3, <2>2, <1>w DEF cmd_line_INT
  <2> QED BY <2>1, <2>2
<1>4. CASE IdleYield
  BY <1>4, <1>s, <1>a DEF IdleYield, TypeOK, uartVars
<1>5. ASSUME NEW t \in {KERNEL, CMD}, CreateMed(t) PROVE Inv'
  <2>1. /\ nextPid \in Thread /\ nextPid \in Med /\ nextPid + 1 \in 3..(MaxPid + 1)
        /\ nextPid \notin Members(ring)
    BY <1>5 DEF CreateMed, TypeOK, RingSound, Alive
  <2>2. /\ ring' = Insert(ring, nextPid) /\ nextPid' = nextPid + 1
        /\ pc' = [pc EXCEPT ![t] = "created"]
        /\ arg' = [arg EXCEPT ![t] = nextPid]
        /\ rx' = IF t = CMD THEN rx - 1 ELSE rx
        /\ t = CMD => rx > 0
        /\ UNCHANGED <<enable, idleCnt, priority, masked, threadSysStack, stackOf,
                        saved, argsFreed, uartIrq, fault>>
    BY <1>5 DEF CreateMed, Goto, TakeLine, AtHome, stackVars
  <2>3. /\ ring' \in Seq(Thread) /\ Members(ring') = Members(ring) \cup {nextPid}
        /\ Distinct(ring') /\ ring' # <<>>
    <3>1. ring \in Seq(Thread) /\ Distinct(ring) /\ Len(ring) \in Nat
      BY DEF TypeOK, RingSound
    <3>2. /\ Insert(ring, nextPid) \in Seq(Thread)
          /\ Len(Insert(ring, nextPid)) = Len(ring) + 1
          /\ Members(Insert(ring, nextPid)) = Members(ring) \cup {nextPid}
          /\ Distinct(Insert(ring, nextPid))
      BY <2>1, <3>1, InsertRing
    <3> QED BY <2>2, <3>1, <3>2
  <2>4. rx' \in 0..MaxLines
    BY <2>2 DEF TypeOK
  <2>5. TypeOK'
    BY <1>l, <2>1, <2>2, <2>3, <2>4 DEF TypeOK
  <2>6. RingSound'
    <3>1. \A u \in Members(ring') : u < nextPid'
      <4>1. \A u \in Members(ring) : u < nextPid /\ u \in Int
        BY MembersRing DEF RingSound, Alive, TypeOK
      <4>2. nextPid \in Int
        BY DEF TypeOK
      <4> QED BY <2>2, <2>3, <4>1, <4>2
    <3>2. IDLE \in Members(ring') /\ (KERNEL \in KillTargets \/ KERNEL \in Members(ring'))
      BY <2>3 DEF RingSound, Alive
    <3> QED BY <2>3, <3>1, <3>2 DEF RingSound, Alive
  <2>7. ArgSound'
    BY <2>1, <2>2 DEF ArgSound, TypeOK
  <2> QED BY <2>5, <2>6, <2>7
<1>6. ASSUME NEW t \in {KERNEL, CMD}, CreateMedNoMem(t) PROVE Inv'
  <2>1. /\ pc' = [pc EXCEPT ![t] = "created"]
        /\ arg' = [arg EXCEPT ![t] = NULL]
        /\ rx' = IF t = CMD THEN rx - 1 ELSE rx
        /\ t = CMD => rx > 0
        /\ UNCHANGED <<ring, enable, idleCnt, priority, masked, nextPid, threadSysStack,
                        stackOf, saved, argsFreed, uartIrq, fault>>
    BY <1>6 DEF CreateMedNoMem, Goto, TakeLine, AtHome, ringVars, stackVars
  <2>2. rx' \in 0..MaxLines
    BY <2>1 DEF TypeOK
  <2>3. TypeOK'
    BY <1>l, <2>1, <2>2 DEF TypeOK
  <2>4. ArgSound'
    BY <2>1 DEF ArgSound, TypeOK
  <2> QED BY <1>r, <2>1, <2>3, <2>4
<1>7. ASSUME NEW t \in {KERNEL, CMD}, LaunchMed(t) PROVE Inv'
  <2>1. CASE arg[t] \in Alive
    <3> DEFINE en == [enable EXCEPT ![KERNEL] = FALSE, ![arg[t]] = TRUE]
    <3>1. /\ masked' = [masked EXCEPT ![t] = TRUE]
          /\ pc' = [pc EXCEPT ![t] = "away"] /\ arg' = [arg EXCEPT ![t] = arg[t]]
          /\ thread_nxt(ring, en, threadSysStack)
          /\ UNCHANGED <<priority, nextPid, argsFreed, rx, uartIrq, fault>>
      BY <1>7, <2>1 DEF LaunchMed, Goto, uartVars
    <3>2. en \in [Thread -> BOOLEAN]
      BY DEF TypeOK
    <3> HIDE DEF en
    <3>3. /\ ring' \in Seq(Thread) /\ ring' # <<>>
          /\ Members(ring') = Members(ring) /\ Distinct(ring')
          /\ enable' \in [Thread -> BOOLEAN] /\ idleCnt' \in [Thread -> Nat]
          /\ GiveSysStack(Head(ring'), threadSysStack)
      BY <3>1, <3>2, NxtRing DEF TypeOK, RingSound
    <3>4. /\ threadSysStack' \in Thread \cup {NULL} /\ stackOf' \in Thread \cup {NULL}
          /\ saved' \in [Thread -> BOOLEAN]
      <4>1. Head(ring') \in Thread
        BY <3>3
      <4> QED BY <4>1, <3>3, GiveType DEF TypeOK
    <3>5. TypeOK'
      BY <1>l, <3>1, <3>3, <3>4 DEF TypeOK
    <3>6. RingSound'
      BY <3>1, <3>3 DEF RingSound, Alive
    <3>7. ArgSound'
      BY <3>1 DEF ArgSound, TypeOK
    <3> QED BY <3>5, <3>6, <3>7
  <2>2. CASE arg[t] \notin Alive
    <3>1. /\ masked' = [masked EXCEPT ![t] = TRUE]
          /\ enable' = [enable EXCEPT ![KERNEL] = FALSE]
          /\ fault' \in {"uninit", "stale"}
          /\ UNCHANGED <<ring, idleCnt, priority, nextPid, threadSysStack, stackOf, saved,
                          pc, arg, argsFreed, rx, uartIrq>>
      BY <1>7, <2>2 DEF LaunchMed, stackVars, uartVars
    <3>2. TypeOK'
      BY <3>1 DEF TypeOK
    <3> QED BY <1>r, <1>a, <3>1, <3>2
  <2> QED BY <2>1, <2>2
<1>8. ASSUME NEW t \in {KERNEL, CMD}, BackFromMed(t) PROVE Inv'
  <2>1. /\ masked' = [masked EXCEPT ![t] = FALSE]
        /\ argsFreed' = argsFreed \cup {arg[t]}
        /\ pc' = [pc EXCEPT ![t] = Home(t)] /\ arg' = [arg EXCEPT ![t] = NULL]
        /\ UNCHANGED <<ring, enable, idleCnt, priority, nextPid, threadSysStack,
                        stackOf, saved, rx, uartIrq, fault>>
    BY <1>8 DEF BackFromMed, Goto, ringVars, stackVars, uartVars
  <2> DEFINE h == Home(t)
  <2>l. h \in Label /\ h \in {"shell", "poll"} /\ pc' = [pc EXCEPT ![t] = h]
    BY <1>l, <2>1
  <2> HIDE DEF h
  <2>2. /\ pc' \in [Thread -> Label] /\ arg' \in [Thread -> Thread \cup {NULL}]
        /\ masked' \in [Thread -> BOOLEAN] /\ argsFreed' \subseteq Thread \cup {NULL}
    <3>1. arg[t] \in Thread \cup {NULL}
      BY DEF TypeOK
    <3>2. pc' \in [Thread -> Label]
      BY <2>l DEF TypeOK
    <3>3. arg' \in [Thread -> Thread \cup {NULL}]
      BY <2>1 DEF TypeOK
    <3>4. masked' \in [Thread -> BOOLEAN]
      BY <2>1 DEF TypeOK
    <3>5. argsFreed' \subseteq Thread \cup {NULL}
      BY <2>1, <3>1 DEF TypeOK
    <3> QED BY <3>2, <3>3, <3>4, <3>5
  <2>3. TypeOK'
    BY <2>1, <2>2 DEF TypeOK
  <2>4. ArgSound'
    <3>1. pc \in [Thread -> Label] /\ arg \in [Thread -> Thread \cup {NULL}] /\ t \in Thread
      BY DEF TypeOK
    <3>2. \A u \in Thread : u # t => pc'[u] = pc[u] /\ arg'[u] = arg[u]
      BY <2>1, <2>l, <3>1
    <3>3. pc'[t] \in {"shell", "poll"}
      BY <2>l, <3>1
    <3> QED BY <3>2, <3>3 DEF ArgSound
  <2> QED BY <1>r, <2>1, <2>3, <2>4
<1>9. ASSUME NEW m \in Med, thread_exit(m) PROVE Inv'
  <2>1. /\ m \in Alive \ {KERNEL, IDLE} /\ thread_doKill(m)
        /\ UNCHANGED <<priority, nextPid, pc, arg, argsFreed, rx, uartIrq>>
    <3>1. Head(ring) \in Members(ring)
      BY MembersRing DEF TypeOK
    <3> QED BY <1>9, <3>1 DEF thread_exit, Running, threadCurrent, Alive, uartVars
  <2>2. TypeOK'
    BY <2>1, KillKeeps DEF TypeOK
  <2>3. RingSound'
    BY <1>d, <2>1
  <2> QED BY <1>a, <2>1, <2>2, <2>3
<1>10. ASSUME NEW l \in {"kill", "on", "off", "nice"}, NEW p \in Thread,
              l = "kill" => p \in KillTargets,
              l \in {"on", "off"} => p \in StateTargets,
              FindPid(l, p)
       PROVE  Inv'
  <2>1. /\ rx > 0 /\ rx' = rx - 1
        /\ \/ pc' = [pc EXCEPT ![CMD] = l] /\ arg' = [arg EXCEPT ![CMD] = p]
           \/ UNCHANGED <<pc, arg>>
        /\ UNCHANGED <<ring, enable, idleCnt, priority, masked, nextPid,
                        threadSysStack, stackOf, saved, argsFreed, uartIrq, fault>>
    BY <1>10 DEF FindPid, AtHome, Goto, TakeLine, ringVars, stackVars
  <2>2. TypeOK'
    <3>1. rx' \in 0..MaxLines
      BY <2>1 DEF TypeOK
    <3>2. pc' \in [Thread -> Label] /\ arg' \in [Thread -> Thread \cup {NULL}]
      <4>1. l \in Label
        BY <1>l
      <4>2. CASE UNCHANGED <<pc, arg>>
        BY <4>2 DEF TypeOK
      <4>3. CASE pc' = [pc EXCEPT ![CMD] = l] /\ arg' = [arg EXCEPT ![CMD] = p]
        BY <4>1, <4>3 DEF TypeOK
      <4> QED BY <2>1, <4>2, <4>3
    <3> QED BY <2>1, <3>1, <3>2 DEF TypeOK
  <2>3. ArgSound'
    <3>1. CASE UNCHANGED <<pc, arg>>
      BY <3>1, <1>a
    <3>2. CASE pc' = [pc EXCEPT ![CMD] = l] /\ arg' = [arg EXCEPT ![CMD] = p]
      <4>1. pc'[CMD] = l /\ arg'[CMD] = p
        BY <3>2 DEF TypeOK
      <4>2. \A t \in Thread : pc'[t] = "created" => arg'[t] \in Med \cup {NULL}
        BY <3>2 DEF ArgSound, TypeOK
      <4> QED BY <1>10, <4>1, <4>2 DEF ArgSound
    <3> QED BY <2>1, <3>1, <3>2
  <2> QED BY <1>r, <2>1, <2>2, <2>3
<1>11. CASE do_kill \/ do_ThreadState \/ do_ThreadNice
  BY <1>10, <1>11 DEF do_kill, do_ThreadState, do_ThreadNice
<1>12. CASE OtherCommand
  <2>1. rx > 0 /\ rx' = rx - 1 /\ UNCHANGED <<ring, enable, idleCnt, priority, masked,
           nextPid, threadSysStack, stackOf, saved, pc, arg, argsFreed, uartIrq, fault>>
    BY <1>12 DEF OtherCommand, AtHome, TakeLine, ringVars, stackVars
  <2>2. rx' \in 0..MaxLines
    BY <2>1 DEF TypeOK
  <2>3. TypeOK'
    BY <2>1, <2>2 DEF TypeOK
  <2> QED BY <1>r, <1>a, <2>1, <2>3
<1>13. CASE KillFound
  <2>1. CASE arg[CMD] \notin Alive
    BY <1>13, <2>1, <1>w DEF KillFound
  <2>2. CASE arg[CMD] \in Alive
    <3>1. /\ pc' = [pc EXCEPT ![CMD] = "poll"] /\ arg' = [arg EXCEPT ![CMD] = NULL]
          /\ UNCHANGED <<priority, nextPid, argsFreed, rx, uartIrq>>
          /\ arg[CMD] \in KillTargets
      BY <1>13, <2>2 DEF KillFound, Goto, ArgSound, uartVars
    <3>2. ArgSound'
      BY <3>1 DEF ArgSound, TypeOK
    <3>3. pc' \in [Thread -> Label] /\ arg' \in [Thread -> Thread \cup {NULL}]
      BY <3>1 DEF TypeOK, Label
    <3>4. CASE arg[CMD] = IDLE
      <4>1. UNCHANGED <<ring, enable, idleCnt, masked, threadSysStack, stackOf, saved, fault>>
        BY <1>13, <2>2, <3>4 DEF KillFound, ringVars, stackVars
      <4>2. TypeOK'
        BY <3>1, <3>3, <4>1 DEF TypeOK
      <4> QED BY <1>r, <3>1, <3>2, <4>1, <4>2
    <3>5. CASE arg[CMD] # IDLE
      <4>1. arg[CMD] \in Alive \ {IDLE} /\ thread_doKill(arg[CMD])
        BY <1>13, <2>2, <3>5 DEF KillFound
      <4>2. TypeOK'
        BY <3>1, <3>3, <4>1, KillKeeps DEF TypeOK
      <4>3. RingSound'
        BY <1>d, <3>1, <4>1
      <4> QED BY <3>2, <4>2, <4>3
    <3> QED BY <3>4, <3>5
  <2> QED BY <2>1, <2>2
<1>14. CASE SetStateFound
  <2>1. CASE arg[CMD] \notin Alive
    BY <1>14, <2>1, <1>w DEF SetStateFound
  <2>2. CASE arg[CMD] \in Alive
    <3>1. /\ enable' = [enable EXCEPT ![arg[CMD]] = (pc[CMD] = "on")]
          /\ masked' = [masked EXCEPT ![CMD] = FALSE]
          /\ pc' = [pc EXCEPT ![CMD] = "poll"] /\ arg' = [arg EXCEPT ![CMD] = NULL]
          /\ UNCHANGED <<ring, idleCnt, priority, nextPid, threadSysStack, stackOf,
                          saved, argsFreed, rx, uartIrq, fault>>
      BY <1>14, <2>2 DEF SetStateFound, Goto, stackVars, uartVars
    <3>2. pc' \in [Thread -> Label] /\ arg' \in [Thread -> Thread \cup {NULL}]
      BY <3>1 DEF TypeOK, Label
    <3>3. enable' \in [Thread -> BOOLEAN] /\ masked' \in [Thread -> BOOLEAN]
      BY <3>1 DEF TypeOK
    <3>4. TypeOK'
      BY <3>1, <3>2, <3>3 DEF TypeOK
    <3>5. ArgSound'
      BY <3>1 DEF ArgSound, TypeOK
    <3> QED BY <1>r, <3>1, <3>4, <3>5
  <2> QED BY <2>1, <2>2
<1>15. CASE NiceFound
  <2>1. CASE arg[CMD] \notin Alive
    BY <1>15, <2>1, <1>w DEF NiceFound
  <2>2. CASE arg[CMD] \in Alive
    <3>1. PICK v \in NicePrios :
            priority' = IF v \in 0..MaxPrio THEN [priority EXCEPT ![arg[CMD]] = v]
                                            ELSE priority
      BY <1>15, <2>2 DEF NiceFound
    <3>2. /\ pc' = [pc EXCEPT ![CMD] = "poll"] /\ arg' = [arg EXCEPT ![CMD] = NULL]
          /\ UNCHANGED <<ring, enable, idleCnt, masked, nextPid, threadSysStack,
                          stackOf, saved, argsFreed, rx, uartIrq, fault>>
      BY <1>15, <2>2 DEF NiceFound, Goto, ringVars, stackVars, uartVars
    <3>3. pc' \in [Thread -> Label] /\ arg' \in [Thread -> Thread \cup {NULL}]
      BY <3>2 DEF TypeOK, Label
    <3>4. TypeOK'
      BY <3>1, <3>2, <3>3 DEF TypeOK
    <3>5. ArgSound'
      BY <3>2 DEF ArgSound, TypeOK
    <3> QED BY <1>r, <3>2, <3>4, <3>5
  <2> QED BY <2>1, <2>2
<1>16. CASE NothingToRead
  <2>1. /\ pc' = [pc EXCEPT ![CMD] = "pause"] /\ arg' = [arg EXCEPT ![CMD] = NULL]
        /\ UNCHANGED <<ring, enable, idleCnt, priority, masked, nextPid, threadSysStack,
                        stackOf, saved, argsFreed, rx, uartIrq, fault>>
    BY <1>16 DEF NothingToRead, Goto, ringVars, stackVars, uartVars
  <2>2. TypeOK'
    BY <1>l, <2>1 DEF TypeOK
  <2>3. ArgSound'
    BY <2>1 DEF ArgSound, TypeOK
  <2> QED BY <1>r, <2>1, <2>2, <2>3
<1>17. CASE PauseDisable
  <2>1. /\ enable' = [enable EXCEPT ![CMD] = FALSE]
        /\ masked' = [masked EXCEPT ![CMD] = FALSE]
        /\ pc' = [pc EXCEPT ![CMD] = "paused"] /\ arg' = [arg EXCEPT ![CMD] = NULL]
        /\ UNCHANGED <<ring, idleCnt, priority, nextPid, threadSysStack,
                        stackOf, saved, argsFreed, rx, uartIrq, fault>>
    BY <1>17 DEF PauseDisable, Goto, stackVars, uartVars
  <2>2. TypeOK'
    BY <1>l, <2>1 DEF TypeOK
  <2>3. ArgSound'
    BY <2>1 DEF ArgSound, TypeOK
  <2> QED BY <1>r, <2>1, <2>2, <2>3
<1>18. CASE PauseYield
  <2>1. /\ pc' = [pc EXCEPT ![CMD] = "poll"] /\ arg' = [arg EXCEPT ![CMD] = NULL]
        /\ Switch
        /\ UNCHANGED <<priority, masked, nextPid, argsFreed, rx, uartIrq, fault>>
    BY <1>18 DEF PauseYield, Goto, uartVars
  <2>2. pc' \in [Thread -> Label] /\ arg' \in [Thread -> Thread \cup {NULL}]
    BY <2>1 DEF TypeOK, Label
  <2>3. ArgSound'
    BY <2>1 DEF ArgSound, TypeOK
  <2> QED BY <1>s, <2>1, <2>2, <2>3
<1>19. CASE UNCHANGED vars
  <2>1. TypeOK'
    BY <1>19 DEF vars, ringVars, stackVars, uartVars, TypeOK
  <2> QED BY <1>19, <1>r, <1>a, <2>1 DEF vars, ringVars
<1> QED
  BY <1>1, <1>2, <1>3, <1>4, <1>5, <1>6, <1>7, <1>8, <1>9, <1>11, <1>12, <1>13, <1>14,
     <1>15, <1>16, <1>17, <1>18, <1>19
     DEF Next, MedStep, CmdStep

\* Every variable keeps its type, whatever is typed, started or killed.
THEOREM TypeCorrect == Spec => []TypeOK
<1>1. Inv => TypeOK
  BY DEF Inv
<1> QED BY InitInv, NextInv, <1>1, PTL DEF Spec

\* The ring always holds each thread once, the idle thread among them: the
\* scheduler never runs out of threads.  KERNEL is there as well when "kill 0" is
\* not among the operator's commands; it is the only thread this depends on.
THEOREM RingAlwaysSound == Spec => []RingSound
<1>1. Inv => RingSound
  BY DEF Inv
<1> QED BY InitInv, NextInv, <1>1, PTL DEF Spec

(***************************************************************************)
(* The shell.  Only the launch of a MED and the operator disable KERNEL;   *)
(* the operator is assumed not to do it, and the launch to find its MED.   *)
(***************************************************************************)
LEMMA NextShell ==
  ASSUME KERNEL \notin StateTargets, Inv, ShellNeverLost, [Next]_vars,
         \A t \in {KERNEL, CMD} : LaunchMed(t) => arg[t] \in Alive
  PROVE  ShellNeverLost'
<1>i. Inv'
  BY NextInv
<1>k. /\ \A t \in Thread : useSysStack(t) <=> (t = KERNEL \/ t \in Med)
      /\ KERNEL \in Thread /\ IDLE # KERNEL
  BY DEF useSysStack
<1>u. ASSUME Members(ring') = Members(ring), enable'[KERNEL] = enable[KERNEL]
      PROVE  ShellNeverLost'
  BY <1>u DEF ShellNeverLost, Alive
<1>s. ASSUME Switch PROVE ShellNeverLost'
  BY <1>s, <1>u, <1>k, SwitchKeeps
<1>d. ASSUME NEW t \in Alive \ {IDLE}, thread_doKill(t) PROVE ShellNeverLost'
  <2>1. /\ Members(ring') = Members(ring) \ {t}
        /\ t \in Med => enable'[KERNEL] = TRUE
        /\ t \notin Med => enable'[KERNEL] = enable[KERNEL]
    BY <1>d, KillKeeps
  <2>2. CASE t \in Med  BY <2>1, <2>2 DEF ShellNeverLost
  <2>3. CASE t \notin Med  BY <2>1, <2>3 DEF ShellNeverLost, Alive
  <2> QED BY <2>2, <2>3
<1>1. CASE TimerTick \/ IdleYield \/ PauseYield
  BY <1>1, <1>s DEF TimerTick, IdleYield, PauseYield
<1>2. CASE UartLine \/ OtherCommand \/ NothingToRead \/ NiceFound
           \/ \E t \in {KERNEL, CMD} : CreateMedNoMem(t) \/ BackFromMed(t)
  BY <1>2, <1>u DEF UartLine, OtherCommand, NothingToRead, NiceFound, CreateMedNoMem,
                    BackFromMed, Wild, ringVars
<1>3. CASE cmd_line_INT \/ PauseDisable
  <2>1. /\ ring' = ring
        /\ enable' = enable \/ \E v \in BOOLEAN : enable' = [enable EXCEPT ![CMD] = v]
    BY <1>3 DEF cmd_line_INT, PauseDisable, Wild, ringVars
  <2>2. enable'[KERNEL] = enable[KERNEL]
    <3>1. enable \in [Thread -> BOOLEAN] /\ KERNEL \in Thread /\ CMD # KERNEL
      BY DEF Inv, TypeOK
    <3>2. CASE enable' = enable
      BY <3>2
    <3>3. ASSUME NEW v \in BOOLEAN, enable' = [enable EXCEPT ![CMD] = v]
          PROVE  enable'[KERNEL] = enable[KERNEL]
      BY <3>1, <3>3
    <3> QED BY <2>1, <3>2, <3>3
  <2> QED BY <1>u, <2>1, <2>2
<1>4. ASSUME NEW t \in {KERNEL, CMD}, CreateMed(t) PROVE ShellNeverLost'
  <2>1. ring' = Insert(ring, nextPid) /\ enable' = enable
        /\ nextPid \in Med /\ nextPid \in Thread /\ ring \in Seq(Thread)
    BY <1>4 DEF CreateMed, Inv, TypeOK
  <2>2. /\ Insert(ring, nextPid) \in Seq(Thread)
        /\ Len(Insert(ring, nextPid)) = Len(ring) + 1
        /\ Members(Insert(ring, nextPid)) = Members(ring) \cup {nextPid}
        /\ Distinct(Insert(ring, nextPid))
    <3>1. /\ ring \in Seq(Thread) /\ nextPid \in Thread /\ Distinct(ring)
          /\ nextPid \notin Members(ring)
      BY <2>1 DEF Inv, TypeOK, RingSound, Alive
    <3> QED BY <3>1, InsertRing
  <2>3. Members(ring') = Members(ring) \cup {nextPid}
    BY <2>1, <2>2
  <2> QED BY <2>1, <2>3 DEF ShellNeverLost, Alive
<1>5. ASSUME NEW t \in {KERNEL, CMD}, LaunchMed(t) PROVE ShellNeverLost'
  <2> DEFINE en == [enable EXCEPT ![KERNEL] = FALSE, ![arg[t]] = TRUE]
  <2>1. arg[t] \in Alive
    BY <1>5
  <2>2. thread_nxt(ring, en, threadSysStack) /\ arg[t] \in Members(ring) \cap Med
    <3>1. NULL \notin Alive
      BY MembersRing DEF Inv, TypeOK, Alive
    <3>2. arg[t] \in Med
      BY <1>5, <2>1, <3>1 DEF LaunchMed, Inv, ArgSound
    <3> QED BY <1>5, <2>1, <3>2 DEF LaunchMed, Alive
  <2>3. /\ en \in [Thread -> BOOLEAN] /\ threadSysStack \in Thread \cup {NULL}
        /\ ring \in Seq(Thread) /\ ring # <<>> /\ Distinct(ring)
    BY DEF Inv, TypeOK, RingSound
  <2> HIDE DEF en
  <2>4. Members(ring') = Members(ring)
    BY <2>2, <2>3, NxtRing DEF Inv
  <2> QED BY <2>2, <2>4 DEF ShellNeverLost, Alive
<1>6. ASSUME NEW m \in Med, thread_exit(m) PROVE ShellNeverLost'
  <2>1. m \in Alive \ {KERNEL, IDLE} /\ thread_doKill(m)
    <3>1. Head(ring) \in Members(ring)
      BY MembersRing DEF Inv, TypeOK
    <3> QED BY <1>6, <3>1 DEF thread_exit, Running, threadCurrent, Alive
  <2> QED BY <1>d, <2>1
<1>7. CASE do_kill \/ do_ThreadState \/ do_ThreadNice
  BY <1>7, <1>u DEF do_kill, do_ThreadState, do_ThreadNice, FindPid, ringVars
<1>8. CASE KillFound
  <2>1. CASE arg[CMD] \in Alive \ {IDLE}
    <3>1. arg[CMD] \in Alive \ {IDLE} /\ thread_doKill(arg[CMD])
      BY <1>8, <2>1 DEF KillFound
    <3> QED BY <1>d, <3>1
  <2>2. CASE arg[CMD] \notin Alive \ {IDLE}
    BY <1>8, <2>2, <1>u DEF KillFound, Wild, ringVars
  <2> QED BY <2>1, <2>2
<1>9. CASE SetStateFound
  <2>1. ring' = ring /\ arg[CMD] # KERNEL
        /\ \/ enable' = enable
           \/ enable' = [enable EXCEPT ![arg[CMD]] = (pc[CMD] = "on")]
    BY <1>9 DEF SetStateFound, Wild, ringVars, Inv, ArgSound
  <2>2. enable'[KERNEL] = enable[KERNEL]
    <3>1. enable \in [Thread -> BOOLEAN]
      BY DEF Inv, TypeOK
    <3>2. CASE enable' = enable
      BY <3>2
    <3>3. CASE enable' = [enable EXCEPT ![arg[CMD]] = (pc[CMD] = "on")]
      BY <2>1, <3>1, <3>3
    <3> QED BY <2>1, <3>2, <3>3
  <2> QED BY <1>u, <2>1, <2>2
<1>10. CASE UNCHANGED vars
  BY <1>10, <1>u DEF vars, ringVars
<1> QED
  BY <1>1, <1>2, <1>3, <1>4, <1>5, <1>6, <1>7, <1>8, <1>9, <1>10
     DEF Next, MedStep, CmdStep

LEMMA InitShell == Init => ShellNeverLost
<1> SUFFICES ASSUME Init PROVE ShellNeverLost
  OBVIOUS
<1>1. enable = [t \in Thread |-> t = KERNEL]
  BY DEF Init
<1>2. enable[KERNEL] = (KERNEL = KERNEL)
  BY <1>1
<1> QED BY <1>2 DEF ShellNeverLost

\* Unless the operator disables KERNEL, it is enabled whenever no MED is left,
\* whoever started, killed or ended the MEDs, as long as no start has failed and
\* no command has met a thread that ended: a launch that does not find its MED
\* is a fault.
THEOREM ShellComesBack ==
  ASSUME KERNEL \notin StateTargets
  PROVE  Spec => []ShellAlive
<1>1. Init => ShellAlive
  BY InitShell DEF ShellAlive
<1>2. ASSUME Inv, ShellAlive, [Next]_vars PROVE ShellAlive'
  <2>1. CASE fault' # "none"
    BY <2>1 DEF ShellAlive
  <2>2. CASE UNCHANGED vars
    BY <1>2, <2>2 DEF vars, ringVars, ShellAlive, ShellNeverLost, Alive
  <2>3. CASE fault' = "none" /\ Next
    <3>1. fault = "none"
      BY <2>3 DEF Next, TimerTick, UartLine, cmd_line_INT, IdleYield, MedStep, CmdStep,
        CreateMed, CreateMedNoMem, LaunchMed, BackFromMed, thread_exit, do_kill,
        do_ThreadState, do_ThreadNice, FindPid, OtherCommand, KillFound, SetStateFound,
        NiceFound, NothingToRead, PauseDisable, PauseYield, AtHome, Running
    <3>2. \A t \in {KERNEL, CMD} : LaunchMed(t) => arg[t] \in Alive
      <4> SUFFICES ASSUME NEW t \in {KERNEL, CMD}, LaunchMed(t),
                          arg[t] \notin Alive
                   PROVE  FALSE
        OBVIOUS
      <4>1. fault' \in {"uninit", "stale"}
        BY DEF LaunchMed
      <4> QED BY <2>3, <4>1
    <3> QED BY <1>2, <3>1, <3>2, NextShell DEF ShellAlive
  <2> QED BY <1>2, <2>1, <2>2, <2>3
<1> QED BY InitInv, NextInv, <1>1, <1>2, PTL DEF Spec

LEMMA NextLaunch ==
  ASSUME ~MemFails, (KillTargets \cup StateTargets) \cap (Med \cup {KERNEL}) = {},
         Inv, LaunchSound, [Next]_vars
  PROVE  LaunchSound'
<1>t. /\ TypeOK /\ ring \in Seq(Thread) /\ ring # <<>> /\ Distinct(ring)
      /\ enable \in [Thread -> BOOLEAN] /\ nextPid \in 3..(MaxPid + 1)
      /\ threadSysStack \in Thread \cup {NULL}
      /\ pc \in [Thread -> Label] /\ arg \in [Thread -> Thread \cup {NULL}]
      /\ Alive = Members(ring) /\ Alive \subseteq Thread
      /\ threadCurrent \in Alive /\ \A u \in Alive : u < nextPid
  BY MembersRing DEF Inv, TypeOK, RingSound, Alive, threadCurrent
<1>c. ASSUME NEW t \in {KERNEL, CMD}, pc[t] = "created"
      PROVE  /\ t \in Thread /\ arg[t] \in Alive \cap Med /\ arg[t] # threadCurrent
             /\ enable[arg[t]] = FALSE
             /\ \A u \in {KERNEL, CMD} \ {t} : pc[u] = "created" => arg[u] # arg[t]
  <2>1. t \in Thread /\ NULL \notin Alive
    BY <1>t
  <2>2. arg[t] \in Alive /\ arg[t] \in Med
    BY <1>c, <2>1 DEF LaunchSound, Inv, ArgSound
  <2>3. enable[arg[t]] = FALSE
    <3>1. enable[arg[t]] \in BOOLEAN
      BY <1>t, <2>2
    <3> QED BY <1>c, <3>1 DEF LaunchSound
  <2> QED BY <1>c, <2>1, <2>2, <2>3 DEF LaunchSound
\* Steps in which no MED is created or launched.
<1>u. ASSUME nextPid' = nextPid,
             \A t \in {KERNEL, CMD} :
               pc'[t] = "created" => pc[t] = "created" /\ arg'[t] = arg[t],
             \A m \in Med : enable'[m] = enable[m],
             \A m \in Alive \cap Med : m # threadCurrent => m \in Members(ring'),
             \/ Head(ring') = Head(ring) \/ Head(ring') \notin Med
             \/ enable[Head(ring')] = TRUE
      PROVE  LaunchSound'
  <2>1. ASSUME NEW t \in {KERNEL, CMD}, pc'[t] = "created"
        PROVE  /\ arg'[t] \in Members(ring') /\ ~enable'[arg'[t]] /\ arg'[t] # Head(ring')
               /\ \A u \in {KERNEL, CMD} \ {t} : pc'[u] = "created" => arg'[u] # arg'[t]
    <3>1. pc[t] = "created" /\ arg'[t] = arg[t]
      BY <1>u, <2>1
    <3>2. /\ arg[t] \in Alive \cap Med /\ arg[t] # threadCurrent
          /\ enable[arg[t]] = FALSE
          /\ \A u \in {KERNEL, CMD} \ {t} : pc[u] = "created" => arg[u] # arg[t]
      BY <1>c, <3>1
    <3>3. arg[t] \in Members(ring') /\ enable'[arg[t]] = FALSE
      BY <1>u, <3>2
    <3>4. arg[t] # Head(ring')
      BY <1>u, <3>2 DEF threadCurrent
    <3>5. \A u \in {KERNEL, CMD} \ {t} : pc'[u] = "created" => arg'[u] # arg'[t]
      BY <1>u, <3>1, <3>2
    <3> QED BY <3>1, <3>3, <3>4, <3>5
  <2>2. ASSUME NEW p \in nextPid..MaxPid PROVE ~enable'[p]
    <3>1. p \in Med
      BY <1>t
    <3> QED BY <1>u, <3>1 DEF LaunchSound
  <2> QED BY <1>u, <2>1, <2>2 DEF LaunchSound, Alive, threadCurrent
<1>e. ASSUME UNCHANGED <<ring, nextPid>>, \A m \in Med : enable'[m] = enable[m],
             \A t \in {KERNEL, CMD} :
               pc'[t] = "created" => pc[t] = "created" /\ arg'[t] = arg[t]
      PROVE  LaunchSound'
  <2>1. \A m \in Alive \cap Med : m \in Members(ring')
    BY <1>e DEF Alive
  <2>2. Head(ring') = Head(ring)
    BY <1>e
  <2> QED BY <1>u, <1>e, <2>1, <2>2
<1>s. ASSUME Switch, nextPid' = nextPid,
             \A t \in {KERNEL, CMD} :
               pc'[t] = "created" => pc[t] = "created" /\ arg'[t] = arg[t]
      PROVE  LaunchSound'
  <2>1. /\ Members(ring') = Members(ring)
        /\ \A t \in Thread \ {IDLE} : enable'[t] = enable[t]
    BY <1>s, SwitchKeeps
  <2>2. Head(ring') = IDLE \/ enable[Head(ring')] = TRUE
    <3>1. ring' \in Seq(Thread) /\ ring' # <<>>
      BY <1>s, SwitchKeeps
    <3>2. Head(ring') = IDLE \/ enable[Head(ring')]
      BY <1>s, <1>t, NxtHead DEF Switch
    <3> QED BY <3>2
  <2>3. \A m \in Med : enable'[m] = enable[m]
    BY <2>1
  <2>4. \A m \in Alive \cap Med : m \in Members(ring')
    BY <2>1 DEF Alive
  <2>5. Head(ring') \notin Med \/ enable[Head(ring')] = TRUE
    BY <2>2
  <2> QED BY <1>s, <1>u, <2>3, <2>4, <2>5
<1>d. ASSUME NEW k \in Alive \ {IDLE}, thread_doKill(k), nextPid' = nextPid,
             k = threadCurrent \/ k \notin Med,
             \A t \in {KERNEL, CMD} :
               pc'[t] = "created" => pc[t] = "created" /\ arg'[t] = arg[t]
      PROVE  LaunchSound'
  <2> DEFINE rest == Remove(ring, k)
             en   == IF k \in Med THEN [enable EXCEPT ![KERNEL] = TRUE] ELSE enable
             tss  == IF k \in Med THEN NULL ELSE threadSysStack
  <2>1. /\ Members(ring') = Members(ring) \ {k}
        /\ \A u \in Thread \ {IDLE, KERNEL} : enable'[u] = enable[u]
    BY <1>d, KillKeeps
  <2>2. \A m \in Med : enable'[m] = enable[m]
    BY <2>1
  <2>3. \A m \in Alive \cap Med : m # threadCurrent => m \in Members(ring')
    BY <1>d, <2>1 DEF Alive
  <2>4. /\ rest \in Seq(Thread) /\ Distinct(rest) /\ Members(rest) = Members(ring) \ {k}
        /\ k # Head(ring) => Head(rest) = Head(ring)
    BY <1>t, <1>d, RemoveRing
  <2>5. IDLE \in Members(rest)
    BY <1>d, <2>4 DEF Inv, RingSound, Alive
  <2>6. /\ en \in [Thread -> BOOLEAN] /\ \A m \in Med : en[m] = enable[m]
    <3>1. en = enable \/ en = [enable EXCEPT ![KERNEL] = TRUE]
      OBVIOUS
    <3> HIDE DEF en
    <3>2. enable \in [Thread -> BOOLEAN]
      BY <1>t
    <3>3. CASE en = enable
      BY <3>2, <3>3
    <3>4. CASE en = [enable EXCEPT ![KERNEL] = TRUE]
      <4>1. en \in [Thread -> BOOLEAN]
        BY <3>2, <3>4
      <4>2. ASSUME NEW m \in Med PROVE en[m] = enable[m]
        <5>1. m \in Thread /\ m # KERNEL
          OBVIOUS
        <5> QED BY <3>2, <3>4, <5>1
      <4> QED BY <4>1, <4>2
    <3> QED BY <3>1, <3>3, <3>4
  <2> HIDE DEF rest, en, tss
  <2>7. rest # <<>>
    BY <2>4, <2>5, MembersRing
  <2>8. CASE k = threadCurrent
    <3>1. thread_nxt(rest, en, tss)
      BY <1>d, <2>8 DEF thread_doKill, rest, en, tss
    <3>2. Head(ring') = IDLE \/ en[Head(ring')]
      BY <1>t, <2>4, <2>6, <2>7, <3>1, NxtHead
    <3>3. Head(ring') \notin Med \/ enable[Head(ring')] = TRUE
      <4>1. CASE Head(ring') \in Med /\ en[Head(ring')]
        <5>1. enable[Head(ring')] = en[Head(ring')] /\ en[Head(ring')] \in BOOLEAN
          BY <2>6, <4>1
        <5> QED BY <4>1, <5>1
      <4>2. CASE Head(ring') = IDLE
        BY <4>2
      <4> QED BY <3>2, <4>1, <4>2
    <3> QED BY <1>d, <1>u, <2>2, <2>3, <3>3
  <2>9. CASE k # threadCurrent
    <3>1. ring' = rest
      BY <1>d, <2>9 DEF thread_doKill, rest
    <3>2. Head(ring') = Head(ring)
      BY <2>4, <2>9, <3>1 DEF threadCurrent
    <3> QED BY <1>d, <1>u, <2>2, <2>3, <3>2
  <2> QED BY <2>8, <2>9
<1>l. \A l \in {"kill", "on", "off", "nice", "away", "pause", "paused", "shell", "poll"} :
        l # "created"
  OBVIOUS
\* A thread other than CMD, and CMD at a label that is not "created".
<1>g. ASSUME NEW l, l # "created", NEW a, Goto(CMD, l, a)
      PROVE  \A t \in {KERNEL, CMD} :
               pc'[t] = "created" => pc[t] = "created" /\ arg'[t] = arg[t]
  BY <1>t, <1>g DEF Goto
<1>1. CASE TimerTick \/ IdleYield
  BY <1>1, <1>s DEF TimerTick, IdleYield
<1>2. CASE PauseYield
  BY <1>2, <1>s, <1>g DEF PauseYield
<1>3. CASE UartLine \/ OtherCommand
  BY <1>3, <1>e DEF UartLine, OtherCommand, ringVars
<1>4. CASE NothingToRead
  <2>1. UNCHANGED <<ring, nextPid, enable>> /\ Goto(CMD, "pause", NULL)
    BY <1>4 DEF NothingToRead, ringVars
  <2> QED BY <1>e, <1>g, <2>1
<1>5. CASE NiceFound
  <2>1. /\ UNCHANGED <<ring, nextPid, enable>>
        /\ Goto(CMD, "poll", NULL) \/ UNCHANGED <<pc, arg>>
    BY <1>5 DEF NiceFound, Wild, ringVars
  <2>2. \A t \in {KERNEL, CMD} :
          pc'[t] = "created" => pc[t] = "created" /\ arg'[t] = arg[t]
    BY <1>g, <2>1
  <2> QED BY <1>e, <2>1, <2>2
<1>6. CASE cmd_line_INT \/ PauseDisable
  <2>1. /\ UNCHANGED <<ring, nextPid>>
        /\ Goto(CMD, "paused", NULL) \/ UNCHANGED <<pc, arg>>
        /\ enable' = enable \/ \E v \in BOOLEAN : enable' = [enable EXCEPT ![CMD] = v]
    BY <1>6 DEF cmd_line_INT, PauseDisable, Wild, ringVars
  <2>2. \A m \in Med : enable'[m] = enable[m]
    BY <1>t, <2>1
  <2>3. \A t \in {KERNEL, CMD} :
          pc'[t] = "created" => pc[t] = "created" /\ arg'[t] = arg[t]
    BY <1>g, <2>1
  <2> QED BY <1>e, <2>1, <2>2, <2>3
<1>7. CASE do_kill \/ do_ThreadState \/ do_ThreadNice
  <2>1. PICK l \in {"kill", "on", "off", "nice"}, q \in Thread : FindPid(l, q)
    BY <1>7, OperatorAssumption DEF do_kill, do_ThreadState, do_ThreadNice
  <2>2. /\ UNCHANGED <<ring, nextPid, enable>>
        /\ Goto(CMD, l, q) \/ UNCHANGED <<pc, arg>>
    BY <2>1 DEF FindPid, ringVars
  <2>3. \A t \in {KERNEL, CMD} :
          pc'[t] = "created" => pc[t] = "created" /\ arg'[t] = arg[t]
    BY <1>g, <1>l, <2>2
  <2> QED BY <1>e, <2>2, <2>3
<1>8. CASE SetStateFound
  <2>1. /\ UNCHANGED <<ring, nextPid>> /\ arg[CMD] \notin Med
        /\ Goto(CMD, "poll", NULL) \/ UNCHANGED <<pc, arg>>
        /\ \/ enable' = enable
           \/ enable' = [enable EXCEPT ![arg[CMD]] = (pc[CMD] = "on")]
    BY <1>8 DEF SetStateFound, Wild, ringVars, Inv, ArgSound
  <2>2. \A m \in Med : enable'[m] = enable[m]
    BY <1>t, <2>1
  <2>3. \A t \in {KERNEL, CMD} :
          pc'[t] = "created" => pc[t] = "created" /\ arg'[t] = arg[t]
    BY <1>g, <2>1
  <2> QED BY <1>e, <2>1, <2>2, <2>3
<1>9. CASE KillFound
  <2>1. CASE arg[CMD] \in Alive \ {IDLE}
    <3>1. /\ thread_doKill(arg[CMD]) /\ nextPid' = nextPid /\ arg[CMD] \notin Med
          /\ Goto(CMD, "poll", NULL)
      BY <1>9, <2>1 DEF KillFound, Inv, ArgSound
    <3>2. \A t \in {KERNEL, CMD} :
            pc'[t] = "created" => pc[t] = "created" /\ arg'[t] = arg[t]
      BY <1>g, <3>1
    <3> QED BY <1>d, <2>1, <3>1, <3>2
  <2>2. CASE arg[CMD] \notin Alive \ {IDLE}
    <3>1. /\ UNCHANGED <<ring, nextPid, enable>>
          /\ Goto(CMD, "poll", NULL) \/ UNCHANGED <<pc, arg>>
      BY <1>9, <2>2 DEF KillFound, Wild, ringVars
    <3>2. \A t \in {KERNEL, CMD} :
            pc'[t] = "created" => pc[t] = "created" /\ arg'[t] = arg[t]
      BY <1>g, <3>1
    <3> QED BY <1>e, <3>1, <3>2
  <2> QED BY <2>1, <2>2
<1>10. ASSUME NEW m \in Med, thread_exit(m) PROVE LaunchSound'
  <2>1. /\ m \in Alive \ {IDLE} /\ m = threadCurrent /\ thread_doKill(m)
        /\ UNCHANGED <<nextPid, pc, arg>>
    BY <1>10, <1>t DEF thread_exit, Running
  <2> QED BY <1>d, <2>1
<1>11. ASSUME NEW t \in {KERNEL, CMD}, CreateMedNoMem(t) PROVE LaunchSound'
  BY <1>11 DEF CreateMedNoMem
<1>12. ASSUME NEW t \in {KERNEL, CMD}, CreateMed(t) PROVE LaunchSound'
  <2>1. /\ ring' = Insert(ring, nextPid) /\ nextPid' = nextPid + 1 /\ enable' = enable
        /\ pc' = [pc EXCEPT ![t] = "created"] /\ arg' = [arg EXCEPT ![t] = nextPid]
        /\ nextPid \in Thread /\ nextPid \notin Members(ring) /\ nextPid \in nextPid..MaxPid
    BY <1>12, <1>t DEF CreateMed, Goto
  <2>2. Members(ring') = Members(ring) \cup {nextPid} /\ Head(ring') = Head(ring)
    <3>1. /\ ring \in Seq(Thread) /\ Distinct(ring) /\ nextPid \in Thread
          /\ nextPid \notin Members(ring)
      BY <1>t, <2>1
    <3>2. /\ Insert(ring, nextPid) \in Seq(Thread)
          /\ Len(Insert(ring, nextPid)) = Len(ring) + 1
          /\ Members(Insert(ring, nextPid)) = Members(ring) \cup {nextPid}
          /\ ring # <<>> => Head(Insert(ring, nextPid)) = Head(ring)
          /\ Distinct(Insert(ring, nextPid))
      BY <3>1, InsertRing
    <3> QED BY <1>t, <2>1, <3>2
  <2>3. ~enable[nextPid]
    BY <2>1 DEF LaunchSound
  <2>4. pc'[t] = "created" /\ arg'[t] = nextPid
    BY <1>t, <2>1
  <2>5. ASSUME NEW u \in {KERNEL, CMD}, u # t, pc'[u] = "created"
        PROVE  /\ arg'[u] \in Members(ring') /\ ~enable'[arg'[u]]
               /\ arg'[u] # Head(ring') /\ arg'[u] # nextPid
    <3>1. pc[u] = "created" /\ arg'[u] = arg[u]
      BY <1>t, <2>1, <2>5
    <3> QED BY <1>c, <1>t, <2>1, <2>2, <3>1 DEF threadCurrent
  <2>6. nextPid # Head(ring')
    BY <1>t, <2>1, <2>2 DEF threadCurrent
  <2>7. \A p \in nextPid'..MaxPid : ~enable'[p]
    <3>1. nextPid'..MaxPid \subseteq nextPid..MaxPid
      BY <1>t, <2>1
    <3> QED BY <2>1, <3>1 DEF LaunchSound
  <2>8. ASSUME NEW v \in {KERNEL, CMD}, pc'[v] = "created"
        PROVE  /\ arg'[v] \in Members(ring') /\ ~enable'[arg'[v]] /\ arg'[v] # Head(ring')
               /\ \A u \in {KERNEL, CMD} \ {v} : pc'[u] = "created" => arg'[u] # arg'[v]
    <3>1. CASE v = t
      BY <2>1, <2>2, <2>3, <2>4, <2>5, <2>6, <3>1
    <3>2. CASE v # t
      BY <2>4, <2>5, <2>8, <3>2
    <3> QED BY <3>1, <3>2
  <2> QED BY <2>7, <2>8 DEF LaunchSound, Alive, threadCurrent
<1>13. ASSUME NEW t \in {KERNEL, CMD}, LaunchMed(t) PROVE LaunchSound'
  <2> DEFINE en == [enable EXCEPT ![KERNEL] = FALSE, ![arg[t]] = TRUE]
  <2>1. /\ pc[t] = "created" /\ t \in Thread /\ arg[t] \in Alive \cap Med
        /\ \A u \in {KERNEL, CMD} \ {t} : pc[u] = "created" => arg[u] # arg[t]
    BY <1>13, <1>c DEF LaunchMed
  <2>2. KERNEL \in Alive
    BY DEF Inv, RingSound
  <2>3. /\ thread_nxt(ring, en, threadSysStack) /\ nextPid' = nextPid
        /\ pc' = [pc EXCEPT ![t] = "away"] /\ arg' = [arg EXCEPT ![t] = arg[t]]
    BY <1>13, <2>1, <2>2 DEF LaunchMed, Goto
  <2>4. /\ en \in [Thread -> BOOLEAN]
        /\ \A m \in Med : m # arg[t] => en[m] = enable[m]
    <3>1. enable \in [Thread -> BOOLEAN] /\ arg[t] \in Thread
      BY <1>t, <2>1
    <3>2. en \in [Thread -> BOOLEAN]
      BY <3>1
    <3>3. ASSUME NEW m \in Med, m # arg[t] PROVE en[m] = enable[m]
      BY <3>1, <3>3
    <3> QED BY <3>2, <3>3
  <2> HIDE DEF en
  <2>5. /\ ring' \in Seq(Thread) /\ ring' # <<>> /\ Members(ring') = Members(ring)
        /\ \A u \in Thread \ {IDLE} : enable'[u] = en[u]
    BY <1>t, <2>3, <2>4, NxtRing
  <2>6. Head(ring') = IDLE \/ en[Head(ring')]
    BY <1>t, <2>3, <2>4, NxtHead
  <2>7. ASSUME NEW u \in {KERNEL, CMD}, pc'[u] = "created"
        PROVE  /\ arg'[u] \in Members(ring') /\ ~enable'[arg'[u]] /\ arg'[u] # Head(ring')
               /\ \A v \in {KERNEL, CMD} \ {u} : pc'[v] = "created" => arg'[v] # arg'[u]
    <3>1. u # t /\ pc[u] = "created" /\ arg'[u] = arg[u]
      BY <1>t, <2>1, <2>3, <2>7
    <3>2. arg[u] \in Alive \cap Med /\ enable[arg[u]] = FALSE /\ arg[u] # arg[t]
      BY <1>c, <2>1, <3>1
    <3>3. enable'[arg[u]] = FALSE /\ en[arg[u]] = FALSE
      BY <2>4, <2>5, <3>2
    <3>4. arg[u] # Head(ring')
      BY <2>6, <3>2, <3>3
    <3>5. \A v \in {KERNEL, CMD} \ {u} : pc'[v] = "created" => arg'[v] # arg'[u]
      BY <1>t, <2>1, <2>3, <3>1
    <3> QED BY <1>t, <2>5, <3>1, <3>2, <3>3, <3>4, <3>5
  <2>8. ASSUME NEW p \in nextPid'..MaxPid PROVE ~enable'[p]
    <3>1. p \in Med /\ p # arg[t] /\ p \in nextPid..MaxPid
      BY <1>t, <2>1, <2>3
    <3>2. enable'[p] = enable[p]
      BY <2>4, <2>5, <3>1
    <3> QED BY <3>1, <3>2 DEF LaunchSound
  <2> QED BY <2>7, <2>8 DEF LaunchSound, Alive, threadCurrent
<1>14. ASSUME NEW t \in {KERNEL, CMD}, BackFromMed(t) PROVE LaunchSound'
  <2>1. /\ UNCHANGED <<ring, nextPid, enable>> /\ Home(t) # "created"
        /\ pc' = [pc EXCEPT ![t] = Home(t)] /\ arg' = [arg EXCEPT ![t] = NULL]
    BY <1>14 DEF BackFromMed, Goto, Home, ringVars
  <2>2. \A u \in {KERNEL, CMD} :
          pc'[u] = "created" => pc[u] = "created" /\ arg'[u] = arg[u]
    BY <1>t, <2>1
  <2> QED BY <1>e, <2>1, <2>2
<1>15. CASE UNCHANGED vars
  BY <1>15, <1>e DEF vars, ringVars
<1> QED
  BY <1>1, <1>2, <1>3, <1>4, <1>5, <1>6, <1>7, <1>8, <1>9, <1>10, <1>11, <1>12, <1>13,
     <1>14, <1>15 DEF Next, MedStep, CmdStep

\* The shell is never lost, with no reserve for faults: while every MED finds
\* memory, and the operator neither kills nor enables nor disables the shell or a
\* MED (he may any other thread, and starts as many MEDs as he likes), KERNEL is
\* enabled whenever no MED is left.
THEOREM ShellKept ==
  ASSUME ~MemFails, (KillTargets \cup StateTargets) \cap (Med \cup {KERNEL}) = {}
  PROVE  Spec => []ShellNeverLost
<1>1. Init => LaunchSound
  <2> SUFFICES ASSUME Init PROVE LaunchSound
    OBVIOUS
  <2>1. /\ enable = [t \in Thread |-> t = KERNEL] /\ nextPid = 3
        /\ pc = [t \in Thread |-> Home(t)]
    BY DEF Init
  <2>2. pc[KERNEL] = "shell" /\ pc[CMD] = "poll"
    BY <2>1 DEF Home
  <2>3. \A p \in nextPid..MaxPid : ~enable[p]
    BY <2>1
  <2> QED BY <2>2, <2>3 DEF LaunchSound
<1>2. Inv /\ LaunchSound /\ [Next]_vars => LaunchSound'
  BY NextLaunch
<1>3. ASSUME Inv, LaunchSound, ShellNeverLost, [Next]_vars PROVE ShellNeverLost'
  <2>1. \A t \in {KERNEL, CMD} : LaunchMed(t) => arg[t] \in Alive
    BY <1>3 DEF LaunchMed, LaunchSound, Inv, RingSound
  <2> QED BY <1>3, <2>1, NextShell
<1> QED BY InitInv, NextInv, InitShell, <1>1, <1>2, <1>3, PTL DEF Spec

(***************************************************************************)
(* The SYS stack.  threadSysStack alone does not say whose frames are in   *)
(* the area, nor that a thread about to run can get its own back: that is  *)
(* StackSound, kept by every step as long as no MED is killed from         *)
(* outside.                                                                *)
(***************************************************************************)

\* Handing the area to t, among the threads A of the ring and those of B whose
\* frames must not be lost.
LEMMA GiveKeeps ==
  ASSUME TypeOK, NEW t \in Thread, NEW tss \in Thread \cup {NULL},
         NEW A \in SUBSET Thread, NEW B \in SUBSET Thread, A \subseteq B, t \in A,
         tss # NULL => tss \in A /\ useSysStack(tss) /\ stackOf = tss,
         \A u \in B : useSysStack(u) /\ u # tss => saved[u],
         GiveSysStack(t, tss)
  PROVE  /\ threadSysStack' # NULL => /\ threadSysStack' \in A
                                      /\ useSysStack(threadSysStack')
                                      /\ stackOf' = threadSysStack'
         /\ useSysStack(t) => threadSysStack' = t
         /\ \A u \in B : useSysStack(u) /\ u # threadSysStack' => saved'[u]
<1>1. CASE useSysStack(t) /\ tss # t
  <2> DEFINE savedPrev == IF tss = NULL THEN saved
                          ELSE [saved EXCEPT ![tss] = (stackOf = tss)]
  <2>1. savedPrev \in [Thread -> BOOLEAN]
    BY DEF TypeOK
  <2>2. /\ stackOf' = IF savedPrev[t] THEN t ELSE NULL
        /\ saved' = [savedPrev EXCEPT ![t] = FALSE]
        /\ threadSysStack' = t
    BY <1>1 DEF GiveSysStack
  <2>3. \A u \in B : useSysStack(u) => savedPrev[u]
    <3>1. CASE tss = NULL
      <4>1. savedPrev = saved
        BY <3>1
      <4>2. \A u \in B : u # tss
        BY <3>1
      <4> HIDE DEF savedPrev
      <4> QED BY <4>1, <4>2
    <3>2. CASE tss # NULL
      <4>1. savedPrev = [saved EXCEPT ![tss] = TRUE]
        BY <3>2
      <4>2. saved \in [Thread -> BOOLEAN] /\ tss \in Thread
        BY <3>2 DEF TypeOK
      <4> HIDE DEF savedPrev
      <4> QED BY <4>1, <4>2
    <3> QED BY <3>1, <3>2
  <2> HIDE DEF savedPrev
  <2>4. stackOf' = t
    BY <1>1, <2>2, <2>3
  <2>5. \A u \in B : u # t => saved'[u] = savedPrev[u]
    BY <2>1, <2>2
  <2> QED BY <1>1, <2>2, <2>3, <2>4, <2>5
<1>2. CASE ~(useSysStack(t) /\ tss # t)
  <2>1. UNCHANGED <<stackOf, saved>> /\ threadSysStack' = tss
    BY <1>2 DEF GiveSysStack
  <2> QED BY <1>2, <2>1
<1> QED BY <1>1, <1>2

LEMMA NextStack ==
  ASSUME KillTargets = {}, Inv, StackSound, [Next]_vars
  PROVE  StackSound'
<1> DEFINE B == Alive \cup nextPid..MaxPid
<1>t. /\ TypeOK /\ ring \in Seq(Thread) /\ ring # <<>> /\ Distinct(ring)
      /\ Alive \subseteq Thread /\ B \subseteq Thread
      /\ threadCurrent \in Alive /\ enable \in [Thread -> BOOLEAN]
      /\ threadSysStack \in Thread \cup {NULL}
  <2>1. ring \in Seq(Thread) /\ ring # <<>> /\ nextPid \in 3..(MaxPid + 1)
    BY DEF Inv, TypeOK
  <2>2. Alive \subseteq Thread /\ threadCurrent \in Alive
    BY <2>1, MembersRing DEF Alive, threadCurrent
  <2>3. nextPid..MaxPid \subseteq Thread
    BY <2>1, BoundsAssumption DEF Thread
  <2>4. /\ TypeOK /\ Distinct(ring) /\ enable \in [Thread -> BOOLEAN]
        /\ threadSysStack \in Thread \cup {NULL}
    BY DEF Inv, TypeOK, RingSound
  <2> QED BY <2>1, <2>2, <2>3, <2>4
<1>u. ASSUME UNCHANGED <<ring, nextPid, threadSysStack, stackOf, saved>>
      PROVE  StackSound'
  BY <1>u DEF StackSound, Alive, threadCurrent, useSysStack
<1>n. ASSUME NEW r \in Seq(Thread), r # <<>>, Distinct(r), Members(r) \subseteq Alive,
             NEW en \in [Thread -> BOOLEAN], NEW tss \in Thread \cup {NULL},
             tss # NULL => tss \in Members(r) /\ useSysStack(tss) /\ stackOf = tss,
             \A u \in Members(r) \cup nextPid..MaxPid :
                useSysStack(u) /\ u # tss => saved[u],
             thread_nxt(r, en, tss), nextPid' = nextPid
      PROVE  StackSound'
  <2> DEFINE t == Head(ring')
             C == Members(r) \cup nextPid..MaxPid
  <2>1. /\ ring' \in Seq(Thread) /\ ring' # <<>>
        /\ Members(ring') = Members(r) /\ GiveSysStack(t, tss)
    BY <1>n, <1>t, NxtRing
  <2>2. t \in Members(r) /\ t \in Thread
    BY <2>1, <1>n, MembersRing
  <2>3. Members(r) \in SUBSET Thread /\ C \in SUBSET Thread /\ Members(r) \subseteq C
    BY <1>n, <1>t
  <2> HIDE DEF t, C
  <2>4. \A u \in C : useSysStack(u) /\ u # tss => saved[u]
    BY <1>n DEF C
  <2>5. /\ threadSysStack' # NULL => /\ threadSysStack' \in Members(r)
                                     /\ useSysStack(threadSysStack')
                                     /\ stackOf' = threadSysStack'
        /\ useSysStack(t) => threadSysStack' = t
        /\ \A u \in C : useSysStack(u) /\ u # threadSysStack' => saved'[u]
    <3>1. tss # NULL => tss \in Members(r) /\ useSysStack(tss) /\ stackOf = tss
      BY <1>n
    <3>2. TypeOK /\ GiveSysStack(t, tss)
      BY <1>t, <2>1
    <3> PICK D : D = Members(r)
      OBVIOUS
    <3>3. /\ TypeOK /\ t \in Thread /\ tss \in Thread \cup {NULL}
          /\ D \in SUBSET Thread /\ C \in SUBSET Thread /\ D \subseteq C /\ t \in D
          /\ tss # NULL => tss \in D /\ useSysStack(tss) /\ stackOf = tss
          /\ \A u \in C : useSysStack(u) /\ u # tss => saved[u]
          /\ GiveSysStack(t, tss)
      BY <2>2, <2>3, <2>4, <3>1, <3>2
    <3>4. /\ threadSysStack' # NULL => /\ threadSysStack' \in D
                                       /\ useSysStack(threadSysStack')
                                       /\ stackOf' = threadSysStack'
          /\ useSysStack(t) => threadSysStack' = t
          /\ \A u \in C : useSysStack(u) /\ u # threadSysStack' => saved'[u]
      BY ONLY <3>3, GiveKeeps
    <3> QED BY <3>4
  <2> QED BY <1>n, <2>1, <2>5 DEF StackSound, Alive, threadCurrent, useSysStack, t, C
<1>s. ASSUME NEW en \in [Thread -> BOOLEAN], thread_nxt(ring, en, threadSysStack),
             nextPid' = nextPid
      PROVE  StackSound'
  BY <1>s, <1>n, <1>t DEF StackSound, Alive
<1>k. pc[CMD] # "kill"
  BY DEF Inv, ArgSound
<1>1. CASE TimerTick \/ IdleYield \/ PauseYield
  BY <1>1, <1>s, <1>t DEF TimerTick, IdleYield, PauseYield, Switch
<1>2. CASE \/ UartLine \/ cmd_line_INT \/ OtherCommand \/ NothingToRead \/ NiceFound
           \/ SetStateFound \/ PauseDisable
           \/ \E t \in {KERNEL, CMD} : CreateMedNoMem(t) \/ BackFromMed(t)
  BY <1>2, <1>u DEF UartLine, cmd_line_INT, OtherCommand, NothingToRead, NiceFound,
       SetStateFound, PauseDisable, CreateMedNoMem, BackFromMed, Wild, ringVars, stackVars
<1>3. CASE do_kill \/ do_ThreadState \/ do_ThreadNice
  BY <1>3, <1>u DEF do_kill, do_ThreadState, do_ThreadNice, FindPid, ringVars, stackVars
<1>4. ASSUME NEW t \in {KERNEL, CMD}, CreateMed(t) PROVE StackSound'
  <2>1. /\ ring' = Insert(ring, nextPid) /\ nextPid' = nextPid + 1
        /\ UNCHANGED <<threadSysStack, stackOf, saved>>
        /\ nextPid \in Thread /\ nextPid \in nextPid..MaxPid
        /\ nextPid \notin Members(ring)
    BY <1>4 DEF CreateMed, stackVars, Inv, TypeOK, RingSound, Alive
  <2>2. /\ Insert(ring, nextPid) \in Seq(Thread)
        /\ Len(Insert(ring, nextPid)) = Len(ring) + 1
        /\ Members(Insert(ring, nextPid)) = Members(ring) \cup {nextPid}
        /\ ring # <<>> => Head(Insert(ring, nextPid)) = Head(ring)
        /\ Distinct(Insert(ring, nextPid))
    <3>1. /\ ring \in Seq(Thread) /\ Distinct(ring) /\ nextPid \in Thread
          /\ nextPid \notin Members(ring)
      BY <1>t, <2>1
    <3> HIDE DEF B
    <3> QED BY <3>1, InsertRing
  <2>3. /\ Members(ring') = Members(ring) \cup {nextPid} /\ Head(ring') = Head(ring)
    BY <1>t, <2>1, <2>2
  <2>4. Members(ring') \cup (nextPid + 1)..MaxPid \subseteq B
    BY <2>1, <2>3 DEF Alive
  <2> QED BY <2>1, <2>3, <2>4 DEF StackSound, Alive, threadCurrent, useSysStack
<1>5. ASSUME NEW t \in {KERNEL, CMD}, LaunchMed(t) PROVE StackSound'
  <2>1. CASE arg[t] \in Alive
    <3> DEFINE en == [enable EXCEPT ![KERNEL] = FALSE, ![arg[t]] = TRUE]
    <3>1. thread_nxt(ring, en, threadSysStack) /\ nextPid' = nextPid
      BY <1>5, <2>1 DEF LaunchMed
    <3>2. en \in [Thread -> BOOLEAN]
      BY <1>t
    <3> HIDE DEF en
    <3> QED BY <1>s, <3>1, <3>2
  <2>2. CASE arg[t] \notin Alive
    BY <1>5, <2>2, <1>u DEF LaunchMed, stackVars
  <2> QED BY <2>1, <2>2
<1>6. ASSUME NEW m \in Med, thread_exit(m) PROVE StackSound'
  <2> DEFINE rest == Remove(ring, m)
             en   == [enable EXCEPT ![KERNEL] = TRUE]
  <2>0. KERNEL \in Alive
    BY DEF Inv, RingSound
  <2>1. m = threadCurrent /\ nextPid' = nextPid /\ thread_nxt(rest, en, NULL)
    BY <1>6 DEF thread_exit, Running, thread_doKill
  <2>2. m \in Members(ring) /\ KERNEL \in Members(ring)
    BY <2>0, <2>1, <1>t DEF Alive
  <2>3. rest \in Seq(Thread) /\ Members(rest) = Members(ring) \ {m} /\ Distinct(rest)
    BY <1>t, <2>2, RemoveRing
  <2>4. en \in [Thread -> BOOLEAN]
    BY <1>t
  <2> HIDE DEF rest, en
  <2>5. rest # <<>>
    BY <2>2, <2>3, MembersRing
  <2>6. threadSysStack = m
    BY <2>1 DEF StackSound, useSysStack
  <2>7. m < nextPid
    BY <2>2 DEF Inv, RingSound, Alive
  <2>8. \A u \in Members(rest) \cup nextPid..MaxPid : useSysStack(u) => saved[u]
    <3>1. ASSUME NEW u \in Members(rest) PROVE u # threadSysStack /\ u \in Alive
      BY <2>3, <2>6 DEF Alive
    <3>2. ASSUME NEW u \in nextPid..MaxPid PROVE u # threadSysStack
      BY <2>6, <2>7 DEF Inv, TypeOK
    <3> QED BY <3>1, <3>2 DEF StackSound
  <2> QED BY <1>n, <2>1, <2>3, <2>4, <2>5, <2>8 DEF Alive
<1>7. CASE KillFound
  BY <1>7, <1>k DEF KillFound
<1>8. CASE UNCHANGED vars
  BY <1>8, <1>u DEF vars, ringVars, stackVars
<1> QED
  BY <1>1, <1>2, <1>3, <1>4, <1>5, <1>6, <1>7, <1>8 DEF Next, MedStep, CmdStep

\* While nobody uses "kill", a thread that runs on the SYS stack finds its own
\* frames there, for any number of MEDs started by the shell and by "run".
THEOREM SysStackAlwaysOwned ==
  ASSUME KillTargets = {}
  PROVE  Spec => []SysStackOwned
<1>1. Init => StackSound
  <2> SUFFICES ASSUME Init PROVE StackSound
    OBVIOUS
  <2>1. /\ ring = <<0, 2, 1>> /\ threadSysStack = 0 /\ stackOf = 0
        /\ saved = [t \in Thread |-> t # KERNEL] /\ nextPid = 3
    BY DEF Init
  <2>2. Alive = {0, 1, 2} /\ threadCurrent = 0
    BY <2>1 DEF Alive, Members, threadCurrent
  <2>3. \A t \in Thread : t # 0 => saved[t]
    BY <2>1
  <2> QED BY <2>1, <2>2, <2>3 DEF StackSound, useSysStack
<1>2. Inv /\ StackSound /\ [Next]_vars => StackSound'
  BY NextStack
<1>3. Inv /\ StackSound => SysStackOwned
  <2> SUFFICES ASSUME Inv, StackSound, useSysStack(threadCurrent)
               PROVE  stackOf = threadCurrent
    BY DEF SysStackOwned
  <2>1. threadCurrent \in Thread
    BY MembersRing DEF Inv, TypeOK, threadCurrent
  <2> QED BY <2>1 DEF StackSound
<1> QED BY InitInv, NextInv, <1>1, <1>2, <1>3, PTL DEF Spec

(***************************************************************************)
(* The arguments of a MED.  The shell frees them when it runs again, so    *)
(* what matters is that the launched MED is gone by then: MedSound.        *)
(***************************************************************************)

LEMMA NextMed ==
  ASSUME KERNEL \notin StateTargets, Starters \subseteq {KERNEL},
         Inv, MedSound, [Next]_vars
  PROVE  MedSound'
<1>i. Inv'
  BY NextInv
<1>t. /\ TypeOK /\ ring \in Seq(Thread) /\ ring # <<>> /\ Distinct(ring)
      /\ enable \in [Thread -> BOOLEAN] /\ nextPid \in 3..(MaxPid + 1)
      /\ threadSysStack \in Thread \cup {NULL}
      /\ pc \in [Thread -> Label] /\ arg \in [Thread -> Thread \cup {NULL}]
      /\ Alive = Members(ring) /\ Alive \subseteq Thread
      /\ threadCurrent \in Alive /\ KERNEL \in Thread /\ CMD \in Thread /\ CMD # KERNEL
  <2>1. ring \in Seq(Thread) /\ ring # <<>>
    BY DEF Inv, TypeOK
  <2>2. Alive \subseteq Thread /\ threadCurrent \in Alive
    BY <2>1, MembersRing DEF Alive, threadCurrent
  <2>3. /\ enable \in [Thread -> BOOLEAN] /\ nextPid \in 3..(MaxPid + 1)
        /\ threadSysStack \in Thread \cup {NULL}
        /\ pc \in [Thread -> Label] /\ arg \in [Thread -> Thread \cup {NULL}]
        /\ TypeOK /\ Distinct(ring)
    BY DEF Inv, TypeOK, RingSound
  <2>4. KERNEL \in Thread /\ CMD \in Thread /\ CMD # KERNEL
    OBVIOUS
  <2>5. Alive = Members(ring)
    BY DEF Alive
  <2> QED BY <2>1, <2>2, <2>3, <2>4, <2>5
\* Steps in which neither the shell nor a MED gets further.
<1>u. ASSUME UNCHANGED <<nextPid, argsFreed>>, Members(ring') \subseteq Members(ring),
             pc'[KERNEL] = pc[KERNEL], arg'[KERNEL] = arg[KERNEL],
             pc'[CMD] \notin {"created", "away"},
             \/ arg[KERNEL] \notin Members(ring')
             \/ /\ enable'[KERNEL] = enable[KERNEL]
                /\ Head(ring') = Head(ring) \/ Head(ring') = IDLE \/ enable[Head(ring')]
      PROVE  MedSound'
  BY <1>u DEF MedSound, Alive, threadCurrent
<1>s. ASSUME Switch, UNCHANGED <<nextPid, argsFreed>>,
             pc'[KERNEL] = pc[KERNEL], arg'[KERNEL] = arg[KERNEL],
             pc'[CMD] \notin {"created", "away"}
      PROVE  MedSound'
  <2>1. Members(ring') = Members(ring) /\ enable'[KERNEL] = enable[KERNEL]
    BY <1>s, <1>t, SwitchKeeps
  <2>2. Head(ring') = IDLE \/ enable[Head(ring')]
    BY <1>s, <1>t, NxtHead DEF Switch
  <2> QED BY <1>s, <1>u, <2>1, <2>2
<1>d. ASSUME NEW t \in Alive \ {IDLE}, thread_doKill(t),
             UNCHANGED <<nextPid, argsFreed>>,
             pc'[KERNEL] = pc[KERNEL], arg'[KERNEL] = arg[KERNEL],
             pc'[CMD] \notin {"created", "away"}
      PROVE  MedSound'
  <2>1. /\ Members(ring') = Members(ring) \ {t}
        /\ t \notin Med => enable'[KERNEL] = enable[KERNEL]
    BY <1>d, KillKeeps
  <2>2. CASE t \in Med
    <3>1. t = arg[KERNEL]
      BY <2>2 DEF MedSound
    <3> QED BY <1>d, <1>u, <2>1, <3>1
  <2>3. CASE t \notin Med
    <3>1. \/ thread_nxt(Remove(ring, t), enable, threadSysStack)
          \/ ring' = Remove(ring, t) /\ t # threadCurrent
      BY <1>d, <2>3 DEF thread_doKill
    <3>2. /\ Remove(ring, t) \in Seq(Thread) /\ Distinct(Remove(ring, t))
          /\ Members(Remove(ring, t)) = Members(ring) \ {t}
          /\ t # Head(ring) => Head(Remove(ring, t)) = Head(ring)
      BY <1>t, RemoveRing
    <3>3. IDLE \in Members(Remove(ring, t))
      BY <1>t, <3>2 DEF Inv, RingSound
    <3>4. Remove(ring, t) # <<>>
      BY <3>2, <3>3, MembersRing
    <3>5. Head(ring') = Head(ring) \/ Head(ring') = IDLE \/ enable[Head(ring')]
      <4>1. CASE ring' = Remove(ring, t) /\ t # threadCurrent
        BY <3>2, <4>1 DEF threadCurrent
      <4>2. CASE thread_nxt(Remove(ring, t), enable, threadSysStack)
        BY <1>t, <3>2, <3>4, <4>2, NxtHead
      <4> QED BY <3>1, <4>1, <4>2
    <3> QED BY <1>d, <1>u, <2>1, <2>3, <3>5
  <2> QED BY <2>2, <2>3
<1>c. pc[CMD] \notin {"created", "away"}
  BY DEF MedSound
<1>1. CASE TimerTick \/ IdleYield
  BY <1>1, <1>s, <1>c DEF TimerTick, IdleYield
<1>2. CASE PauseYield
  BY <1>2, <1>s, <1>t DEF PauseYield, Goto
<1>3. CASE UartLine \/ OtherCommand
  BY <1>3, <1>u, <1>c DEF UartLine, OtherCommand, ringVars
<1>4. CASE NothingToRead \/ NiceFound
  BY <1>4, <1>u, <1>t, <1>c DEF NothingToRead, NiceFound, Wild, Goto, ringVars
<1>5. CASE cmd_line_INT \/ PauseDisable
  <2>1. /\ ring' = ring /\ UNCHANGED <<nextPid, argsFreed>>
        /\ pc'[KERNEL] = pc[KERNEL] /\ arg'[KERNEL] = arg[KERNEL]
        /\ pc'[CMD] \notin {"created", "away"}
        /\ enable' = enable \/ \E v \in BOOLEAN : enable' = [enable EXCEPT ![CMD] = v]
    BY <1>5, <1>t, <1>c DEF cmd_line_INT, PauseDisable, Wild, Goto, ringVars
  <2>2. enable'[KERNEL] = enable[KERNEL]
    BY <2>1, <1>t
  <2> QED BY <1>u, <2>1, <2>2
<1>6. CASE do_kill \/ do_ThreadState \/ do_ThreadNice
  <2>1. PICK label \in {"kill", "on", "off", "nice"}, q \in Thread : FindPid(label, q)
    BY <1>6, OperatorAssumption DEF do_kill, do_ThreadState, do_ThreadNice
  <2>2. /\ ring' = ring /\ enable' = enable /\ UNCHANGED <<nextPid, argsFreed>>
        /\ pc'[KERNEL] = pc[KERNEL] /\ arg'[KERNEL] = arg[KERNEL]
        /\ pc'[CMD] \notin {"created", "away"}
    BY <2>1, <1>t, <1>c DEF FindPid, Goto, ringVars
  <2> QED BY <1>u, <2>2
<1>7. CASE SetStateFound
  <2>1. /\ ring' = ring /\ UNCHANGED <<nextPid, argsFreed>> /\ arg[CMD] # KERNEL
        /\ pc'[KERNEL] = pc[KERNEL] /\ arg'[KERNEL] = arg[KERNEL]
        /\ pc'[CMD] \notin {"created", "away"}
        /\ \/ enable' = enable
           \/ enable' = [enable EXCEPT ![arg[CMD]] = (pc[CMD] = "on")]
    BY <1>7, <1>t, <1>c DEF SetStateFound, Wild, Goto, ringVars, Inv, ArgSound
  <2>2. enable'[KERNEL] = enable[KERNEL]
    BY <2>1, <1>t
  <2> QED BY <1>u, <2>1, <2>2
<1>8. CASE KillFound
  <2>1. CASE arg[CMD] \in Alive \ {IDLE}
    <3>1. arg[CMD] \in Alive \ {IDLE} /\ thread_doKill(arg[CMD])
      BY <1>8, <2>1 DEF KillFound
    <3>2. /\ UNCHANGED <<nextPid, argsFreed>>
          /\ pc'[KERNEL] = pc[KERNEL] /\ arg'[KERNEL] = arg[KERNEL]
          /\ pc'[CMD] \notin {"created", "away"}
      BY <1>8, <1>t, <2>1 DEF KillFound, Goto
    <3> QED BY <1>d, <3>1, <3>2
  <2>2. CASE arg[CMD] \notin Alive \ {IDLE}
    <3>1. /\ ring' = ring /\ enable' = enable /\ UNCHANGED <<nextPid, argsFreed>>
          /\ pc'[KERNEL] = pc[KERNEL] /\ arg'[KERNEL] = arg[KERNEL]
          /\ pc'[CMD] \notin {"created", "away"}
      BY <1>8, <1>t, <1>c, <2>2 DEF KillFound, Wild, Goto, ringVars
    <3> QED BY <1>u, <3>1
  <2> QED BY <2>1, <2>2
<1>9. ASSUME NEW m \in Med, thread_exit(m) PROVE MedSound'
  <2>1. /\ m \in Alive \ {IDLE} /\ thread_doKill(m)
        /\ UNCHANGED <<nextPid, argsFreed, pc, arg>>
    BY <1>9, <1>t DEF thread_exit, Running
  <2> QED BY <1>d, <1>c, <2>1
<1>10. ASSUME NEW t \in {KERNEL, CMD}, CreateMed(t) PROVE MedSound'
  <2>1. /\ t = KERNEL /\ pc[KERNEL] = "shell"
        /\ ring' = Insert(ring, nextPid) /\ nextPid' = nextPid + 1 /\ nextPid \in Med
        /\ pc' = [pc EXCEPT ![KERNEL] = "created"] /\ arg' = [arg EXCEPT ![KERNEL] = nextPid]
        /\ argsFreed' = argsFreed
    <3>1. t = KERNEL
      BY <1>10 DEF CreateMed
    <3>2. pc[KERNEL] = Home(KERNEL)
      BY <1>10, <3>1 DEF CreateMed, AtHome
    <3>3. pc[KERNEL] = "shell"
      BY <3>2 DEF Home
    <3>4. nextPid \in Med
      BY <1>10, <1>t DEF CreateMed
    <3> QED BY <1>10, <3>1, <3>3, <3>4 DEF CreateMed, Goto
  <2>2. Members(ring') = Members(ring) \cup {nextPid}
    <3>1. ring \in Seq(Thread) /\ nextPid \in Thread
      BY <1>t, <2>1
    <3>2. /\ Insert(ring, nextPid) \in Seq(Thread)
          /\ Len(Insert(ring, nextPid)) = Len(ring) + 1
          /\ Members(Insert(ring, nextPid)) = Members(ring) \cup {nextPid}
          /\ ring # <<>> => Head(Insert(ring, nextPid)) = Head(ring)
          /\ Distinct(ring) /\ nextPid \notin Members(ring) => Distinct(Insert(ring, nextPid))
      BY <3>1, InsertRing
    <3> QED BY <2>1, <3>2
  <2>3. pc'[KERNEL] = "created" /\ pc'[CMD] = pc[CMD] /\ arg'[KERNEL] = nextPid
    BY <2>1, <1>t
  <2>4. Alive' \cap Med \subseteq {nextPid}
    BY <2>1, <2>2, <1>t DEF Alive, MedSound
  <2>5. \A m \in argsFreed : m < nextPid' /\ m \notin Alive'
    <3>1. \A m \in argsFreed : m < nextPid /\ m \notin Alive
      BY DEF MedSound
    <3>2. argsFreed \subseteq Thread \cup {NULL}
      BY DEF Inv, TypeOK
    <3> QED BY <3>1, <3>2, <2>1, <2>2, <1>t DEF Alive
  <2> QED BY <1>c, <2>1, <2>3, <2>4, <2>5, <1>t DEF MedSound
<1>11. ASSUME NEW t \in {KERNEL, CMD}, LaunchMed(t) PROVE MedSound'
  <2>1. t = KERNEL /\ pc[KERNEL] = "created" /\ threadCurrent = KERNEL
    BY <1>11, <1>c DEF LaunchMed, Running
  <2>0. /\ arg[KERNEL] < nextPid
        /\ arg[KERNEL] \in Alive => arg[KERNEL] \in Med
    BY <2>1, <1>t DEF MedSound, Inv, ArgSound
  <2>2. CASE arg[KERNEL] \in Alive
    <3> DEFINE en == [enable EXCEPT ![KERNEL] = FALSE, ![arg[KERNEL]] = TRUE]
    <3>1. /\ thread_nxt(ring, en, threadSysStack) /\ UNCHANGED <<nextPid, argsFreed>>
          /\ pc' = [pc EXCEPT ![KERNEL] = "away"]
          /\ arg' = [arg EXCEPT ![KERNEL] = arg[KERNEL]]
      BY <1>11, <2>0, <2>1, <2>2 DEF LaunchMed, Goto
    <3>2. en \in [Thread -> BOOLEAN] /\ en[KERNEL] = FALSE
      <4>1. arg[KERNEL] \in Thread /\ arg[KERNEL] # KERNEL
        BY <2>0, <2>2
      <4>2. enable \in [Thread -> BOOLEAN] /\ KERNEL \in Thread
        BY <1>t
      <4> QED BY <4>1, <4>2
    <3> HIDE DEF en
    <3>a. /\ TypeOK /\ ring \in Seq(Thread) /\ Distinct(ring) /\ ring # <<>>
          /\ threadSysStack \in Thread \cup {NULL}
      BY <1>t
    <3>b. /\ Members(ring') = Members(ring)
          /\ \A u \in Thread \ {IDLE} : enable'[u] = en[u]
      BY <3>1, <3>2, <3>a, NxtRing
    <3>3. Members(ring') = Members(ring) /\ enable'[KERNEL] = en[KERNEL]
      BY <3>b, <1>t
    <3>4. Head(ring') = IDLE \/ en[Head(ring')]
      BY <1>t, <3>1, <3>2, NxtHead
    <3>5. pc'[KERNEL] = "away" /\ pc'[CMD] = pc[CMD] /\ arg'[KERNEL] = arg[KERNEL]
      BY <1>t, <3>1
    <3> QED BY <1>c, <2>0, <2>1, <2>2, <3>1, <3>2, <3>3, <3>4, <3>5
            DEF MedSound, Alive, threadCurrent
  <2>3. CASE arg[KERNEL] \notin Alive
    <3>1. UNCHANGED <<ring, nextPid, pc, arg, argsFreed>>
      BY <1>11, <2>1, <2>3 DEF LaunchMed
    <3>2. arg[KERNEL] \notin Members(ring') /\ Members(ring') \subseteq Members(ring)
      BY <2>3, <3>1 DEF Alive
    <3> QED BY <1>c, <1>u, <3>1, <3>2
  <2> QED BY <2>2, <2>3
<1>12. ASSUME NEW t \in {KERNEL, CMD}, BackFromMed(t) PROVE MedSound'
  <2>1. /\ t = KERNEL /\ pc[KERNEL] = "away" /\ threadCurrent = KERNEL
        /\ argsFreed' = argsFreed \cup {arg[KERNEL]} /\ ring' = ring
        /\ nextPid' = nextPid /\ enable' = enable
        /\ pc' = [pc EXCEPT ![KERNEL] = "shell"] /\ arg' = [arg EXCEPT ![KERNEL] = NULL]
    BY <1>12, <1>c DEF BackFromMed, Running, Goto, Home, ringVars
  <2>2. arg[KERNEL] \notin Alive /\ arg[KERNEL] < nextPid
    BY <2>1 DEF MedSound
  <2>3. Alive \cap Med = {}
    BY <2>1, <2>2 DEF MedSound
  <2>4. pc'[KERNEL] = "shell" /\ pc'[CMD] = pc[CMD]
    BY <2>1, <1>t
  <2> QED BY <1>c, <2>1, <2>2, <2>3, <2>4 DEF MedSound, Alive
<1>14. ASSUME NEW t \in {KERNEL, CMD}, CreateMedNoMem(t) PROVE MedSound'
  <2>1. /\ t = KERNEL /\ pc[KERNEL] = "shell"
        /\ pc' = [pc EXCEPT ![KERNEL] = "created"] /\ arg' = [arg EXCEPT ![KERNEL] = NULL]
        /\ UNCHANGED <<ring, nextPid, argsFreed>>
    <3>1. t = KERNEL
      BY <1>14 DEF CreateMedNoMem
    <3>2. pc[KERNEL] = Home(KERNEL)
      BY <1>14, <3>1 DEF CreateMedNoMem, AtHome
    <3>3. pc[KERNEL] = "shell"
      BY <3>2 DEF Home
    <3> QED BY <1>14, <3>1, <3>3 DEF CreateMedNoMem, Goto, ringVars
  <2>2. pc'[KERNEL] = "created" /\ pc'[CMD] = pc[CMD] /\ arg'[KERNEL] = NULL
    BY <2>1, <1>t
  <2>3. Alive' = Alive /\ Alive \cap Med = {} /\ NULL < nextPid'
    BY <2>1, <1>t DEF MedSound, Alive
  <2> QED BY <1>c, <2>1, <2>2, <2>3 DEF MedSound
<1>13. CASE UNCHANGED vars
  BY <1>13, <1>u, <1>c DEF vars, ringVars
<1> QED
  BY <1>1, <1>2, <1>3, <1>4, <1>5, <1>6, <1>7, <1>8, <1>9, <1>10, <1>11, <1>12, <1>13,
     <1>14
     DEF Next, MedStep, CmdStep

\* While only the shell starts MEDs and the operator does not enable it, the
\* argv of a MED is freed when the MED is gone and not before, whatever else
\* is killed, disabled or reniced meanwhile.
THEOREM ArgsOutliveMed ==
  ASSUME KERNEL \notin StateTargets, Starters \subseteq {KERNEL}
  PROVE  Spec => []ArgsAlive
<1>1. Init => MedSound
  <2> SUFFICES ASSUME Init PROVE MedSound
    OBVIOUS
  <2>1. /\ ring = <<0, 2, 1>> /\ argsFreed = {} /\ pc = [t \in Thread |-> Home(t)]
    BY DEF Init
  <2>2. Alive = {0, 1, 2}
    BY <2>1 DEF Alive, Members
  <2>3. pc[KERNEL] = "shell" /\ pc[CMD] = "poll"
    BY <2>1, BoundsAssumption DEF Home
  <2> QED BY <2>1, <2>2, <2>3 DEF MedSound
<1>2. Inv /\ MedSound /\ [Next]_vars => MedSound'
  BY NextMed
<1>3. MedSound => ArgsAlive
  BY DEF MedSound, ArgsAlive
<1> QED BY InitInv, NextInv, <1>1, <1>2, <1>3, PTL DEF Spec

(***************************************************************************)
(* The aging of the threads that wait.                                     *)
(***************************************************************************)

\* A level is MaxPrio + 1 above the one before it.
LEMMA Levels ==
  ASSUME NEW k \in Nat
  PROVE  /\ AgeLevel(k) \in Nat
         /\ k > 0 => /\ AgeLevel(k) = AgeLevel(k - 1) + MaxPrio + 1
                     /\ AgeLevel(k - 1) \in Nat /\ AgeLevel(k) >= 2
<1>1. MaxPrio + 1 \in Nat /\ MaxPrio + 1 >= 2
  OBVIOUS
<1>2. AgeLevel(k) \in Nat
  BY <1>1 DEF AgeLevel
<1>3. ASSUME k > 0
      PROVE  AgeLevel(k) = AgeLevel(k - 1) + MaxPrio + 1 /\ AgeLevel(k - 1) \in Nat
  BY <1>1, <1>3 DEF AgeLevel
<1> HIDE DEF AgeLevel
<1> QED BY <1>1, <1>2, <1>3

\* The threads of a set S that have reached a count v, but for h and IDLE.
Old(S, h, v) == {t \in S \ {IDLE, h} : idleCnt[t] >= v}

\* Whoever they are, they are at most as many as the pids but for IDLE.
LEMMA OldBound ==
  ASSUME NEW S \in SUBSET Thread, NEW h, NEW v
  PROVE  /\ IsFiniteSet(Old(S, h, v))
         /\ Cardinality(Old(S, h, v)) <= MaxPid
<1>1. IsFiniteSet(Thread) /\ Cardinality(Thread) = MaxPid + 1
  BY FS_Interval
<1>2. IsFiniteSet(Thread \ {IDLE}) /\ Cardinality(Thread \ {IDLE}) = MaxPid
  <2>1. PICK T : T = Thread
    OBVIOUS
  <2>2. IDLE \in T /\ IsFiniteSet(T) /\ Cardinality(T) = MaxPid + 1
    BY <1>1, <2>1
  <2>3. IsFiniteSet(T \ {IDLE}) /\ Cardinality(T \ {IDLE}) = Cardinality(T) - 1
    BY <2>2, FS_RemoveElement
  <2> QED BY <2>1, <2>2, <2>3
<1>3. Old(S, h, v) \in SUBSET (Thread \ {IDLE})
  BY DEF Old
<1> QED BY <1>2, <1>3, FS_Subset

\* Fewer threads of a smaller set.
LEMMA FewerOld ==
  ASSUME NEW n \in Int, NEW S, IsFiniteSet(S), Cardinality(S) <= n, NEW T \in SUBSET S
  PROVE  Cardinality(T) <= n /\ \A u \in S : u \notin T => Cardinality(T) <= n - 1
<1>1. IsFiniteSet(T) /\ Cardinality(T) <= Cardinality(S)
  BY FS_Subset
<1>2. Cardinality(T) \in Nat /\ Cardinality(S) \in Nat
  BY <1>1, FS_CardinalityType
<1>3. ASSUME NEW u \in S, u \notin T PROVE Cardinality(T) <= n - 1
  <2>1. IsFiniteSet(S \ {u}) /\ Cardinality(S \ {u}) = Cardinality(S) - 1
    BY FS_RemoveElement
  <2>2. T \in SUBSET (S \ {u})
    BY <1>3
  <2>3. Cardinality(T) <= Cardinality(S \ {u})
    BY <2>1, <2>2, FS_Subset
  <2> QED BY <1>2, <2>1, <2>3
<1> QED BY <1>1, <1>2, <1>3

\* The levels of AgeSound, of the ring r.
Thinning(r) ==
  \A k \in 1..MaxPid : Cardinality(Old(Members(r), Head(r), AgeLevel(k))) <= MaxPid - k

\* The scheduler keeps the levels, whatever ring and flags it is given.
LEMMA NxtAge ==
  ASSUME TypeOK,
         NEW r \in Seq(Thread), Distinct(r), r # <<>>,
         NEW en \in [Thread -> BOOLEAN],
         NEW tss \in Thread \cup {NULL},
         thread_nxt(r, en, tss),
         idleCnt[IDLE] = 0,
         Thinning(r)
  PROVE  /\ \A t \in Thread : t \notin Members(r) \ {IDLE} => idleCnt'[t] = idleCnt[t]
         /\ idleCnt'[Head(ring')] <= AgeLevel(MaxPid)
         /\ \A k \in 1..MaxPid :
              Cardinality(Waiting(AgeLevel(k))') <= MaxPid - k
<1> DEFINE cnt == [idleCnt EXCEPT ![Head(r)] = 0]
           ready == {i \in DOMAIN r : en[r[i]] /\ r[i] # IDLE}
           Score(i) == cnt[r[i]] - priority[r[i]]
<1>1. PICK i \in DOMAIN r :
        /\ IF ready = {} THEN r[i] = IDLE
           ELSE i \in ready /\ \A j \in ready : \/ Score(j) < Score(i)
                                                \/ Score(j) = Score(i) /\ j <= i
        /\ ring' = TurnTo(r, i)
        /\ idleCnt' = [t \in Thread |->
                         cnt[t] + (IF \E j \in ready : r[j] = t THEN 1 ELSE 0)]
  BY DEF thread_nxt
<1> DEFINE u == r[i]
           h == Head(r)
<1>2. /\ Members(ring') = Members(r) /\ Head(ring') = u
  BY <1>1, TurnToRing
<1>3. /\ \A j \in DOMAIN r : r[j] \in Thread
      /\ h \in Thread /\ h = r[1] /\ 1 \in DOMAIN r /\ DOMAIN r \subseteq Int
      /\ u \in Thread /\ u \in Members(r) /\ h \in Members(r)
      /\ Members(r) \subseteq Thread
  BY DEF Members
<1>4. /\ idleCnt \in [Thread -> Nat] /\ priority \in [Thread -> 0..MaxPrio]
      /\ cnt \in [Thread -> Nat] /\ cnt[h] = 0
      /\ \A t \in Thread : t # h => cnt[t] = idleCnt[t]
  BY <1>3 DEF TypeOK
<1> HIDE DEF cnt
\* How a count moves.
<1>5. /\ \A j \in ready : idleCnt'[r[j]] = cnt[r[j]] + 1
      /\ \A t \in Thread : (\A j \in ready : r[j] # t) => idleCnt'[t] = cnt[t]
  <2> HIDE DEF ready
  <2>1. \A t \in Thread : idleCnt'[t] = cnt[t] + (IF \E j \in ready : r[j] = t THEN 1 ELSE 0)
    BY <1>1
  <2>2. \A t \in Thread : (\A j \in ready : r[j] # t) => idleCnt'[t] = cnt[t]
    <3> SUFFICES ASSUME NEW t \in Thread, \A j \in ready : r[j] # t
                 PROVE  idleCnt'[t] = cnt[t]
      OBVIOUS
    <3>1. cnt[t] \in Nat /\ ~(\E j \in ready : r[j] = t)
      BY <1>4
    <3>2. idleCnt'[t] = cnt[t] + 0
      BY <2>1, <3>1
    <3> QED BY <3>1, <3>2
  <2>3. ready \subseteq DOMAIN r
    BY DEF ready
  <2>4. \A j \in ready : idleCnt'[r[j]] = cnt[r[j]] + 1
    BY <1>3, <2>1, <2>3
  <2> QED BY <2>2, <2>4
<1>n. idleCnt' \in [Thread -> Nat]
  <2> HIDE DEF ready
  <2>1. \A t \in Thread : cnt[t] + (IF \E j \in ready : r[j] = t THEN 1 ELSE 0) \in Nat
    <3> SUFFICES ASSUME NEW t \in Thread
                 PROVE  cnt[t] + (IF \E j \in ready : r[j] = t THEN 1 ELSE 0) \in Nat
      OBVIOUS
    <3>1. cnt[t] \in Nat
      BY <1>4
    <3>2. CASE \E j \in ready : r[j] = t
      <4>1. (IF \E j \in ready : r[j] = t THEN 1 ELSE 0) = 1
        BY <3>2
      <4> QED BY <3>1, <4>1
    <3>3. CASE ~\E j \in ready : r[j] = t
      <4>1. (IF \E j \in ready : r[j] = t THEN 1 ELSE 0) = 0
        BY <3>3
      <4> QED BY <3>1, <4>1
    <3> QED BY <3>2, <3>3
  <2> QED BY <1>1, <2>1
<1>6. \A t \in Thread : t \notin Members(r) \ {IDLE} => idleCnt'[t] = idleCnt[t]
  <2> SUFFICES ASSUME NEW t \in Thread, t \notin Members(r) \ {IDLE}
               PROVE  idleCnt'[t] = idleCnt[t]
    OBVIOUS
  <2>1. idleCnt'[t] = cnt[t]
    BY <1>5 DEF Members
  <2>2. cnt[t] = idleCnt[t]
    BY <1>3, <1>4
  <2> QED BY <2>1, <2>2
<1>7. MaxPid \in 1..MaxPid /\ MaxPid \in Nat
  OBVIOUS
\* The thread that runs now was below the highest level.
<1>8. u # h /\ u # IDLE => cnt[u] < AgeLevel(MaxPid)
  <2> SUFFICES ASSUME u # h, u # IDLE, ~(cnt[u] < AgeLevel(MaxPid)) PROVE FALSE
    OBVIOUS
  <2>1. AgeLevel(MaxPid) \in Nat
    BY <1>7, Levels
  <2>2. u \in Old(Members(r), h, AgeLevel(MaxPid))
    <3>1. cnt[u] \in Nat /\ idleCnt[u] = cnt[u]
      BY <1>3, <1>4
    <3>2. idleCnt[u] >= AgeLevel(MaxPid)
      <4> HIDE DEF u
      <4> QED BY <2>1, <3>1
    <3> QED BY <1>3, <3>2 DEF Old
  <2>3. Cardinality(Old(Members(r), h, AgeLevel(MaxPid))) <= MaxPid - MaxPid
    BY <1>7 DEF Thinning
  <2>4. IsFiniteSet(Old(Members(r), h, AgeLevel(MaxPid)))
    BY <1>3, OldBound
  <2>5. Cardinality(Old(Members(r), h, AgeLevel(MaxPid))) = 0
    BY <2>3, <2>4, FS_CardinalityType
  <2> QED BY <2>2, <2>4, <2>5, FS_EmptySet
<1>9. idleCnt'[u] <= AgeLevel(MaxPid)
  <2>1. AgeLevel(MaxPid) \in Nat /\ AgeLevel(MaxPid) >= 2
    BY <1>7, Levels
  <2>n. cnt[u] \in Nat /\ idleCnt'[u] \in Nat
    BY <1>3, <1>4, <1>n
  <2>2. idleCnt'[u] <= cnt[u] + 1
    <3> HIDE DEF ready
    <3>1. CASE \E j \in ready : r[j] = u
      <4>1. PICK j \in ready : r[j] = u
        BY <3>1
      <4>2. idleCnt'[r[j]] = cnt[r[j]] + 1
        BY <1>5
      <4> QED BY <2>n, <4>1, <4>2
    <3>2. CASE \A j \in ready : r[j] # u
      <4>1. idleCnt'[u] = cnt[u]
        BY <1>3, <1>5, <3>2
      <4> HIDE DEF u
      <4> QED BY <2>n, <4>1
    <3> QED BY <3>1, <3>2
  <2>3. CASE u = h
    <3>1. cnt[u] = 0
      BY <1>4, <2>3
    <3> HIDE DEF u
    <3> QED BY <2>1, <2>2, <2>n, <3>1
  <2>4. CASE u = IDLE
    <3>1. idleCnt'[u] = 0
      BY <1>3, <1>6, <2>4
    <3> HIDE DEF u
    <3> QED BY <2>1, <3>1
  <2>5. CASE u # h /\ u # IDLE
    <3>1. cnt[u] < AgeLevel(MaxPid)
      BY <1>8, <2>5
    <3> HIDE DEF u
    <3> QED BY <2>1, <2>2, <2>n, <3>1
  <2> QED BY <2>3, <2>4, <2>5
\* Each level keeps its bound.
<1>10. ASSUME NEW k \in 1..MaxPid
       PROVE  Cardinality(Waiting(AgeLevel(k))') <= MaxPid - k
  <2> DEFINE v == AgeLevel(k)
             w == AgeLevel(k - 1)
             B == {t \in Members(r) \ {IDLE, u} : idleCnt'[t] >= v}
  <2>1. /\ v \in Nat /\ w \in Nat /\ v = w + MaxPrio + 1 /\ v >= 2
        /\ k \in Nat /\ k > 0
    <3>1. k \in Nat /\ k > 0
      OBVIOUS
    <3> QED BY <3>1, Levels
  <2>2. Waiting(AgeLevel(k))' = B
    BY <1>2 DEF Waiting, Alive, threadCurrent, AgeLevel
  <2> HIDE DEF v, w
  <2>3. \A t \in B : /\ t \in Thread /\ t # h /\ idleCnt[t] = cnt[t]
                     /\ cnt[t] >= v \/ (cnt[t] = v - 1 /\ \E j \in ready : r[j] = t)
    <3> SUFFICES ASSUME NEW t \in B
                 PROVE  /\ t \in Thread /\ t # h /\ idleCnt[t] = cnt[t]
                        /\ cnt[t] >= v \/ (cnt[t] = v - 1 /\ \E j \in ready : r[j] = t)
      OBVIOUS
    <3>1. t \in Thread /\ idleCnt'[t] >= v
      BY <1>3
    <3>2. cnt[t] \in Nat
      BY <1>4, <3>1
    <3>3. CASE \E j \in ready : r[j] = t
      <4>1. idleCnt'[t] = cnt[t] + 1
        BY <1>5, <3>3
      <4>2. cnt[t] >= v - 1 /\ cnt[t] # 0
        BY ONLY <2>1, <3>1, <3>2, <4>1
      <4>3. t # h /\ idleCnt[t] = cnt[t]
        BY <1>4, <3>1, <4>2
      <4>4. cnt[t] >= v \/ cnt[t] = v - 1
        BY ONLY <2>1, <3>2, <4>2
      <4> QED BY <3>1, <3>3, <4>3, <4>4
    <3>4. CASE ~\E j \in ready : r[j] = t
      <4>1. idleCnt'[t] = cnt[t]
        BY <1>5, <3>1, <3>4
      <4>2. cnt[t] >= v /\ cnt[t] # 0
        BY <2>1, <3>1, <3>2, <4>1
      <4> QED BY <1>4, <3>1, <4>2
    <3> QED BY <3>3, <3>4
  <2>4. /\ IsFiniteSet(Old(Members(r), h, v)) /\ IsFiniteSet(Old(Members(r), h, w))
        /\ Cardinality(Old(Members(r), h, w)) <= MaxPid
    BY <1>3, OldBound
  <2>5. Cardinality(Old(Members(r), h, v)) <= MaxPid - k
    BY DEF Thinning, v
  <2>6. Cardinality(Old(Members(r), h, w)) <= MaxPid - (k - 1)
    <3>1. CASE k = 1
      BY <2>4, <3>1
    <3>2. CASE k # 1
      <4>1. k - 1 \in 1..MaxPid
        BY <2>1, <3>2
      <4> QED BY <4>1 DEF Thinning, w
    <3> QED BY <3>1, <3>2
  \* Nobody comes up to the level: those above it are the same or fewer.
  <2>7. CASE \A t \in B : cnt[t] >= v
    <3>1. B \in SUBSET Old(Members(r), h, v)
      BY <2>3, <2>7 DEF Old
    <3>2. Cardinality(B) <= MaxPid - k
      BY <2>1, <2>4, <2>5, <3>1, FewerOld
    <3> QED BY <2>2, <3>2
  \* Somebody does, passed over by the thread that runs now.
  <2>8. CASE \E t \in B : ~(cnt[t] >= v)
    <3>1. PICK t \in B, j \in ready : cnt[t] = v - 1 /\ r[j] = t /\ t # h /\ t \in Thread
      BY <2>3, <2>8
    <3>2. /\ i \in ready /\ u # IDLE
          /\ \/ cnt[t] - priority[t] < cnt[u] - priority[u]
             \/ cnt[t] - priority[t] = cnt[u] - priority[u] /\ j <= i
      BY <1>1, <3>1
    <3>3. /\ cnt[u] \in Nat /\ priority[u] \in 0..MaxPrio /\ priority[t] \in 0..MaxPrio
      BY <1>3, <1>4, <3>1
    <3>m. PICK a, b, p, q : a = cnt[t] /\ b = cnt[u] /\ p = priority[t] /\ q = priority[u]
      OBVIOUS
    <3>n. /\ a = v - 1 /\ b \in Nat /\ p \in 0..MaxPrio /\ q \in 0..MaxPrio
          /\ a - p < b - q \/ (a - p = b - q /\ j <= i)
      <4>1. a = v - 1
        BY <3>1, <3>m
      <4>2. b \in Nat /\ p \in 0..MaxPrio /\ q \in 0..MaxPrio
        BY <3>3, <3>m
      <4>3. a - p < b - q \/ (a - p = b - q /\ j <= i)
        <5> HIDE DEF ready, u, h, B
        <5> QED BY <3>2, <3>m
      <4> QED BY <4>1, <4>2, <4>3
    <3>o. b >= w /\ (b = 0 => j <= i)
      BY <2>1, <3>n
    <3>4. cnt[u] >= w
      BY <3>m, <3>o
    <3>5. u # h
      <4> SUFFICES ASSUME u = h PROVE FALSE
        OBVIOUS
      <4>1. cnt[u] = 0
        BY <1>4
      <4>2. j <= i
        BY <3>m, <3>o, <4>1
      <4>3. i = 1
        BY <1>3 DEF Distinct
      <4>4. j \in DOMAIN r /\ j \in Int /\ j >= 1
        OBVIOUS
      <4>5. j = 1
        BY <4>2, <4>3, <4>4
      <4> QED BY <1>3, <3>1, <4>5
    <3>6. u \in Old(Members(r), h, w)
      BY <1>3, <1>4, <3>2, <3>4, <3>5 DEF Old
    <3>7. B \in SUBSET Old(Members(r), h, w)
      <4>1. \A x \in B : x # h /\ x \in Thread /\ idleCnt[x] >= w
        <5> SUFFICES ASSUME NEW x \in B PROVE x # h /\ x \in Thread /\ idleCnt[x] >= w
          OBVIOUS
        <5>1. /\ x \in Thread /\ x # h /\ idleCnt[x] = cnt[x]
              /\ cnt[x] >= v \/ cnt[x] = v - 1
          BY <2>3
        <5>2. cnt[x] \in Nat
          BY <1>4, <5>1
        <5>3. cnt[x] >= w
          BY <2>1, <5>1, <5>2
        <5> QED BY <5>1, <5>3
      <4> QED BY <4>1 DEF Old
    <3>8. u \notin B
      OBVIOUS
    <3>9. MaxPid - (k - 1) \in Int
      BY <2>1
    <3>10. Cardinality(B) <= (MaxPid - (k - 1)) - 1
      <4> HIDE DEF B, u, h
      <4> QED BY <2>4, <2>6, <3>6, <3>7, <3>8, <3>9, FewerOld
    <3> QED BY <2>1, <2>2, <3>10
  <2> QED BY <2>7, <2>8
<1> QED BY <1>2, <1>6, <1>9, <1>10

\* So nobody's count, of those that wait or run, is above the highest level.
LEMMA AgeBounds ==
  ASSUME Inv, AgeSound, NEW t \in Alive
  PROVE  idleCnt[t] <= AgeLevel(MaxPid)
<1>1. MaxPid \in 1..MaxPid /\ MaxPid \in Nat /\ AgeLevel(MaxPid) \in Nat
  BY Levels
<1>2. t \in Thread /\ idleCnt[t] \in Nat /\ Alive \subseteq Thread
  BY MembersRing DEF Inv, TypeOK, Alive
<1>3. CASE t = IDLE \/ t = threadCurrent
  BY <1>1, <1>3 DEF AgeSound
<1>4. CASE t # IDLE /\ t # threadCurrent
  <2>1. Cardinality(Waiting(AgeLevel(MaxPid))) <= MaxPid - MaxPid
    BY <1>1 DEF AgeSound
  <2>2. Waiting(AgeLevel(MaxPid)) = Old(Alive, threadCurrent, AgeLevel(MaxPid))
    BY DEF Waiting, Old
  <2>3. IsFiniteSet(Waiting(AgeLevel(MaxPid)))
    BY <1>2, <2>2, OldBound
  <2>4. Cardinality(Waiting(AgeLevel(MaxPid))) = 0
    BY <1>1, <2>1, <2>3, FS_CardinalityType
  <2>5. Waiting(AgeLevel(MaxPid)) = {}
    BY <2>3, <2>4, FS_EmptySet
  <2>6. ~(idleCnt[t] >= AgeLevel(MaxPid))
    BY <1>4, <2>5 DEF Waiting
  <2> QED BY <1>1, <1>2, <2>6
<1> QED BY <1>3, <1>4

LEMMA NextAge ==
  ASSUME Inv, AgeSound, [Next]_vars
  PROVE  AgeSound'
<1>t. /\ TypeOK /\ ring \in Seq(Thread) /\ ring # <<>> /\ Distinct(ring)
      /\ enable \in [Thread -> BOOLEAN] /\ threadSysStack \in Thread \cup {NULL}
      /\ nextPid \in 3..(MaxPid + 1) /\ MaxPid \in Nat
      /\ IDLE \in Alive /\ \A t \in Alive : t < nextPid
      /\ Alive \subseteq Thread /\ threadCurrent \in Alive
      /\ idleCnt \in [Thread -> Nat]
  BY MembersRing DEF Inv, TypeOK, RingSound, Alive, threadCurrent
<1>a. idleCnt[IDLE] = 0 /\ \A t \in nextPid..MaxPid : idleCnt[t] = 0
  BY DEF AgeSound
\* A ring of fewer threads, the current one among them or not.
<1>f. ASSUME NEW r, NEW k \in 1..MaxPid,
             \/ Members(r) \subseteq Alive /\ Head(r) = threadCurrent
             \/ Members(r) \subseteq Alive \ {threadCurrent}
      PROVE  Cardinality(Old(Members(r), Head(r), AgeLevel(k))) <= MaxPid - k
  <2>1. Waiting(AgeLevel(k)) = Old(Alive, threadCurrent, AgeLevel(k))
    BY DEF Waiting, Old
  <2>2. /\ IsFiniteSet(Waiting(AgeLevel(k)))
        /\ Cardinality(Waiting(AgeLevel(k))) <= MaxPid - k
    BY <1>t, <2>1, OldBound DEF AgeSound
  <2>3. Old(Members(r), Head(r), AgeLevel(k)) \in SUBSET Waiting(AgeLevel(k))
    BY <1>f DEF Waiting, Old
  <2>4. MaxPid - k \in Int
    BY <1>t
  <2> QED BY <2>2, <2>3, <2>4, FewerOld
\* A step that moves no count and keeps the current thread.
<1>u. ASSUME idleCnt' = idleCnt, Head(ring') = Head(ring), nextPid' \in Int,
             nextPid <= nextPid', Members(ring') \subseteq Alive \cup nextPid..MaxPid
      PROVE  AgeSound'
  <2>1. \A t \in {IDLE} \cup nextPid'..MaxPid : idleCnt'[t] = 0
    <3>1. nextPid'..MaxPid \subseteq nextPid..MaxPid
      BY <1>t, <1>u
    <3> QED BY <1>a, <1>u, <3>1
  <2>2. idleCnt'[Head(ring')] <= AgeLevel(MaxPid)
    BY <1>u DEF AgeSound, threadCurrent
  <2>3. ASSUME NEW k \in 1..MaxPid
        PROVE  Cardinality(Waiting(AgeLevel(k))') <= MaxPid - k
    <3>1. k \in Nat /\ k > 0 /\ MaxPid - k \in Int
      BY <1>t
    <3>2. AgeLevel(k) \in Nat /\ AgeLevel(k) >= 2
      BY <3>1, Levels
    <3>3. Waiting(AgeLevel(k)) = Old(Alive, threadCurrent, AgeLevel(k))
      BY DEF Waiting, Old
    <3>4. /\ IsFiniteSet(Waiting(AgeLevel(k)))
          /\ Cardinality(Waiting(AgeLevel(k))) <= MaxPid - k
      BY <1>t, <3>3, OldBound DEF AgeSound
    <3>5. Waiting(AgeLevel(k))' \in SUBSET Waiting(AgeLevel(k))
      <4> SUFFICES ASSUME NEW t \in Waiting(AgeLevel(k))' PROVE t \in Waiting(AgeLevel(k))
        OBVIOUS
      <4>1. PICK v : v = AgeLevel(k)
        OBVIOUS
      <4>2. /\ t \in Members(ring') \ {IDLE, Head(ring')}
            /\ idleCnt[t] >= v
        BY <1>u, <4>1 DEF Waiting, Alive, threadCurrent, AgeLevel
      <4>3. t \notin nextPid..MaxPid
        BY <1>a, <3>2, <4>1, <4>2
      <4> QED BY <1>u, <4>1, <4>2, <4>3 DEF Waiting, threadCurrent
    <3> QED BY <3>1, <3>4, <3>5, FewerOld
  <2> QED BY <2>1, <2>2, <2>3 DEF AgeSound, threadCurrent, AgeLevel
<1>v. ASSUME UNCHANGED <<ring, idleCnt, nextPid>> PROVE AgeSound'
  <2>1. nextPid' \in Int /\ nextPid <= nextPid'
    BY <1>t, <1>v
  <2>2. Members(ring') \subseteq Alive \cup nextPid..MaxPid
    BY <1>v DEF Alive
  <2> QED BY <1>u, <1>v, <2>1, <2>2
\* A step through the scheduler.
<1>n. ASSUME NEW r \in Seq(Thread), Distinct(r), r # <<>>,
             NEW en \in [Thread -> BOOLEAN], NEW tss \in Thread \cup {NULL},
             thread_nxt(r, en, tss), nextPid' = nextPid,
             \/ Members(r) \subseteq Alive /\ Head(r) = threadCurrent
             \/ Members(r) \subseteq Alive \ {threadCurrent}
      PROVE  AgeSound'
  <2>1. Thinning(r)
    BY <1>n, <1>f DEF Thinning
  <2>2. /\ \A t \in Thread : t \notin Members(r) \ {IDLE} => idleCnt'[t] = idleCnt[t]
        /\ idleCnt'[Head(ring')] <= AgeLevel(MaxPid)
        /\ \A k \in 1..MaxPid : Cardinality(Waiting(AgeLevel(k))') <= MaxPid - k
    BY <1>n, <1>t, <1>a, <2>1, NxtAge
  <2>3. \A t \in {IDLE} \cup nextPid'..MaxPid : idleCnt'[t] = 0
    <3>1. \A t \in {IDLE} \cup nextPid..MaxPid : t \in Thread /\ t \notin Members(r) \ {IDLE}
      <4>1. Members(r) \subseteq Alive
        BY <1>n
      <4>2. \A t \in Alive \ {IDLE} : t \notin nextPid..MaxPid
        BY <1>t
      <4>3. IDLE \in Thread /\ \A t \in nextPid..MaxPid : t \in Thread
        BY <1>t
      <4> QED BY ONLY <4>1, <4>2, <4>3
    <3> QED BY <1>a, <1>n, <2>2, <3>1
  <2> QED BY <2>2, <2>3 DEF AgeSound, threadCurrent, AgeLevel
<1>s. ASSUME NEW en \in [Thread -> BOOLEAN], thread_nxt(ring, en, threadSysStack),
             nextPid' = nextPid
      PROVE  AgeSound'
  <2>1. Members(ring) \subseteq Alive /\ Head(ring) = threadCurrent
    BY DEF Alive, threadCurrent
  <2> QED BY <1>s, <1>n, <1>t, <2>1
<1>k. ASSUME NEW t \in Alive \ {IDLE}, thread_doKill(t), nextPid' = nextPid
      PROVE  AgeSound'
  <2> DEFINE rest == Remove(ring, t)
             en   == IF t \in Med THEN [enable EXCEPT ![KERNEL] = TRUE] ELSE enable
             tss  == IF t \in Med THEN NULL ELSE threadSysStack
  <2>1. /\ rest \in Seq(Thread) /\ Members(rest) = Alive \ {t} /\ Distinct(rest)
        /\ t # Head(ring) => Head(rest) = Head(ring)
    BY <1>t, RemoveRing DEF Alive
  <2>2. rest # <<>>
    <3> HIDE DEF rest
    <3> QED BY <1>t, <2>1, MembersRing
  <2>3. CASE t = threadCurrent
    <3>1. thread_nxt(rest, en, tss)
      BY <1>k, <2>3 DEF thread_doKill
    <3>2. en \in [Thread -> BOOLEAN] /\ tss \in Thread \cup {NULL}
      BY <1>t
    <3>3. Members(rest) \subseteq Alive \ {threadCurrent}
      BY <2>1, <2>3
    <3> HIDE DEF rest, en, tss
    <3> QED BY <1>k, <1>n, <2>1, <2>2, <3>1, <3>2, <3>3
  <2>4. CASE t # threadCurrent
    <3>1. ring' = rest /\ idleCnt' = idleCnt
      BY <1>k, <2>4 DEF thread_doKill
    <3>2. Head(ring') = Head(ring) /\ Members(ring') \subseteq Alive \cup nextPid..MaxPid
      BY <2>1, <2>4, <3>1 DEF threadCurrent
    <3>3. nextPid' \in Int /\ nextPid <= nextPid'
      BY <1>t, <1>k
    <3> QED BY <1>u, <3>1, <3>2, <3>3
  <2> QED BY <2>3, <2>4
<1>1. CASE TimerTick \/ IdleYield \/ PauseYield
  BY <1>1, <1>s, <1>t DEF TimerTick, IdleYield, PauseYield, Switch
<1>2. CASE \/ UartLine \/ cmd_line_INT \/ OtherCommand \/ NothingToRead \/ NiceFound
           \/ SetStateFound \/ PauseDisable
           \/ \E t \in {KERNEL, CMD} : CreateMedNoMem(t) \/ BackFromMed(t)
  BY <1>2, <1>v DEF UartLine, cmd_line_INT, OtherCommand, NothingToRead, NiceFound,
       SetStateFound, PauseDisable, CreateMedNoMem, BackFromMed, Wild, ringVars
<1>3. CASE do_kill \/ do_ThreadState \/ do_ThreadNice
  BY <1>3, <1>v DEF do_kill, do_ThreadState, do_ThreadNice, FindPid, ringVars
<1>4. ASSUME NEW t \in {KERNEL, CMD}, CreateMed(t) PROVE AgeSound'
  <2>1. /\ ring' = Insert(ring, nextPid) /\ nextPid' = nextPid + 1 /\ idleCnt' = idleCnt
        /\ nextPid \in Thread /\ nextPid \in nextPid..MaxPid
    BY <1>4, <1>t DEF CreateMed
  <2>2. /\ Members(Insert(ring, nextPid)) = Members(ring) \cup {nextPid}
        /\ Head(Insert(ring, nextPid)) = Head(ring)
    <3>1. /\ ring \in Seq(Thread) /\ Distinct(ring) /\ nextPid \in Thread
          /\ nextPid \notin Members(ring)
      BY <1>t, <2>1 DEF Alive
    <3>2. /\ Insert(ring, nextPid) \in Seq(Thread)
          /\ Len(Insert(ring, nextPid)) = Len(ring) + 1
          /\ Members(Insert(ring, nextPid)) = Members(ring) \cup {nextPid}
          /\ ring # <<>> => Head(Insert(ring, nextPid)) = Head(ring)
          /\ Distinct(Insert(ring, nextPid))
      BY <3>1, InsertRing
    <3> QED BY <1>t, <3>2
  <2>3. nextPid' \in Int /\ nextPid <= nextPid'
    BY <1>t, <2>1
  <2> QED BY <1>u, <2>1, <2>2, <2>3 DEF Alive
<1>5. ASSUME NEW t \in {KERNEL, CMD}, LaunchMed(t) PROVE AgeSound'
  <2>1. CASE arg[t] \in Alive
    <3> DEFINE en == [enable EXCEPT ![KERNEL] = FALSE, ![arg[t]] = TRUE]
    <3>1. thread_nxt(ring, en, threadSysStack) /\ nextPid' = nextPid
      BY <1>5, <2>1 DEF LaunchMed
    <3>2. en \in [Thread -> BOOLEAN]
      BY <1>t
    <3> HIDE DEF en
    <3> QED BY <1>s, <3>1, <3>2
  <2>2. CASE arg[t] \notin Alive
    BY <1>5, <2>2, <1>v DEF LaunchMed
  <2> QED BY <2>1, <2>2
<1>6. ASSUME NEW m \in Med, thread_exit(m) PROVE AgeSound'
  <2>1. m \in Alive \ {IDLE} /\ thread_doKill(m) /\ nextPid' = nextPid
    BY <1>6, <1>t DEF thread_exit, Running
  <2> QED BY <1>k, <2>1
<1>7. CASE KillFound
  <2>1. CASE arg[CMD] \notin Alive
    BY <1>7, <2>1, <1>v DEF KillFound, Wild, ringVars
  <2>2. CASE arg[CMD] \in Alive /\ arg[CMD] = IDLE
    BY <1>7, <2>2, <1>v DEF KillFound, ringVars
  <2>3. CASE arg[CMD] \in Alive /\ arg[CMD] # IDLE
    <3>1. thread_doKill(arg[CMD]) /\ nextPid' = nextPid
      BY <1>7, <2>3 DEF KillFound
    <3> QED BY <1>k, <2>3, <3>1
  <2> QED BY <2>1, <2>2, <2>3
<1>8. CASE UNCHANGED vars
  BY <1>8, <1>v DEF vars, ringVars
<1> QED
  BY <1>1, <1>2, <1>3, <1>4, <1>5, <1>6, <1>7, <1>8 DEF Next, MedStep, CmdStep

\* No thread that is enabled is passed over more than MaxPid * (MaxPrio + 1)
\* times, for any number of threads and priorities, whatever is started,
\* killed, disabled, enabled and reniced meanwhile.
THEOREM WaitIsBounded == Spec => []BoundedWait
<1>1. Init => AgeSound
  <2> SUFFICES ASSUME Init PROVE AgeSound
    OBVIOUS
  <2>1. /\ ring = <<0, 2, 1>> /\ idleCnt = [t \in Thread |-> 0] /\ nextPid = 3
    BY DEF Init
  <2>2. \A t \in {IDLE} \cup nextPid..MaxPid : idleCnt[t] = 0
    BY <2>1
  <2>3. MaxPid \in Nat /\ AgeLevel(MaxPid) \in Nat
    BY Levels
  <2>4. idleCnt[threadCurrent] <= AgeLevel(MaxPid)
    <3>1. idleCnt[threadCurrent] = 0
      BY <2>1 DEF threadCurrent
    <3> QED BY <2>3, <3>1
  <2>5. ASSUME NEW k \in 1..MaxPid
        PROVE  Cardinality(Waiting(AgeLevel(k))) <= MaxPid - k
    <3>1. k \in Nat /\ k > 0 /\ MaxPid - k \in Nat
      OBVIOUS
    <3>2. AgeLevel(k) >= 2 /\ AgeLevel(k) \in Nat
      BY <3>1, Levels
    <3>3. Alive \subseteq Thread
      BY InitInv, MembersRing DEF Inv, TypeOK, Alive
    <3>4. Waiting(AgeLevel(k)) = {}
      <4>1. \A t \in Alive : ~(idleCnt[t] >= AgeLevel(k))
        BY <2>1, <3>2, <3>3
      <4> QED BY <4>1 DEF Waiting
    <3> QED BY <3>1, <3>4, FS_EmptySet
  <2> QED BY <2>2, <2>4, <2>5 DEF AgeSound
<1>2. Inv /\ AgeSound /\ [Next]_vars => AgeSound'
  BY NextAge
<1>3. Inv /\ AgeSound => BoundedWait
  BY AgeBounds DEF BoundedWait
<1> QED BY InitInv, NextInv, <1>1, <1>2, <1>3, PTL DEF Spec
=============================================================================
