-------------------------- MODULE ThreadRingProofs --------------------------
(***************************************************************************)
(* The links of the thread ring stay whole, and thread_findPid does not    *)
(* miss a thread that stays in it, for any number of threads and walks.    *)
(*                                                                         *)
(* That the links form one ring is said without following them: a set of   *)
(* threads that nxt does not lead out of is the whole ring (OneRing).      *)
(***************************************************************************)
EXTENDS ThreadRing, SequenceTheorems, FiniteSetTheorems, WellFoundedInduction, TLAPS

\* Pids are not given out twice; a thread that is not yet there has no link.
Order ==
  /\ nxt \in [Thread -> Thread \cup {NULL}] /\ prev \in [Thread -> Thread \cup {NULL}]
  /\ created \in Nat
  /\ OnRing \subseteq 0..(created - 1)
  /\ created = 0 => threadCurrent = NULL
  /\ created > IDLE => IDLE \in OnRing
  /\ threadCurrent # NULL => created > 0

RInv == Order /\ LinksAgree /\ OneRing

\* What a walk of w has still to look at: every set with ptr[w] that nxt does
\* not lead out of before it is back at w has the thread w looks for.
Ahead(w) ==
  \A S \in SUBSET OnRing :
    ptr[w] \in S /\ (\A s \in S : nxt[s] # w => nxt[s] \in S)
      => (pid[w] \in through[w] => pid[w] \in S)

Walk ==
  /\ ptr \in [Walkers -> Thread \cup {NULL}] /\ pid \in [Walkers -> Thread \cup {NULL}]
  /\ through \in [Walkers -> SUBSET Thread]
  /\ result \in [Walkers -> {"none", "found", "missing"}]
  /\ \A w \in Walkers : ptr[w] # NULL => ptr[w] < created /\ w < created
  /\ \A w \in Walkers : ptr[w] \in OnRing /\ w \in OnRing => Ahead(w)

-----------------------------------------------------------------------------
\* Facts of numbers and of the ring.
LEMMA Ids == /\ IDLE \in Thread /\ NULL \notin Thread /\ Thread \subseteq Nat
             /\ Walkers \subseteq Thread /\ Victims \subseteq Thread \ {IDLE}
             /\ \A t \in Thread : t # NULL
  BY RingAssumption DEF IDLE, NULL, Thread

LEMMA InitRInv == Init => RInv /\ Walk /\ FindsWhatIsThere
<1> SUFFICES ASSUME Init PROVE RInv /\ Walk /\ FindsWhatIsThere
  OBVIOUS
<1>1. OnRing = {}
  BY DEF Init, OnRing
<1>2. Order
  BY <1>1, Ids DEF Init, Order, IDLE
<1>3. LinksAgree /\ OneRing
  BY <1>1, Ids DEF Init, LinksAgree, OneRing
<1>4. Walk
  BY <1>1, Ids DEF Init, Walk
<1>5. FindsWhatIsThere
  BY DEF Init, FindsWhatIsThere
<1> QED BY <1>2, <1>3, <1>4, <1>5 DEF RInv

-----------------------------------------------------------------------------
\* thread_insert leaves one ring.
LEMMA InsertLinks ==
  ASSUME NEW t \in Thread, RInv, thread_insert(t)
  PROVE  /\ RInv'
         /\ OnRing' = OnRing \cup {t} /\ t \notin OnRing /\ t = created
         /\ threadCurrent # NULL =>
              /\ threadCurrent \in OnRing /\ nxt[threadCurrent] \in OnRing
              /\ nxt' = [nxt EXCEPT ![threadCurrent] = t, ![t] = nxt[threadCurrent]]
<1> USE Ids
<1> DEFINE c == threadCurrent
           n == nxt[threadCurrent]
<1>1. t = created /\ created' = created + 1 /\ t \notin OnRing
  BY DEF thread_insert, RInv, Order, Thread
<1>2. CASE threadCurrent = NULL
  <2>1. created = 0 /\ OnRing = {}
    BY <1>2 DEF RInv, Order, LinksAgree, OnRing, Thread
  <2>2. /\ nxt' = [nxt EXCEPT ![t] = t] /\ prev' = [prev EXCEPT ![t] = t]
        /\ threadCurrent' = t
    BY <1>2 DEF thread_insert
  <2>3. OnRing' = {t}
    BY <2>1, <2>2 DEF OnRing, RInv, Order
  <2>4. Order'
    BY <1>1, <2>1, <2>2, <2>3 DEF RInv, Order, IDLE
  <2>5. LinksAgree'
    BY <1>1, <2>1, <2>2, <2>3 DEF RInv, Order, LinksAgree
  <2>6. OneRing'
    BY <2>3 DEF OneRing
  <2> QED BY <1>1, <1>2, <2>1, <2>3, <2>4, <2>5, <2>6 DEF RInv
<1>3. CASE threadCurrent # NULL
  <2>1. c \in OnRing /\ n \in OnRing /\ prev[n] = c /\ n # t /\ c # t
    BY <1>1, <1>3 DEF RInv, Order, LinksAgree, IDLE
  <2>2. /\ nxt' = [nxt EXCEPT ![c] = t, ![t] = n]
        /\ prev' = [prev EXCEPT ![n] = t, ![t] = c]
        /\ threadCurrent' = c
    BY <1>3 DEF thread_insert
  <2>3. OnRing' = OnRing \cup {t}
    BY <2>1, <2>2 DEF OnRing, RInv, Order
  <2>4. Order'
    <3>1. nxt' \in [Thread -> Thread \cup {NULL}] /\ prev' \in [Thread -> Thread \cup {NULL}]
      BY <2>1, <2>2 DEF RInv, Order, OnRing
    <3>2. created \in Nat /\ OnRing \subseteq 0..(created - 1) /\ created > 0
      BY <1>3 DEF RInv, Order
    <3>3. created > IDLE => IDLE \in OnRing
      BY DEF RInv, Order
    <3>4. OnRing' \subseteq 0..(created' - 1)
      BY <3>2, <2>3, <1>1
    <3>5. created' > IDLE => IDLE \in OnRing'
      BY <3>2, <3>3, <2>3, <1>1 DEF IDLE
    <3> QED BY <3>1, <3>2, <3>4, <3>5, <1>1 DEF Order
  <2>5. LinksAgree'
    <3>1. \A s \in OnRing' : nxt'[s] \in OnRing'
      BY <2>1, <2>2, <2>3 DEF RInv, Order, LinksAgree, OnRing
    <3>2. ASSUME NEW s \in OnRing' PROVE prev'[nxt'[s]] = s
      <4>1. CASE s = t
        BY <4>1, <2>1, <2>2 DEF RInv, Order, LinksAgree, OnRing
      <4>2. CASE s = c
        BY <4>2, <2>1, <2>2 DEF RInv, Order, LinksAgree, OnRing
      <4>3. CASE s # t /\ s # c
        <5>1. s \in OnRing /\ nxt'[s] = nxt[s] /\ nxt[s] \in OnRing /\ prev[nxt[s]] = s
          BY <4>3, <2>2, <2>3 DEF RInv, Order, LinksAgree, OnRing
        <5>2. nxt[s] # n /\ nxt[s] # t
          BY <5>1, <4>3, <2>1, <1>1
        <5>3. nxt[s] \in Thread /\ prev'[nxt[s]] = prev[nxt[s]]
          BY <5>1, <5>2, <2>2 DEF RInv, Order, OnRing
        <5> QED BY <5>1, <5>3
      <4> QED BY <4>1, <4>2, <4>3
    <3>3. \A s \in Thread \ OnRing' : prev'[s] = NULL
      BY <2>1, <2>2, <2>3 DEF RInv, Order, LinksAgree
    <3> QED BY <3>1, <3>2, <3>3, <2>1, <2>2, <2>3 DEF LinksAgree
  <2>6. OneRing'
    <3> SUFFICES ASSUME NEW S \in SUBSET OnRing', S # {}, \A s \in S : nxt'[s] \in S
                 PROVE  S = OnRing'
      BY DEF OneRing
    <3> DEFINE R == S \ {t}
    <3>1. \A s \in R : s \in OnRing /\ nxt[s] \in R
      <4> TAKE s \in R
      <4>1. s \in OnRing /\ nxt[s] \in OnRing /\ nxt[s] # t
        BY <1>1, <2>3 DEF RInv, LinksAgree
      <4>2. CASE s = c
        BY <4>1, <4>2, <2>1, <2>2 DEF RInv, Order, OnRing
      <4>3. CASE s # c
        BY <4>1, <4>3, <2>2 DEF RInv, Order, OnRing
      <4> QED BY <4>2, <4>3, <4>1
    <3>2. R # {}
      BY <2>1, <2>2 DEF RInv, Order
    <3>3. R = OnRing
      BY <3>1, <3>2 DEF RInv, OneRing
    <3>4. t \in S
      BY <3>3, <2>1, <2>2 DEF RInv, Order, OnRing
    <3> QED BY <3>3, <3>4, <2>3
  <2> QED BY <1>1, <2>1, <2>2, <2>3, <2>4, <2>5, <2>6 DEF RInv
<1> QED BY <1>2, <1>3
\* thread_remove leaves one ring.
LEMMA RemoveLinks ==
  ASSUME NEW t \in Thread, RInv, thread_remove(t)
  PROVE  /\ RInv'
         /\ t \in OnRing /\ OnRing' = OnRing \ {t}
         /\ prev[t] \in OnRing' /\ nxt[t] \in OnRing' /\ nxt[prev[t]] = t
         /\ nxt' = [[nxt EXCEPT ![prev[t]] = nxt[t]] EXCEPT ![t] = NULL]
<1> USE Ids
<1> DEFINE p == prev[t]
           n == nxt[t]
<1>1. /\ t \in OnRing /\ t \in Victims /\ created > IDLE /\ IDLE \in OnRing /\ t # IDLE
      /\ nxt' = [[nxt EXCEPT ![p] = n] EXCEPT ![t] = NULL]
      /\ prev' = [[prev EXCEPT ![n] = p] EXCEPT ![t] = NULL]
      /\ threadCurrent' = IF threadCurrent = t THEN n ELSE threadCurrent
      /\ created' = created
  BY DEF thread_remove, RInv, Order
<1>2. n \in OnRing /\ prev[n] = t
  BY <1>1 DEF RInv, LinksAgree
<1>3. n # t
  <2> SUFFICES ASSUME n = t PROVE FALSE
    OBVIOUS
  <2>1. {t} = OnRing
    BY <1>1 DEF RInv, OneRing
  <2> QED BY <2>1, <1>1
\* The threads that something leads to are a closed set.
<1>4. PICK q \in OnRing : nxt[q] = t
  <2> DEFINE S == {s \in OnRing : \E r \in OnRing : nxt[r] = s}
  <2>1. S # {} /\ \A s \in S : nxt[s] \in S
    BY <1>1 DEF RInv, LinksAgree
  <2>2. S = OnRing
    BY <2>1 DEF RInv, OneRing
  <2> QED BY <2>2, <1>1
<1>5. p = q /\ p \in OnRing /\ nxt[p] = t /\ p # t
  BY <1>1, <1>3, <1>4 DEF RInv, LinksAgree
<1>6. OnRing' = OnRing \ {t}
  BY <1>1, <1>2, <1>5 DEF OnRing, RInv, Order
<1>7. Order'
  <2>1. nxt' \in [Thread -> Thread \cup {NULL}] /\ prev' \in [Thread -> Thread \cup {NULL}]
    BY <1>1, <1>2, <1>5 DEF RInv, Order, OnRing
  <2>2. created \in Nat /\ OnRing \subseteq 0..(created - 1) /\ created > 0
    BY <1>1 DEF RInv, Order, IDLE
  <2> QED BY <2>1, <2>2, <1>1, <1>6 DEF Order
<1>8. LinksAgree'
  <2>1. ASSUME NEW s \in OnRing' PROVE nxt'[s] \in OnRing' /\ prev'[nxt'[s]] = s
    <3>1. s \in OnRing /\ s # t
      BY <1>6
    <3>2. CASE s = p
      BY <3>2, <1>1, <1>2, <1>3, <1>5, <1>6 DEF RInv, Order, OnRing
    <3>3. CASE s # p
      <4>1. nxt'[s] = nxt[s] /\ nxt[s] \in OnRing /\ prev[nxt[s]] = s
        BY <3>1, <3>3, <1>1 DEF RInv, Order, LinksAgree, OnRing
      <4>2. nxt[s] # t /\ nxt[s] # n
        BY <4>1, <3>1, <3>3, <1>2, <1>5
      <4>3. prev'[nxt[s]] = prev[nxt[s]]
        BY <4>1, <4>2, <1>1 DEF RInv, Order, OnRing
      <4> QED BY <4>1, <4>2, <4>3, <1>6
    <3> QED BY <3>2, <3>3
  <2>2. \A s \in Thread \ OnRing' : prev'[s] = NULL
    BY <1>1, <1>2, <1>3, <1>6 DEF RInv, Order, LinksAgree
  <2>3. threadCurrent \in OnRing
    BY <1>1 DEF RInv, LinksAgree, Order, IDLE
  <2>4. threadCurrent' \in OnRing'
    BY <2>3, <1>1, <1>2, <1>3, <1>6
  <2> QED BY <2>1, <2>2, <2>4 DEF LinksAgree
<1>9. OneRing'
  <2> SUFFICES ASSUME NEW S \in SUBSET OnRing', S # {}, \A s \in S : nxt'[s] \in S
               PROVE  S = OnRing'
    BY DEF OneRing
  <2>1. \A s \in S : s \in OnRing /\ s # t /\ (s # p => nxt'[s] = nxt[s])
    BY <1>1, <1>6 DEF RInv, Order, OnRing
  <2>2. CASE p \in S
    <3>1. n \in S
      BY <2>2, <1>1, <1>5 DEF RInv, Order, OnRing
    <3>2. \A s \in S \cup {t} : s \in OnRing /\ nxt[s] \in S \cup {t}
      BY <2>1, <3>1, <1>1, <1>5
    <3>3. S \cup {t} = OnRing
      BY <3>2 DEF RInv, OneRing
    <3> QED BY <3>3, <1>6
  <2>3. CASE p \notin S
    <3>1. \A s \in S : nxt[s] \in S
      BY <2>1, <2>3
    <3>2. S = OnRing
      BY <2>1, <3>1 DEF RInv, OneRing
    <3> QED BY <3>2, <2>3, <1>5
  <2> QED BY <2>2, <2>3
<1> QED BY <1>1, <1>2, <1>3, <1>5, <1>6, <1>7, <1>8, <1>9 DEF RInv
-----------------------------------------------------------------------------
\* Every step leaves one ring.
LEMMA NextRInv == RInv /\ [Next]_vars => RInv'
<1> SUFFICES ASSUME RInv, [Next]_vars PROVE RInv'
  OBVIOUS
<1>1. ASSUME NEW t \in Thread, thread_insert(t) PROVE RInv'
  BY <1>1, InsertLinks
<1>2. ASSUME NEW t \in Thread, thread_remove(t) PROVE RInv'
  BY <1>2, RemoveLinks
<1>3. CASE thread_nxt
  <2>1. OnRing' = OnRing
    BY <1>3 DEF thread_nxt, OnRing
  <2>2. created \in Nat /\ created > 0 /\ threadCurrent # NULL /\ threadCurrent' \in OnRing
    BY <1>3, Ids DEF thread_nxt, RInv, Order
  <2>3. Order'
    BY <1>3, <2>1, <2>2 DEF thread_nxt, RInv, Order
  <2>4. LinksAgree' /\ OneRing'
    BY <1>3, <2>1, <2>2 DEF thread_nxt, RInv, LinksAgree, OneRing
  <2> QED BY <2>3, <2>4 DEF RInv
<1>4. CASE UNCHANGED links
  <2>1. OnRing' = OnRing
    BY <1>4 DEF links, OnRing
  <2> QED BY <1>4, <2>1 DEF links, RInv, Order, LinksAgree, OneRing
<1>5. ASSUME NEW w \in Walkers, FindStep(w) \/ \E p \in Thread : FindStart(w, p)
      PROVE  UNCHANGED links
  BY <1>5 DEF FindStep, FindStart
<1> QED BY <1>1, <1>2, <1>3, <1>4, <1>5 DEF Next, vars

\* A walk that steps on leaves nothing behind that it looks for.
LEMMA StepWalk ==
  ASSUME RInv, Walk, FindsWhatIsThere, NEW w \in Walkers, FindStep(w)
  PROVE  Walk' /\ FindsWhatIsThere'
<1> USE Ids
<1>1. /\ w \in OnRing /\ ptr[w] \in OnRing /\ Ahead(w) /\ OnRing' = OnRing
      /\ created' = created /\ nxt' = nxt /\ pid' = pid /\ through' = through
  BY DEF FindStep, links, RInv, Order, LinksAgree, Walk, OnRing, IDLE
<1>2. CASE ptr[w] = pid[w]
  <2>1. result' = [result EXCEPT ![w] = "found"] /\ ptr' = [ptr EXCEPT ![w] = NULL]
    BY <1>2 DEF FindStep
  <2>2. Walk'
    BY <1>1, <2>1 DEF Walk, Ahead, OnRing
  <2> QED BY <1>1, <2>1, <2>2 DEF Walk, FindsWhatIsThere
<1>3. CASE ptr[w] # pid[w] /\ nxt[ptr[w]] = w
  <2>1. result' = [result EXCEPT ![w] = "missing"] /\ ptr' = [ptr EXCEPT ![w] = NULL]
    BY <1>3 DEF FindStep
  <2>2. pid[w] \notin through[w]
    <3>1. {ptr[w]} \in SUBSET OnRing /\ \A s \in {ptr[w]} : nxt[s] = w
      BY <1>1, <1>3
    <3>2. pid[w] \in through[w] => pid[w] \in {ptr[w]}
      BY <3>1, <1>1 DEF Ahead
    <3> QED BY <3>2, <1>3
  <2>3. Walk'
    BY <1>1, <2>1 DEF Walk, Ahead, OnRing
  <2> QED BY <1>1, <2>1, <2>2, <2>3 DEF Walk, FindsWhatIsThere
<1>4. CASE ptr[w] # pid[w] /\ nxt[ptr[w]] # w
  <2>1. result' = result /\ ptr' = [ptr EXCEPT ![w] = nxt[ptr[w]]]
    BY <1>4 DEF FindStep
  <2>2. nxt[ptr[w]] \in OnRing
    BY <1>1 DEF RInv, LinksAgree
  <2>3. Ahead(w)'
    <3> SUFFICES ASSUME NEW S \in SUBSET OnRing, nxt[ptr[w]] \in S,
                        \A s \in S : nxt[s] # w => nxt[s] \in S, pid[w] \in through[w]
                 PROVE  pid[w] \in S
      BY <1>1, <2>1 DEF Ahead, Walk
    <3>1. pid[w] \in S \cup {ptr[w]}
      BY <1>1 DEF Ahead
    <3> QED BY <3>1, <1>4
  <2>4. \A v \in Walkers : ptr'[v] # NULL => ptr'[v] < created' /\ v < created'
    <3>1. nxt[ptr[w]] < created
      <4>1. created \in Nat /\ nxt[ptr[w]] \in 0..(created - 1)
        BY <2>2 DEF RInv, Order
      <4> QED BY <4>1
    <3>2. \A v \in Walkers \ {w} : ptr'[v] = ptr[v]
      BY <2>1 DEF Walk
    <3>3. ptr'[w] = nxt[ptr[w]]
      BY <2>1 DEF Walk
    <3>4. w < created
      BY <1>1 DEF Walk, OnRing
    <3> QED BY <3>1, <3>2, <3>3, <3>4, <1>1 DEF Walk
  <2>5. \A v \in Walkers : ptr'[v] \in OnRing' /\ v \in OnRing' => Ahead(v)'
    <3> TAKE v \in Walkers
    <3>1. CASE v = w
      BY <3>1, <2>3
    <3>2. CASE v # w
      BY <3>2, <1>1, <2>1 DEF Walk, Ahead, OnRing
    <3> QED BY <3>1, <3>2
  <2>6. Walk'
    BY <1>1, <2>1, <2>2, <2>4, <2>5 DEF Walk, OnRing
  <2> QED BY <1>1, <2>1, <2>6 DEF FindsWhatIsThere
<1> QED BY <1>2, <1>3, <1>4

\* A walk that begins has the whole ring ahead.
LEMMA StartWalk ==
  ASSUME RInv, Walk, FindsWhatIsThere, NEW w \in Walkers, NEW p \in Thread, FindStart(w, p)
  PROVE  Walk' /\ FindsWhatIsThere'
<1> USE Ids
<1>1. /\ w \in OnRing /\ w < created /\ OnRing' = OnRing /\ created' = created
      /\ nxt' = nxt /\ ptr' = [ptr EXCEPT ![w] = w] /\ pid' = [pid EXCEPT ![w] = p]
      /\ through' = [through EXCEPT ![w] = OnRing]
      /\ result' = [result EXCEPT ![w] = "none"]
  BY DEF FindStart, links, RInv, Order, LinksAgree, OnRing, IDLE
<1>2. Ahead(w)'
  <2> SUFFICES ASSUME NEW S \in SUBSET OnRing, w \in S,
                      \A s \in S : nxt[s] # w => nxt[s] \in S, p \in OnRing
               PROVE  p \in S
    BY <1>1 DEF Ahead, Walk
  <2>1. S = OnRing
    BY DEF RInv, OneRing
  <2> QED BY <2>1
<1>3. \A v \in Walkers : ptr'[v] \in OnRing' /\ v \in OnRing' => Ahead(v)'
  <2> TAKE v \in Walkers
  <2>1. CASE v = w
    BY <2>1, <1>2
  <2>2. CASE v # w
    BY <2>2, <1>1 DEF Walk, Ahead, OnRing
  <2> QED BY <2>1, <2>2
<1>4. Walk'
  BY <1>1, <1>3 DEF Walk, OnRing
<1> QED BY <1>1, <1>4 DEF Walk, FindsWhatIsThere

\* Other threads come and go while a walk rests.
LEMMA InsertWalk ==
  ASSUME RInv, Walk, FindsWhatIsThere, NEW t \in Thread, thread_insert(t)
  PROVE  Walk' /\ FindsWhatIsThere'
<1> USE Ids
<1>1. UNCHANGED walks /\ created' = created + 1 /\ created \in Nat
  BY DEF thread_insert, RInv, Order
<1>2. OnRing' = OnRing \cup {t} /\ t \notin OnRing /\ t = created
  BY InsertLinks
<1>3. ASSUME NEW w \in Walkers, ptr[w] \in OnRing', w \in OnRing' PROVE Ahead(w)'
  <2>1. ptr[w] \in OnRing /\ ptr[w] # t
    BY <1>1, <1>2, <1>3 DEF Walk
  <2>0. ptr[w] # NULL /\ w < created
    BY <2>1, Ids DEF Walk, OnRing
  <2>9. w # t
    BY <2>0, <1>1, <1>2
  <2>2. w \in OnRing /\ w # t /\ ptr'[w] = ptr[w] /\ through'[w] = through[w]
        /\ pid'[w] = pid[w] /\ Ahead(w)
    BY <1>1, <1>2, <1>3, <2>1, <2>9 DEF Walk, walks
  <2>3. threadCurrent # NULL
    BY <2>1 DEF RInv, Order, LinksAgree, IDLE, OnRing
  <2> DEFINE c == threadCurrent
  <2>4. /\ c \in OnRing /\ nxt[c] \in OnRing
        /\ nxt' = [nxt EXCEPT ![c] = t, ![t] = nxt[c]]
    BY <2>3, InsertLinks
  <2> SUFFICES ASSUME NEW S \in SUBSET OnRing', ptr[w] \in S,
                      \A s \in S : nxt'[s] # w => nxt'[s] \in S, pid[w] \in through[w]
               PROVE  pid[w] \in S
    BY <2>2 DEF Ahead
  <2> DEFINE R == S \ {t}
  <2>5. R \in SUBSET OnRing /\ ptr[w] \in R
    BY <1>2, <2>1
  <2>6. ASSUME NEW s \in R, nxt[s] # w PROVE nxt[s] \in R
    <3>1. nxt[s] \in OnRing /\ nxt[s] # t
      BY <1>2, <2>5 DEF RInv, LinksAgree
    <3>2. CASE s = c
      <4>1. nxt'[c] = t /\ nxt'[t] = nxt[c]
        BY <2>4, <1>2 DEF RInv, Order, OnRing
      <4> QED BY <4>1, <3>2, <2>6, <2>2, <3>1
    <3>3. CASE s # c
      <4>1. nxt'[s] = nxt[s]
        BY <2>4, <2>5, <1>2, <3>3 DEF RInv, Order, OnRing
      <4> QED BY <4>1, <2>6, <3>1
    <3> QED BY <3>2, <3>3
  <2>7. pid[w] \in R
    BY <2>2, <2>5, <2>6 DEF Ahead
  <2> QED BY <2>7
<1>4. \A w \in Walkers : ptr[w] # NULL => ptr[w] < created' /\ w < created'
  <2> TAKE w \in Walkers
  <2>1. w \in Nat /\ ptr[w] \in Thread \cup {NULL}
    BY DEF Walk
  <2> QED BY <2>1, <1>1 DEF Walk, Thread
<1>5. Walk'
  BY <1>1, <1>3, <1>4 DEF Walk, walks
<1> QED BY <1>1, <1>5 DEF FindsWhatIsThere, walks

LEMMA RemoveWalk ==
  ASSUME RInv, Walk, FindsWhatIsThere, NEW t \in Thread, thread_remove(t)
  PROVE  Walk' /\ FindsWhatIsThere'
<1> USE Ids
<1>1. /\ created' = created /\ ptr' = ptr /\ pid' = pid /\ result' = result
      /\ through' = [w \in Walkers |-> through[w] \ {t}]
  BY DEF thread_remove
<1> DEFINE p == prev[t]
<1>2. /\ t \in OnRing /\ OnRing' = OnRing \ {t} /\ p \in OnRing' /\ nxt[t] \in OnRing'
      /\ nxt[p] = t /\ nxt' = [[nxt EXCEPT ![p] = nxt[t]] EXCEPT ![t] = NULL]
  BY RemoveLinks
<1>3. ASSUME NEW w \in Walkers, ptr[w] \in OnRing', w \in OnRing' PROVE Ahead(w)'
  <2>1. ptr[w] \in OnRing /\ w \in OnRing /\ w # t /\ Ahead(w)
    BY <1>2, <1>3 DEF Walk
  <2> SUFFICES ASSUME NEW S \in SUBSET OnRing', ptr[w] \in S,
                      \A s \in S : nxt'[s] # w => nxt'[s] \in S,
                      pid[w] \in through[w], pid[w] # t
               PROVE  pid[w] \in S
    BY <1>1, <2>1 DEF Ahead
  <2>2. \A s \in S : s \in OnRing /\ s # t /\ (s # p => nxt'[s] = nxt[s])
    BY <1>2 DEF RInv, Order, OnRing
  <2>3. CASE p \in S
    <3>1. nxt[t] # w => nxt[t] \in S
      BY <2>3, <1>2 DEF RInv, Order, OnRing
    <3>2. \A s \in S \cup {t} : nxt[s] # w => nxt[s] \in S \cup {t}
      BY <2>2, <3>1, <1>2
    <3>3. pid[w] \in S \cup {t}
      <4>1. S \cup {t} \in SUBSET OnRing
        BY <1>2
      <4> QED BY <4>1, <3>2, <2>1 DEF Ahead
    <3> QED BY <3>3
  <2>4. CASE p \notin S
    <3>1. \A s \in S : nxt[s] # w => nxt[s] \in S
      BY <2>2, <2>4
    <3>2. S \in SUBSET OnRing
      BY <1>2
    <3> QED BY <3>1, <3>2, <2>1 DEF Ahead
  <2> QED BY <2>3, <2>4
<1>4. Walk'
  BY <1>1, <1>2, <1>3 DEF Walk
<1> QED BY <1>1, <1>4 DEF FindsWhatIsThere

LEMMA NextWalk == RInv /\ Walk /\ FindsWhatIsThere /\ [Next]_vars => Walk' /\ FindsWhatIsThere'
<1> SUFFICES ASSUME RInv, Walk, FindsWhatIsThere, [Next]_vars
             PROVE  Walk' /\ FindsWhatIsThere'
  OBVIOUS
<1>1. CASE thread_nxt \/ UNCHANGED vars
  <2>1. UNCHANGED <<nxt, prev, created, walks>> /\ OnRing' = OnRing
    BY <1>1 DEF thread_nxt, vars, links, OnRing
  <2> QED BY <2>1 DEF walks, Walk, Ahead, FindsWhatIsThere
<1> QED BY <1>1, InsertWalk, RemoveWalk, StepWalk, StartWalk DEF Next

-----------------------------------------------------------------------------
\* The two links of the ring agree and the current thread is on it, for any
\* number of threads that come and go (thread_insert, thread_remove).
THEOREM RingLinked == Spec => []LinksAgree
<1>1. RInv => LinksAgree
  BY DEF RInv
<1> QED BY <1>1, InitRInv, NextRInv, PTL DEF Spec

\* nxt leads from every thread of the ring to every other: no thread is cut off.
THEOREM RingWhole == Spec => []OneRing
<1>1. RInv => OneRing
  BY DEF RInv
<1> QED BY <1>1, InitRInv, NextRInv, PTL DEF Spec

\* thread_findPid finds a thread that was in the ring during the whole walk, for
\* any number of walks and of changes between two iterations.
THEOREM WalkFinds == Spec => []FindsWhatIsThere
  BY InitRInv, NextRInv, NextWalk, PTL DEF Spec
-----------------------------------------------------------------------------
(***************************************************************************)
(* The sequence the links spell.  Facts about all its places rest on the   *)
(* least place where they fail.                                            *)
(***************************************************************************)
LEMMA LeastNat ==
  ASSUME NEW A \in SUBSET Nat, A # {}
  PROVE  \E m \in A : \A k \in A : m <= k
<1> DEFINE R == {ss \in Nat \X Nat : ss[1] < ss[2]}
<1>1. IsWellFoundedOn(R, Nat)
  BY NatLessThanWellFounded DEF OpToRel
<1>2. PICK m \in A : \A y \in A : ~(<<y, m>> \in R)
  <2> HIDE DEF R
  <2> QED BY <1>1, WFMin
<1>3. ASSUME NEW k \in A PROVE m <= k
  <2>1. k \in Nat /\ m \in Nat
    OBVIOUS
  <2>2. ~(<<k, m>> \in R)
    BY <1>2
  <2>3. ~(k < m)
    BY <2>1, <2>2
  <2> QED BY <2>1, <2>3
<1> QED BY <1>3

\* The sequence of length n that starts with c and follows f.
Follows(g, n, c, f) == g = [i \in 1..n |-> IF i = 1 THEN c ELSE f[g[i - 1]]]

LEMMA FollowsExists ==
  ASSUME NEW S, NEW f, \A s \in S : f[s] \in S, NEW c \in S, NEW n \in Nat
  PROVE  \E g \in [1..n -> S] : Follows(g, n, c, f)
<1> DEFINE Good(m) == \E g \in [1..m -> S] :
                        \A i \in 1..m : g[i] = IF i = 1 THEN c ELSE f[g[i - 1]]
           Bad == {m \in Nat : ~Good(m)}
<1>1. Bad = {}
  <2> SUFFICES ASSUME Bad # {} PROVE FALSE
    OBVIOUS
  <2>1. PICK m \in Bad : \A k \in Bad : m <= k
    <3> HIDE DEF Bad
    <3>1. Bad \in SUBSET Nat
      BY DEF Bad
    <3> QED BY <3>1, LeastNat
  <2>2. m # 0
    <3> DEFINE e == [i \in 1..0 |-> c]
    <3>1. e \in [1..0 -> S]
      OBVIOUS
    <3>2. \A i \in 1..0 : e[i] = IF i = 1 THEN c ELSE f[e[i - 1]]
      OBVIOUS
    <3>3. Good(0)
      <4> HIDE DEF e
      <4> QED BY <3>1, <3>2
    <3> QED BY <3>3
  <2>3. Good(m - 1)
    <3>1. m - 1 \in Nat /\ ~(m <= m - 1)
      BY <2>2
    <3>2. m - 1 \notin Bad
      <4> HIDE DEF Bad
      <4> QED BY <2>1, <3>1
    <3> HIDE DEF Good
    <3> QED BY <3>1, <3>2
  <2>4. PICK g \in [1..(m - 1) -> S] :
          \A i \in 1..(m - 1) : g[i] = IF i = 1 THEN c ELSE f[g[i - 1]]
    BY <2>3
  <2> DEFINE h == [i \in 1..m |-> IF i = 1 THEN c ELSE f[g[i - 1]]]
  <2>5. h \in [1..m -> S]
    BY <2>4
  <2>6. \A i \in 1..m : h[i] = IF i = 1 THEN c ELSE f[h[i - 1]]
    BY <2>4
  <2> QED BY <2>5, <2>6
<1>2. Good(n)
  BY <1>1
<1>3. PICK g \in [1..n -> S] : \A i \in 1..n : g[i] = IF i = 1 THEN c ELSE f[g[i - 1]]
  BY <1>2
<1> QED BY <1>3 DEF Follows

LEMMA FollowsOnce ==
  ASSUME NEW n \in Nat, NEW c, NEW f,
         NEW g, Follows(g, n, c, f), NEW h, Follows(h, n, c, f)
  PROVE  h = g
<1> DEFINE Bad == {i \in 1..n : g[i] # h[i]}
<1>0. \A i \in 1..n : /\ g[i] = IF i = 1 THEN c ELSE f[g[i - 1]]
                     /\ h[i] = IF i = 1 THEN c ELSE f[h[i - 1]]
  BY DEF Follows
<1>1. Bad = {}
  <2> SUFFICES ASSUME Bad # {} PROVE FALSE
    OBVIOUS
  <2>1. PICK m \in Bad : \A k \in Bad : m <= k
    <3> HIDE DEF Bad
    <3>1. Bad \in SUBSET Nat
      BY DEF Bad
    <3> QED BY <3>1, LeastNat
  <2>2. m \in 2..n /\ m - 1 \in 1..n
    BY <1>0
  <2>3. g[m - 1] = h[m - 1]
    <3>1. m - 1 \notin Bad
      <4>1. ~(m <= m - 1)
        BY <2>2
      <4> HIDE DEF Bad
      <4> QED BY <2>1, <4>1
    <3> QED BY <3>1, <2>2
  <2>4. m \in 1..n /\ m # 1 /\ g[m] # h[m]
    BY <2>2
  <2>5. g[m] = f[g[m - 1]] /\ h[m] = f[h[m - 1]]
    BY <1>0, <2>4
  <2> QED BY <2>3, <2>4, <2>5
<1>2. g = [i \in 1..n |-> g[i]] /\ h = [i \in 1..n |-> h[i]]
  BY DEF Follows
<1>3. \A i \in 1..n : g[i] = h[i]
  BY <1>1
<1> HIDE DEF Bad
<1> QED BY <1>2, <1>3

\* What ringOf is, of any finite set of threads.
Spelled(S, f, c) ==
  LET n == Cardinality(S)
      node[i \in 1..n] == IF i = 1 THEN c ELSE f[node[i - 1]]
  IN  [i \in 1..n |-> node[i]]

LEMMA SpelledFollows ==
  ASSUME NEW S, IsFiniteSet(S), NEW f, \A s \in S : f[s] \in S, NEW c \in S
  PROVE  /\ Cardinality(S) \in Nat
         /\ Spelled(S, f, c) \in [1..Cardinality(S) -> S]
         /\ Follows(Spelled(S, f, c), Cardinality(S), c, f)
<1> DEFINE n == Cardinality(S)
           node == CHOOSE g : g = [i \in 1..n |-> IF i = 1 THEN c ELSE f[g[i - 1]]]
<1>1. n \in Nat
  BY FS_CardinalityType
<1>2. PICK g \in [1..n -> S] : Follows(g, n, c, f)
  BY <1>1, FollowsExists
<1>3. node = [i \in 1..n |-> IF i = 1 THEN c ELSE f[node[i - 1]]]
  BY <1>2 DEF Follows
<1>4. Follows(node, n, c, f)
  BY <1>3 DEF Follows
<1>5. g = node
  <2> HIDE DEF node, n
  <2> QED BY <1>1, <1>2, <1>4, FollowsOnce
<1>6. Spelled(S, f, c) = node
  <2>1. Spelled(S, f, c) = [i \in 1..n |-> node[i]]
    BY DEF Spelled
  <2>2. g = [i \in 1..n |-> g[i]]
    BY <1>2
  <2> QED BY <1>5, <2>1, <2>2
<1> QED BY <1>1, <1>2, <1>4, <1>5, <1>6

\* On one ring it has every thread once, and leads from the last to the first.
LEMMA SpelledRing ==
  ASSUME NEW S, IsFiniteSet(S), NEW f, \A s \in S : f[s] \in S, NEW c \in S,
         \A T \in SUBSET S : T # {} /\ (\A s \in T : f[s] \in T) => T = S
  PROVE  LET r == Spelled(S, f, c)
             n == Cardinality(S)
         IN  /\ n \in Nat \ {0} /\ r \in [1..n -> S] /\ r[1] = c
             /\ \A i \in 2..n : r[i] = f[r[i - 1]]
             /\ \A i, j \in 1..n : r[i] = r[j] => i = j
             /\ \A s \in S : \E i \in 1..n : r[i] = s
             /\ f[r[n]] = c
<1> DEFINE r == Spelled(S, f, c)
           n == Cardinality(S)
<1>1. n \in Nat \ {0}
  BY FS_CardinalityType, FS_EmptySet
<1>2. /\ r \in [1..n -> S] /\ r[1] = c
      /\ \A i \in 2..n : r[i] = f[r[i - 1]]
  BY <1>1, SpelledFollows DEF Follows
<1> HIDE DEF r
<1>3. \A i, j \in 1..n : r[i] = r[j] => i = j
  <2>1. ASSUME NEW i \in 1..n, NEW j \in 1..n, i < j, r[i] = r[j] PROVE FALSE
    <3> DEFINE T == {r[k] : k \in i..(j - 1)}
    <3>1. T \subseteq S /\ T # {}
      BY <1>1, <1>2, <2>1
    <3>2. ASSUME NEW k \in i..(j - 1) PROVE f[r[k]] \in T
      <4>1. k + 1 \in 2..n /\ f[r[k]] = r[k + 1]
        BY <1>1, <1>2
      <4>2. CASE k = j - 1
        BY <4>1, <4>2, <2>1
      <4>3. CASE k # j - 1
        <5>1. k + 1 \in i..(j - 1)
          BY <4>3
        <5> QED BY <4>1, <5>1
      <4> QED BY <4>2, <4>3
    <3>3. \A s \in T : f[s] \in T
      BY <3>2
    <3>4. T = S
      <4> HIDE DEF T
      <4> QED BY <3>1, <3>3
    <3> DEFINE g == [k \in 1..(j - i) |-> r[k + i - 1]]
    <3>5. j - i \in Nat /\ j - i < n
      BY <1>1, <2>1
    <3>6. g \in Surjection(1..(j - i), T)
      <4>1. \A k \in 1..(j - i) : k + i - 1 \in i..(j - 1)
        BY <2>1
      <4>2. g \in [1..(j - i) -> T]
        BY <4>1
      <4>3. ASSUME NEW s \in T PROVE \E k \in 1..(j - i) : g[k] = s
        <5>1. PICK k \in i..(j - 1) : s = r[k]
          OBVIOUS
        <5>2. k - i + 1 \in 1..(j - i) /\ g[k - i + 1] = r[k]
          BY <2>1
        <5> QED BY <5>1, <5>2
      <4> HIDE DEF g, T
      <4> QED BY <4>2, <4>3 DEF Surjection
    <3>7. Cardinality(T) <= j - i
      <4> HIDE DEF T, g
      <4> QED BY <3>5, <3>6, FS_SurjCardinalityBound DEF ExistsSurjection
    <3>8. Cardinality(T) = n
      BY <3>4
    <3> HIDE DEF T, g, n
    <3> QED BY <3>5, <3>7, <3>8, <1>1
  <2> QED BY <2>1, <1>1
<1>4. \A s \in S : \E i \in 1..n : r[i] = s
  <2>1. IsFiniteSet(1..n) /\ Cardinality(1..n) = n
    BY <1>1, FS_Interval
  <2>2. r \in Injection(1..n, S)
    BY <1>2, <1>3 DEF Injection, IsInjective
  <2>3. r \in Surjection(1..n, S)
    <3> HIDE DEF n
    <3> QED BY <2>1, <2>2, FS_Injection DEF n
  <2> QED BY <2>3 DEF Surjection
<1>5. f[r[n]] = c
  <2>1. f[r[n]] \in S
    BY <1>1, <1>2
  <2>2. PICK k \in 1..n : f[r[n]] = r[k]
    BY <2>1, <1>4
  <2>3. ASSUME k # 1 PROVE FALSE
    <3> DEFINE T == {r[i] : i \in k..n}
    <3>1. T \subseteq S /\ T # {}
      BY <1>1, <1>2
    <3>2. \A i \in k..n : f[r[i]] \in T
      <4> TAKE i \in k..n
      <4>1. CASE i = n
        BY <4>1, <2>2, <1>1
      <4>2. CASE i # n
        <5>1. i + 1 \in k..n /\ i + 1 \in 2..n /\ (i + 1) - 1 = i
          BY <4>2, <1>1
        <5>2. f[r[i]] = r[i + 1]
          BY <5>1, <1>2
        <5> QED BY <5>1, <5>2
      <4> QED BY <4>1, <4>2
    <3>3. T = S
      <4>1. \A s \in T : f[s] \in T
        BY <3>2
      <4> HIDE DEF T
      <4> QED BY <3>1, <4>1
    <3>4. r[1] \in T
      BY <3>3, <1>2
    <3>5. PICK i \in k..n : r[1] = r[i]
      BY <3>4
    <3> QED BY <3>5, <1>1, <1>3, <2>3
  <2> QED BY <2>2, <2>3, <1>2
<1> QED BY <1>1, <1>2, <1>3, <1>4, <1>5 DEF r

\* A sequence that follows the links from the same thread is the same.
LEMMA SpelledOnly ==
  ASSUME NEW S, IsFiniteSet(S), NEW f, \A s \in S : f[s] \in S, NEW c \in S,
         NEW h, Follows(h, Cardinality(S), c, f)
  PROVE  h = Spelled(S, f, c)
<1>1. Cardinality(S) \in Nat /\ Follows(Spelled(S, f, c), Cardinality(S), c, f)
  BY SpelledFollows
<1> QED BY <1>1, FollowsOnce

-----------------------------------------------------------------------------
(***************************************************************************)
(* Every step of the links is one of the sequence.                         *)
(***************************************************************************)
LEMMA RingFinite == RInv => IsFiniteSet(OnRing)
<1>1. IsFiniteSet(Thread)
  BY RingAssumption, FS_Interval DEF Thread
<1> QED BY <1>1, FS_Subset DEF OnRing

LEMMA RingOfSpelled == /\ ringOf = Spelled(OnRing, nxt, threadCurrent)
                       /\ ringOf' = Spelled(OnRing', nxt', threadCurrent')
  BY DEF ringOf, Spelled

\* The ring of the links, in the current state.
LEMMA RingOfSound ==
  ASSUME RInv, threadCurrent # NULL
  PROVE  LET n == Cardinality(OnRing)
         IN  /\ n \in Nat \ {0} /\ ringOf \in [1..n -> OnRing] /\ ringOf \in Seq(Thread)
             /\ Len(ringOf) = n /\ ringOf[1] = threadCurrent
             /\ \A i \in 2..n : ringOf[i] = nxt[ringOf[i - 1]]
             /\ \A i, j \in 1..n : ringOf[i] = ringOf[j] => i = j
             /\ \A s \in OnRing : \E i \in 1..n : ringOf[i] = s
             /\ nxt[ringOf[n]] = threadCurrent
<1> DEFINE n == Cardinality(OnRing)
<1>1. IsFiniteSet(OnRing) /\ OnRing \subseteq Thread
  BY RingFinite DEF OnRing
<1>2. threadCurrent \in OnRing /\ \A s \in OnRing : nxt[s] \in OnRing
  BY DEF RInv, Order, LinksAgree, IDLE
<1>3. \A T \in SUBSET OnRing : T # {} /\ (\A s \in T : nxt[s] \in T) => T = OnRing
  BY DEF RInv, OneRing
<1>4. /\ n \in Nat \ {0} /\ ringOf \in [1..n -> OnRing] /\ ringOf[1] = threadCurrent
      /\ \A i \in 2..n : ringOf[i] = nxt[ringOf[i - 1]]
      /\ \A i, j \in 1..n : ringOf[i] = ringOf[j] => i = j
      /\ \A s \in OnRing : \E i \in 1..n : ringOf[i] = s
      /\ nxt[ringOf[n]] = threadCurrent
  <2> DEFINE S == OnRing
             f == nxt
             c == threadCurrent
  <2>1. IsFiniteSet(S) /\ c \in S /\ (\A s \in S : f[s] \in S)
        /\ \A T \in SUBSET S : T # {} /\ (\A s \in T : f[s] \in T) => T = S
    BY <1>1, <1>2, <1>3
  <2>2. ringOf = Spelled(S, f, c)
    BY RingOfSpelled
  <2> HIDE DEF S, f, c
  <2>3. LET r == Spelled(S, f, c)
            m == Cardinality(S)
        IN  /\ m \in Nat \ {0} /\ r \in [1..m -> S] /\ r[1] = c
            /\ \A i \in 2..m : r[i] = f[r[i - 1]]
            /\ \A i, j \in 1..m : r[i] = r[j] => i = j
            /\ \A s \in S : \E i \in 1..m : r[i] = s
            /\ f[r[m]] = c
    BY <2>1, SpelledRing
  <2> QED BY <2>2, <2>3 DEF S, f, c
<1>5. ringOf \in Seq(Thread) /\ Len(ringOf) = n
  <2>1. ringOf \in [1..n -> Thread]
    BY <1>1, <1>4
  <2> HIDE DEF n
  <2> QED BY <2>1, <1>4, SeqDef, LenProperties
<1> QED BY <1>4, <1>5

LEMMA RingOfEmpty ==
  /\ OnRing = {} => ringOf = <<>>
<1> SUFFICES ASSUME OnRing = {} PROVE ringOf = <<>>
  OBVIOUS
<1>1. Cardinality(OnRing) = 0
  BY FS_EmptySet
<1>2. ringOf = Spelled(OnRing, nxt, threadCurrent)
  BY RingOfSpelled
<1>3. Spelled(OnRing, nxt, threadCurrent) = <<>>
  BY <1>1 DEF Spelled
<1> QED BY <1>2, <1>3

\* A sequence that follows the new links is the new ring.
LEMMA RingOfNext ==
  ASSUME RInv', threadCurrent' # NULL, NEW h, NEW n, n = Cardinality(OnRing'),
         h = [i \in 1..n |-> IF i = 1 THEN threadCurrent' ELSE nxt'[h[i - 1]]]
  PROVE  ringOf' = h
<1>1. threadCurrent' \in OnRing' /\ \A s \in OnRing' : nxt'[s] \in OnRing'
  BY DEF RInv, Order, LinksAgree, IDLE
<1>2. IsFiniteSet(OnRing')
  <2>1. IsFiniteSet(Thread)
    BY RingAssumption, FS_Interval DEF Thread
  <2> QED BY <2>1, FS_Subset DEF OnRing
<1>3. Follows(h, Cardinality(OnRing'), threadCurrent', nxt')
  BY DEF Follows
<1>4. h = Spelled(OnRing', nxt', threadCurrent')
  <2> DEFINE S == OnRing'
             f == nxt'
             c == threadCurrent'
  <2>1. IsFiniteSet(S) /\ c \in S /\ (\A s \in S : f[s] \in S)
        /\ Follows(h, Cardinality(S), c, f)
    BY <1>1, <1>2, <1>3
  <2> HIDE DEF S, f, c
  <2>2. h = Spelled(S, f, c)
    BY <2>1, SpelledOnly
  <2> QED BY <2>2 DEF S, f, c
<1> QED BY <1>4, RingOfSpelled

LEMMA InsertRefines ==
  ASSUME RInv, NEW t \in Thread, thread_insert(t)
  PROVE  t \notin Members(ringOf) /\ ringOf' = Insert(ringOf, t)
<1> USE Ids
<1>1. /\ RInv' /\ OnRing' = OnRing \cup {t} /\ t \notin OnRing
      /\ threadCurrent' = IF threadCurrent = NULL THEN t ELSE threadCurrent
  BY InsertLinks DEF thread_insert
<1>2. IsFiniteSet(OnRing) /\ Cardinality(OnRing') = Cardinality(OnRing) + 1
  BY <1>1, RingFinite, FS_AddElement
<1>3. CASE threadCurrent = NULL
  <2>1. OnRing = {}
    BY <1>3 DEF RInv, Order, LinksAgree, OnRing, Thread
  <2>2. ringOf = <<>> /\ Cardinality(OnRing') = 1
    BY <2>1, <1>2, RingOfEmpty, FS_EmptySet
  <2>3. Insert(ringOf, t) = [i \in 1..1 |-> t]
    BY <2>2 DEF Insert
  <2>4. ringOf' = [i \in 1..1 |-> t]
    <3> DEFINE h == [i \in 1..1 |-> t]
    <3>1. h = [i \in 1..1 |-> IF i = 1 THEN threadCurrent' ELSE nxt'[h[i - 1]]]
      BY <1>1, <1>3
    <3>2. threadCurrent' # NULL /\ 1 = Cardinality(OnRing')
      BY <1>1, <1>3, <2>2
    <3>3. ringOf' = h
      <4> HIDE DEF h
      <4> QED BY <3>1, <3>2, <1>1, RingOfNext
    <3> QED BY <3>3
  <2> QED BY <2>2, <2>3, <2>4 DEF Members
<1>4. CASE threadCurrent # NULL
  <2> DEFINE n == Cardinality(OnRing)
             r == ringOf
             h == Insert(r, t)
  <2>1. /\ n \in Nat \ {0} /\ r \in [1..n -> OnRing] /\ Len(r) = n /\ r[1] = threadCurrent
        /\ \A i \in 2..n : r[i] = nxt[r[i - 1]]
        /\ \A i, j \in 1..n : r[i] = r[j] => i = j
        /\ nxt[r[n]] = threadCurrent /\ r # <<>>
    BY <1>4, RingOfSound
  <2>2. /\ threadCurrent \in OnRing
        /\ nxt' = [nxt EXCEPT ![threadCurrent] = t, ![t] = nxt[threadCurrent]]
    BY <1>4, InsertLinks
  <2> HIDE DEF n, r
  <2>3. h = [i \in 1..(n + 1) |-> IF i = 2 THEN t ELSE IF i = 1 THEN r[1] ELSE r[i - 1]]
    BY <2>1 DEF Insert
  <2>4. ASSUME NEW i \in 2..(n + 1) PROVE h[i] = nxt'[h[i - 1]]
    <3>1. CASE i = 2
      BY <3>1, <2>1, <2>2, <2>3, <1>1 DEF RInv, Order, OnRing
    <3>2. CASE i = 3
      <4>1. h[3] = r[2] /\ h[2] = t /\ r[2] = nxt[threadCurrent]
        BY <3>2, <2>1, <2>3
      <4>2. nxt'[t] = nxt[threadCurrent]
        BY <2>2 DEF RInv, Order
      <4> QED BY <3>2, <4>1, <4>2
    <3>3. CASE i > 3
      <4>1. h[i] = r[i - 1] /\ h[i - 1] = r[i - 2] /\ r[i - 1] = nxt[r[i - 2]]
        BY <3>3, <2>1, <2>3
      <4>2. r[i - 2] \in OnRing /\ r[i - 2] # threadCurrent /\ r[i - 2] # t
        BY <3>3, <2>1, <1>1
      <4>3. nxt'[r[i - 2]] = nxt[r[i - 2]]
        BY <4>2, <2>2 DEF RInv, Order, OnRing
      <4> QED BY <4>1, <4>3
    <3> QED BY <3>1, <3>2, <3>3
  <2>5. h[1] = threadCurrent' /\ n + 1 = Cardinality(OnRing') /\ threadCurrent' # NULL
    BY <1>1, <1>2, <1>4, <2>1, <2>3 DEF n
  <2>6. ringOf' = h
    <3>1. h = [i \in 1..(n + 1) |-> h[i]]
      BY <2>3
    <3> HIDE DEF h
    <3>2. \A i \in 1..(n + 1) : h[i] = IF i = 1 THEN threadCurrent' ELSE nxt'[h[i - 1]]
      BY <2>1, <2>4, <2>5
    <3>3. h = [i \in 1..(n + 1) |-> IF i = 1 THEN threadCurrent' ELSE nxt'[h[i - 1]]]
      BY <3>1, <3>2
    <3> QED BY <3>3, <2>5, <1>1, RingOfNext
  <2>7. t \notin Members(r)
    BY <2>1, <1>1 DEF Members
  <2> QED BY <2>6, <2>7 DEF r
<1> QED BY <1>3, <1>4

LEMMA RemoveRefines ==
  ASSUME RInv, NEW t \in Thread, thread_remove(t)
  PROVE  /\ t \in Members(ringOf) \ {IDLE} /\ Len(ringOf) > 1
         /\ ringOf' = Remove(ringOf, t)
<1> USE Ids
<1>1. /\ RInv' /\ t \in OnRing /\ OnRing' = OnRing \ {t}
      /\ prev[t] \in OnRing' /\ nxt[t] \in OnRing' /\ nxt[prev[t]] = t
      /\ nxt' = [[nxt EXCEPT ![prev[t]] = nxt[t]] EXCEPT ![t] = NULL]
  BY RemoveLinks
<1>2. /\ threadCurrent' = IF threadCurrent = t THEN nxt[t] ELSE threadCurrent
      /\ t # IDLE /\ threadCurrent # NULL
  <2>1. created > 0
    BY DEF thread_remove, RInv, Order, IDLE
  <2>2. threadCurrent \in OnRing
    BY <2>1 DEF RInv, LinksAgree
  <2>3. threadCurrent \in Thread
    BY <2>2 DEF OnRing
  <2> QED BY <2>3 DEF thread_remove
<1> DEFINE n == Cardinality(OnRing)
           r == ringOf
           h == Remove(r, t)
<1>3. /\ n \in Nat \ {0} /\ r \in [1..n -> OnRing] /\ Len(r) = n /\ r[1] = threadCurrent
      /\ \A i \in 2..n : r[i] = nxt[r[i - 1]]
      /\ \A i, j \in 1..n : r[i] = r[j] => i = j
      /\ \A s \in OnRing : \E i \in 1..n : r[i] = s
      /\ nxt[r[n]] = threadCurrent
  BY <1>2, RingOfSound
<1>4. Cardinality(OnRing') = n - 1
  BY <1>1, RingFinite, FS_RemoveElement
<1> HIDE DEF n, r
<1> DEFINE p == CHOOSE i \in DOMAIN r : r[i] = t
<1>5. p \in 1..n /\ r[p] = t
  BY <1>1, <1>3
<1>6. n > 1
  BY <1>1, <1>3, <1>5
<1>7. h = [i \in 1..(n - 1) |-> IF i < p THEN r[i] ELSE r[i + 1]]
  BY <1>3 DEF Remove
<1> HIDE DEF p, h
<1>8. \A s \in OnRing : s # t /\ s # prev[t] => nxt'[s] = nxt[s]
  BY <1>1 DEF RInv, Order, OnRing
<1>9. \A i \in 1..n : r[i] = prev[t] => nxt[r[i]] = r[p]
  BY <1>1, <1>5
<1>10. \A i \in 1..(n - 1) : nxt[r[i]] = r[i + 1] /\ i + 1 \in 1..n
  <2> TAKE i \in 1..(n - 1)
  <2>1. i + 1 \in 2..n /\ (i + 1) - 1 = i
    BY <1>3
  <2> QED BY <2>1, <1>3
<1>11. ASSUME NEW i \in 2..(n - 1) PROVE h[i] = nxt'[h[i - 1]]
  <2>1. i - 1 \in 1..(n - 1) /\ i \in 1..(n - 1) /\ i \in 1..n /\ i + 1 \in 1..n
    BY <1>3
  <2>2. CASE i < p
    <3>1. h[i] = r[i] /\ h[i - 1] = r[i - 1] /\ r[i] = nxt[r[i - 1]]
      BY <2>1, <2>2, <1>5, <1>7, <1>10
    <3>2. r[i - 1] \in OnRing /\ r[i - 1] # t /\ r[i - 1] # prev[t]
      BY <2>1, <2>2, <3>1, <1>1, <1>3, <1>5
    <3> QED BY <3>1, <3>2, <1>8
  <2>3. CASE i = p
    <3>1. h[i] = r[i + 1] /\ h[i - 1] = r[i - 1] /\ r[i + 1] = nxt[t] /\ nxt[r[i - 1]] = t
      BY <2>1, <2>3, <1>5, <1>7, <1>10
    <3>2. r[i - 1] \in OnRing
      BY <2>1, <1>3
    <3>3. r[i - 1] = prev[t]
      BY <3>1, <3>2 DEF RInv, LinksAgree
    <3>4. nxt'[prev[t]] = nxt[t] /\ prev[t] # t
      BY <1>1 DEF RInv, Order, OnRing
    <3> QED BY <3>1, <3>3, <3>4
  <2>4. CASE i > p
    <3>1. h[i] = r[i + 1] /\ h[i - 1] = r[i] /\ r[i + 1] = nxt[r[i]]
      BY <2>1, <2>4, <1>5, <1>7, <1>10
    <3>2. r[i] \in OnRing /\ r[i] # t /\ r[i] # prev[t]
      BY <2>1, <2>4, <3>1, <1>1, <1>3, <1>5
    <3> QED BY <3>1, <3>2, <1>8
  <2> QED BY <2>2, <2>3, <2>4, <1>5, <2>1
<1>12. h[1] = threadCurrent'
  <2>1. CASE p = 1
    <3>0. 1 \in 1..(n - 1) /\ ~(1 < p)
      BY <2>1, <1>3, <1>6
    <3>1. h[1] = r[2] /\ r[2] = nxt[r[1]]
      BY <3>0, <1>7, <1>10
    <3> QED BY <3>1, <2>1, <1>2, <1>3, <1>5
  <2>2. CASE p # 1
    <3>1. h[1] = r[1] /\ r[1] # t
      BY <2>2, <1>3, <1>5, <1>6, <1>7
    <3> QED BY <3>1, <1>2, <1>3
  <2> QED BY <2>1, <2>2
<1>13. ringOf' = h
  <2>1. h = [i \in 1..(n - 1) |-> h[i]]
    BY <1>7
  <2>2. threadCurrent' # NULL
    BY <1>1, <1>2 DEF OnRing
  <2>3. \A i \in 1..(n - 1) : h[i] = IF i = 1 THEN threadCurrent' ELSE nxt'[h[i - 1]]
    BY <1>3, <1>11, <1>12
  <2>4. h = [i \in 1..(n - 1) |-> IF i = 1 THEN threadCurrent' ELSE nxt'[h[i - 1]]]
    BY <2>1, <2>3
  <2> QED BY <2>2, <2>4, <1>1, <1>4, RingOfNext
<1>14. t \in Members(r)
  BY <1>3, <1>5 DEF Members
<1> QED BY <1>2, <1>3, <1>6, <1>13, <1>14 DEF r, h

LEMMA TurnRefines ==
  ASSUME RInv, thread_nxt
  PROVE  \E k \in DOMAIN ringOf : ringOf' = TurnTo(ringOf, k)
<1> USE Ids
<1>1. /\ RInv' /\ threadCurrent # NULL /\ threadCurrent' \in OnRing /\ threadCurrent' # NULL
      /\ OnRing' = OnRing /\ nxt' = nxt
  BY NextRInv DEF thread_nxt, Next, OnRing
<1> DEFINE n == Cardinality(OnRing)
           r == ringOf
<1>2. /\ n \in Nat \ {0} /\ r \in [1..n -> OnRing] /\ Len(r) = n /\ r[1] = threadCurrent
      /\ \A i \in 2..n : r[i] = nxt[r[i - 1]]
      /\ \A s \in OnRing : \E i \in 1..n : r[i] = s
      /\ nxt[r[n]] = threadCurrent
  BY <1>1, RingOfSound
<1>3. n = Cardinality(OnRing')
  BY <1>1
<1> HIDE DEF n, r
<1>4. PICK k \in 1..n : r[k] = threadCurrent'
  BY <1>1, <1>2
<1> DEFINE h == TurnTo(r, k)
<1>5. h = [i \in 1..n |-> IF i + k - 1 <= n THEN r[i + k - 1] ELSE r[i + k - 1 - n]]
  BY <1>2 DEF TurnTo
<1> HIDE DEF h
<1>6. ASSUME NEW i \in 2..n PROVE h[i] = nxt[h[i - 1]]
  <2>1. CASE i + k - 1 <= n
    <3>1. h[i] = r[i + k - 1] /\ h[i - 1] = r[(i + k - 1) - 1] /\ i + k - 1 \in 2..n
      BY <2>1, <1>2, <1>5
    <3> QED BY <3>1, <1>2
  <2>2. CASE i + k - 1 = n + 1
    <3>1. /\ i \in 1..n /\ ~(i + k - 1 <= n) /\ i + k - 1 - n = 1
          /\ i - 1 \in 1..n /\ (i - 1) + k - 1 <= n /\ (i - 1) + k - 1 = n
      BY <2>2, <1>2
    <3>2. h[i] = r[i + k - 1 - n] /\ h[i - 1] = r[(i - 1) + k - 1]
      BY <3>1, <1>5
    <3>3. h[i] = r[1] /\ h[i - 1] = r[n]
      BY <3>1, <3>2
    <3> QED BY <3>3, <1>2
  <2>3. CASE i + k - 1 > n + 1
    <3>1. /\ h[i] = r[i + k - 1 - n] /\ h[i - 1] = r[(i + k - 1 - n) - 1]
          /\ i + k - 1 - n \in 2..n
      BY <2>3, <1>2, <1>5
    <3> QED BY <3>1, <1>2
  <2> QED BY <2>1, <2>2, <2>3, <1>2
<1>7. h[1] = threadCurrent' /\ h = [i \in 1..n |-> h[i]]
  BY <1>2, <1>4, <1>5
<1>8. ringOf' = h
  <2>1. \A i \in 1..n : h[i] = IF i = 1 THEN threadCurrent' ELSE nxt'[h[i - 1]]
    <3> TAKE i \in 1..n
    <3>1. CASE i = 1
      BY <3>1, <1>7
    <3>2. CASE i # 1
      <4>1. i \in 2..n
        BY <3>2, <1>2
      <4>2. h[i] = nxt[h[i - 1]]
        BY <4>1, <1>6
      <4> QED BY <3>2, <4>2, <1>1
    <3> QED BY <3>1, <3>2
  <2>2. h = [i \in 1..n |-> IF i = 1 THEN threadCurrent' ELSE nxt'[h[i - 1]]]
    BY <1>7, <2>1
  <2> QED BY <2>2, <1>1, <1>3, RingOfNext
<1>9. k \in DOMAIN r
  BY <1>2
<1> QED BY <1>8, <1>9 DEF h, r

\* The linked list behaves as the sequence of RingSpec, whatever the number of
\* threads, and whoever walks along it meanwhile.
THEOREM LinksImplementRing == Spec => ImplementsRing
<1>1. Init => Abstract!Init
  <2> SUFFICES ASSUME Init PROVE ringOf = <<>>
    BY DEF Abstract!Init
  <2>1. OnRing = {}
    BY DEF Init, OnRing
  <2> QED BY <2>1, RingOfEmpty
<1>2. RInv /\ [Next]_vars => [Abstract!Next]_ringOf
  <2> SUFFICES ASSUME RInv, [Next]_vars PROVE [Abstract!Next]_ringOf
    OBVIOUS
  <2>1. ASSUME NEW t \in Thread, thread_insert(t) PROVE Abstract!Next
    <3>1. t \notin Members(ringOf) /\ ringOf' = Insert(ringOf, t)
      BY <2>1, InsertRefines
    <3>2. Abstract!Join(t)
      BY <3>1 DEF Abstract!Join, Abstract!Members, Abstract!Insert, Members, Insert
    <3> QED BY <3>2 DEF Abstract!Next
  <2>2. ASSUME NEW t \in Thread, thread_remove(t) PROVE Abstract!Next
    <3>1. /\ t \in Members(ringOf) \ {IDLE} /\ Len(ringOf) > 1
          /\ ringOf' = Remove(ringOf, t)
      BY <2>2, RemoveRefines
    <3>2. Abstract!Leave(t)
      BY <3>1 DEF Abstract!Leave, Abstract!Members, Abstract!Remove, Members, Remove
    <3> QED BY <3>2 DEF Abstract!Next
  <2>3. CASE thread_nxt
    <3>1. Abstract!Turn
      BY <2>3, TurnRefines DEF Abstract!Turn, Abstract!TurnTo, TurnTo
    <3> QED BY <3>1 DEF Abstract!Next
  <2>4. CASE UNCHANGED links
    <3>1. OnRing' = OnRing /\ nxt' = nxt /\ threadCurrent' = threadCurrent
      BY <2>4 DEF links, OnRing
    <3> QED BY <3>1, RingOfSpelled
  <2>5. ASSUME NEW w \in Walkers, FindStep(w) \/ \E p \in Thread : FindStart(w, p)
        PROVE  UNCHANGED links
    BY <2>5 DEF FindStep, FindStart
  <2> QED BY <2>1, <2>2, <2>3, <2>4, <2>5 DEF Next, vars
<1> QED BY <1>1, <1>2, InitRInv, NextRInv, PTL DEF Spec, ImplementsRing, Abstract!Spec

\* What the links spell never holds a thread twice, nor one that does not
\* exist, whatever joins, leaves or runs (thread_insert, thread_remove).
THEOREM RingOnceEach == Spec => []Abstract!OnceEach
<1>1. RInv => Abstract!OnceEach
  <2> SUFFICES ASSUME RInv PROVE Abstract!OnceEach
    OBVIOUS
  <2>1. ringOf \in Seq(Thread) /\ \A i, j \in DOMAIN ringOf : ringOf[i] = ringOf[j] => i = j
    <3>1. CASE threadCurrent = NULL
      <4>1. OnRing = {}
        BY <3>1, Ids DEF RInv, Order, LinksAgree, OnRing, Thread
      <4> QED BY <4>1, RingOfEmpty
    <3>2. CASE threadCurrent # NULL
      BY <3>2, RingOfSound
    <3> QED BY <3>1, <3>2
  <2> QED BY <2>1 DEF Abstract!OnceEach, Abstract!Distinct, Abstract!Members
<1> QED BY <1>1, InitRInv, NextRInv, PTL DEF Spec
=============================================================================
