----------------------------- MODULE HeapProofs -----------------------------
(***************************************************************************)
(* Proofs about Heap, for every size of the pool: the blocks tile it, the  *)
(* free list and the lists of the threads hold what they should, a buffer  *)
(* is as large as asked for and stays where it is.                         *)
(*                                                                         *)
(* First come lists kept in links, then the tiles, then what one call does *)
(* to the heap, then the callers.                                          *)
(***************************************************************************)
EXTENDS Heap, FunctionTheorems, FiniteSetTheorems, WellFoundedInduction, TLAPS

LEMMA Consts ==
  /\ PoolSize \in Nat \ {0} /\ HDR \in Nat \ {0} /\ SizeQuant \in Nat \ {0}
  /\ Width \in Nat \ {0} /\ PoolSize > HDR /\ 2^Width \in Nat
  /\ 0 \in Addr /\ NULL \notin Addr /\ NULL \notin Pid /\ KERNEL \in Pid /\ CMD \in Pid
  /\ KERNEL \notin Med /\ CMD \notin Med /\ Med \subseteq Pid /\ Med \subseteq Nat
  /\ Addr \subseteq Nat /\ \A a \in Addr : a < PoolSize
<1>1. /\ PoolSize \in Nat \ {0} /\ HDR \in Nat \ {0} /\ SizeQuant \in Nat \ {0}
      /\ Width \in Nat \ {0} /\ PoolSize > HDR /\ 2^Width \in Nat /\ MaxPid \in Nat
  BY PoolAssumption, CallerAssumption
<1> QED BY <1>1 DEF Addr, NULL, Pid, KERNEL, CMD, Med

-----------------------------------------------------------------------------
(* Lists in links: next, prev and the first element. *)

IsList(next, prev, first, n, l) ==
  /\ \A i, j \in 1..n : l[i] = l[j] => i = j
  /\ \A i \in 1..n : next[l[i]] = IF i = n THEN NULL ELSE l[i + 1]
  /\ \A i \in 1..n : prev[l[i]] = IF i = 1 THEN NULL ELSE l[i - 1]
  /\ first = IF n = 0 THEN NULL ELSE l[1]

\* The list has the elements of S, each once.
Linked(next, prev, first, S) ==
  \E n \in Nat : \E l \in [1..n -> Addr] :
    IsList(next, prev, first, n, l) /\ S = {l[i] : i \in 1..n}

\* A nonempty set of numbers has a least one.
LEMMA Least ==
  ASSUME NEW A \in SUBSET Nat, A # {}
  PROVE  \E m \in A : \A k \in A : m <= k
<1> DEFINE R == {ss \in Nat \X Nat : ss[1] < ss[2]}
<1>1. IsWellFoundedOn(R, Nat)
  BY NatLessThanWellFounded DEF OpToRel
<1>2. PICK m \in A : \A y \in A : ~(<<y, m>> \in R)
  <2> HIDE DEF R
  <2> QED BY <1>1, WFMin
<1>3. ASSUME NEW k \in A PROVE m <= k
  <2>1. ~(<<k, m>> \in R) /\ k \in Nat /\ m \in Nat
    BY <1>2
  <2> QED BY <2>1
<1> QED BY <1>3

LEMMA MinIs ==
  ASSUME NEW A \in SUBSET Nat, A # {}
  PROVE  Min(A) \in A /\ \A k \in A : Min(A) <= k
<1>1. \E m \in A : \A k \in A : m <= k
  BY Least
<1> QED BY <1>1 DEF Min

\* A list in links is not longer than the pool.
LEMMA ListFits ==
  ASSUME NEW n \in Nat, NEW l \in [1..n -> Addr],
         \A i, j \in 1..n : l[i] = l[j] => i = j
  PROVE  n <= PoolSize
<1>1. l \in Injection(1..n, Addr)
  BY DEF Injection, IsInjective
<1>2. IsFiniteSet(Addr) /\ Cardinality(Addr) = PoolSize
  BY Consts, FS_Interval DEF Addr
<1>3. Cardinality(1..n) = n
  BY FS_Interval
<1> QED BY <1>1, <1>2, <1>3, FS_Injection

\* Walk gives the list.
LEMMA WalkIs ==
  ASSUME NEW next, NEW prev, NEW first, NEW n \in Nat, NEW l \in [1..n -> Addr],
         IsList(next, prev, first, n, l)
  PROVE  Walk(next, first) = l
<1> USE Consts
<1>0. n <= PoolSize
  BY ListFits DEF IsList
<1> DEFINE Turn(f, k) == IF k = 0 THEN first ELSE IF f[k - 1] = NULL THEN NULL ELSE next[f[k - 1]]
           w == [k \in 0..PoolSize |-> IF k < n THEN l[k + 1] ELSE NULL]
           at == CHOOSE f : f = [k \in 0..PoolSize |-> Turn(f, k)]
<1>1. w = [k \in 0..PoolSize |-> Turn(w, k)]
  <2> SUFFICES ASSUME NEW k \in 0..PoolSize PROVE w[k] = Turn(w, k)
    BY Zenon
  <2>1. CASE k = 0
    BY <2>1, <1>0 DEF IsList
  <2>2. CASE k # 0 /\ k <= n
    <3>1. k - 1 \in 0..PoolSize /\ k \in 1..n
      BY <2>2
    <3>2. w[k - 1] = l[k] /\ l[k] \in Addr
      BY <3>1, <2>2
    <3>3. next[l[k]] = IF k = n THEN NULL ELSE l[k + 1]
      BY <3>1 DEF IsList
    <3>4. w[k] = IF k = n THEN NULL ELSE l[k + 1]
      BY <2>2, <3>1
    <3> QED BY <2>2, <3>2, <3>3, <3>4
  <2>3. CASE k > n
    <3>1. k - 1 \in 0..PoolSize /\ ~(k - 1 < n) /\ ~(k < n) /\ k # 0
      BY <2>3
    <3> QED BY <3>1
  <2> QED BY <2>1, <2>2, <2>3
<1>2. at = [k \in 0..PoolSize |-> Turn(at, k)]
  <2> HIDE DEF w
  <2> QED BY <1>1
<1> HIDE DEF at
<1>3. \A k \in 0..PoolSize : at[k] = w[k]
  <2> DEFINE Bad == {k \in 0..PoolSize : at[k] # w[k]}
  <2> SUFFICES ASSUME Bad # {} PROVE FALSE
    OBVIOUS
  <2>1. PICK m \in Bad : \A k \in Bad : m <= k
    <3>1. Bad \in SUBSET Nat
      OBVIOUS
    <3> HIDE DEF Bad
    <3> QED BY <3>1, Least
  <2>2. m \in 0..PoolSize /\ at[m] # w[m]
    OBVIOUS
  <2>3. at[m] = Turn(at, m) /\ w[m] = Turn(w, m)
    <3> HIDE DEF w, Bad
    <3> QED BY <1>1, <1>2, <2>2
  <2>4. m # 0
    <3> HIDE DEF w
    <3> QED BY <2>2, <2>3
  <2>5. m - 1 \in 0..PoolSize /\ ~(m <= m - 1)
    BY <2>2, <2>4
  <2>6. at[m - 1] = w[m - 1]
    <3> HIDE DEF w
    <3> QED BY <2>1, <2>5
  <2> HIDE DEF w
  <2> QED BY <2>2, <2>3, <2>4, <2>6
<1>4. {k \in 0..PoolSize : at[k] # NULL} = 0..(n - 1)
  <2>1. \A k \in 0..PoolSize : w[k] # NULL <=> k < n
    BY <1>0
  <2> HIDE DEF w
  <2> QED BY <1>0, <1>3, <2>1
<1>5. Cardinality({k \in 0..PoolSize : at[k] # NULL}) = n
  <2>1. Cardinality(0..(n - 1)) = n
    BY FS_Interval
  <2> QED BY <1>4, <2>1
<1>6. Walk(next, first) =
        [i \in 1..Cardinality({k \in 0..PoolSize : at[k] # NULL}) |-> at[i - 1]]
  BY DEF Walk, at
<1>7. \A i \in 1..n : at[i - 1] = l[i]
  BY <1>0, <1>3
<1> QED BY <1>5, <1>6, <1>7

\* What the links say of the elements.
LEMMA LinkedFacts ==
  ASSUME NEW next, NEW prev, NEW first, NEW S, Linked(next, prev, first, S)
  PROVE  /\ S \subseteq Addr /\ (first = NULL <=> S = {}) /\ (first # NULL => first \in S)
         /\ \A a \in S : /\ next[a] \in S \cup {NULL} /\ prev[a] \in S \cup {NULL}
                         /\ prev[a] = NULL <=> a = first
                         /\ next[a] # NULL => prev[next[a]] = a
                         /\ prev[a] # NULL => next[prev[a]] = a
                         /\ next[a] # a /\ prev[a] # a
<1> USE Consts
<1>1. PICK n \in Nat : \E l \in [1..n -> Addr] :
             IsList(next, prev, first, n, l) /\ S = {l[i] : i \in 1..n}
  BY DEF Linked
<1>2. PICK l \in [1..n -> Addr] :
             IsList(next, prev, first, n, l) /\ S = {l[i] : i \in 1..n}
  BY <1>1
<1>3. S \subseteq Addr
  BY <1>2
<1>4. (first = NULL <=> S = {}) /\ (first # NULL => first \in S)
  <2>1. CASE n = 0
    BY <1>2, <2>1 DEF IsList
  <2>2. CASE n # 0
    <3>1. 1 \in 1..n /\ first = l[1]
      BY <1>2, <2>2 DEF IsList
    <3> QED BY <1>2, <3>1
  <2> QED BY <2>1, <2>2
<1>5. ASSUME NEW a \in S
      PROVE  /\ next[a] \in S \cup {NULL} /\ prev[a] \in S \cup {NULL}
             /\ prev[a] = NULL <=> a = first
             /\ next[a] # NULL => prev[next[a]] = a
             /\ prev[a] # NULL => next[prev[a]] = a
             /\ next[a] # a /\ prev[a] # a
  <2>1. PICK i \in 1..n : a = l[i]
    BY <1>2
  <2>2. /\ next[a] = IF i = n THEN NULL ELSE l[i + 1]
        /\ prev[a] = IF i = 1 THEN NULL ELSE l[i - 1]
        /\ first = l[1] /\ 1 \in 1..n
    BY <1>2, <2>1 DEF IsList
  <2>3. CASE i # n
    <3>1. i + 1 \in 1..n /\ i + 1 # 1 /\ i + 1 - 1 = i
      BY <2>3
    <3>2. next[a] = l[i + 1] /\ prev[l[i + 1]] = a /\ l[i + 1] # l[i]
      BY <1>2, <2>1, <2>2, <2>3, <3>1 DEF IsList
    <3>3. next[a] \in S /\ prev[next[a]] = a /\ next[a] # a
      BY <1>2, <2>1, <3>1, <3>2
    <3>4. CASE i = 1
      BY <1>2, <1>3, <2>1, <2>2, <3>3, <3>4
    <3>5. CASE i # 1
      <4>1. i - 1 \in 1..n /\ i - 1 # n /\ i - 1 + 1 = i /\ i - 1 # i
        BY <3>5
      <4>2. prev[a] = l[i - 1] /\ next[l[i - 1]] = a /\ l[i - 1] # l[i] /\ l[i] # l[1]
        BY <1>2, <2>1, <2>2, <3>5, <4>1 DEF IsList
      <4>3. l[i - 1] \in S /\ l[i - 1] # NULL
        BY <1>2, <4>1
      <4> QED BY <2>1, <2>2, <3>3, <4>2, <4>3
    <3> QED BY <3>4, <3>5
  <2>4. CASE i = n
    <3>3. next[a] = NULL
      BY <2>2, <2>4
    <3>4. CASE i = 1
      BY <1>2, <1>3, <2>1, <2>2, <3>3, <3>4
    <3>5. CASE i # 1
      <4>1. i - 1 \in 1..n /\ i - 1 # n /\ i - 1 + 1 = i /\ i - 1 # i
        BY <2>4, <3>5
      <4>2. prev[a] = l[i - 1] /\ next[l[i - 1]] = a /\ l[i - 1] # l[i] /\ l[i] # l[1]
        BY <1>2, <2>1, <2>2, <3>5, <4>1 DEF IsList
      <4>3. l[i - 1] \in S /\ l[i - 1] # NULL
        BY <1>2, <4>1
      <4> QED BY <1>3, <2>1, <2>2, <3>3, <4>2, <4>3
    <3> QED BY <3>4, <3>5
  <2> QED BY <2>3, <2>4
<1> QED BY <1>3, <1>4, <1>5

\* Links of others do not matter.
LEMMA LinkedSame ==
  ASSUME NEW next, NEW prev, NEW first, NEW S, Linked(next, prev, first, S),
         NEW next2, NEW prev2, \A a \in S : next2[a] = next[a] /\ prev2[a] = prev[a]
  PROVE  Linked(next2, prev2, first, S)
<1>1. PICK n \in Nat : \E l \in [1..n -> Addr] :
             IsList(next, prev, first, n, l) /\ S = {l[i] : i \in 1..n}
  BY DEF Linked
<1>0. PICK l \in [1..n -> Addr] :
             IsList(next, prev, first, n, l) /\ S = {l[i] : i \in 1..n}
  BY <1>1
<1>2. \A i \in 1..n : next2[l[i]] = next[l[i]] /\ prev2[l[i]] = prev[l[i]]
  BY <1>0
<1>3. IsList(next2, prev2, first, n, l)
  BY <1>0, <1>2 DEF IsList
<1> QED BY <1>0, <1>3 DEF Linked

LEMMA LinkedNone ==
  ASSUME NEW next, NEW prev
  PROVE  Linked(next, prev, NULL, {})
<1> DEFINE l == [i \in 1..0 |-> 0]
<1>1. l \in [1..0 -> Addr] /\ {l[i] : i \in 1..0} = {}
  OBVIOUS
<1>2. IsList(next, prev, NULL, 0, l)
  BY DEF IsList
<1> QED BY <1>1, <1>2 DEF Linked

\* One is taken out.
LEMMA LinkedOut ==
  ASSUME NEW next \in Links, NEW prev \in Links, NEW first, NEW S,
         Linked(next, prev, first, S), NEW a \in S
  PROVE  Linked(Put(next, prev[a], next[a]), Put(prev, next[a], prev[a]),
                IF first = a THEN next[a] ELSE first, S \ {a})
<1> USE Consts
<1>1. PICK n \in Nat : \E l \in [1..n -> Addr] :
             IsList(next, prev, first, n, l) /\ S = {l[i] : i \in 1..n}
  BY DEF Linked
<1>0. PICK l \in [1..n -> Addr] :
             IsList(next, prev, first, n, l) /\ S = {l[i] : i \in 1..n}
  BY <1>1
<1>2. PICK k \in 1..n : l[k] = a
  BY <1>0
<1> DEFINE next2 == Put(next, prev[a], next[a])
           prev2 == Put(prev, next[a], prev[a])
           first2 == IF first = a THEN next[a] ELSE first
           g == [i \in 1..(n - 1) |-> IF i < k THEN l[i] ELSE l[i + 1]]
<1>3. /\ next[a] = IF k = n THEN NULL ELSE l[k + 1]
      /\ prev[a] = IF k = 1 THEN NULL ELSE l[k - 1]
  BY <1>0, <1>2 DEF IsList
<1>4. \A i, j \in 1..n : l[i] = l[j] => i = j
  BY <1>0 DEF IsList
<1>5. n - 1 \in Nat /\ g \in [1..(n - 1) -> Addr]
  <2>1. \A i \in 1..(n - 1) : i \in 1..n /\ i + 1 \in 1..n
    OBVIOUS
  <2> QED BY <2>1
<1>6. {g[i] : i \in 1..(n - 1)} = S \ {a}
  <2>1. ASSUME NEW i \in 1..(n - 1) PROVE g[i] \in S /\ g[i] # a
    <3>1. i \in 1..n /\ i + 1 \in 1..n /\ (i < k => i # k) /\ (~(i < k) => i + 1 # k)
      OBVIOUS
    <3> QED BY <1>0, <1>2, <1>4, <3>1
  <2>2. ASSUME NEW b \in S, b # a PROVE \E i \in 1..(n - 1) : g[i] = b
    <3>1. PICK j \in 1..n : l[j] = b /\ j # k
      BY <1>0, <1>2, <2>2
    <3>2. CASE j < k
      <4>1. j \in 1..(n - 1) /\ g[j] = b
        BY <3>1, <3>2
      <4> QED BY <4>1
    <3>3. CASE j > k
      <4>1. j - 1 \in 1..(n - 1) /\ ~(j - 1 < k) /\ j - 1 + 1 = j
        BY <3>1, <3>3
      <4>2. g[j - 1] = b
        BY <3>1, <4>1
      <4> QED BY <4>1, <4>2
    <3> QED BY <3>1, <3>2, <3>3
  <2> HIDE DEF g
  <2> QED BY <2>1, <2>2
<1>7. IsList(next2, prev2, first2, n - 1, g)
  <2>1. \A i, j \in 1..(n - 1) : g[i] = g[j] => i = j
    <3> TAKE i, j \in 1..(n - 1)
    <3>1. i \in 1..n /\ i + 1 \in 1..n /\ j \in 1..n /\ j + 1 \in 1..n
      OBVIOUS
    <3> QED BY <1>4, <3>1
  <2>2. \A i \in 1..n : i # k - 1 => next2[l[i]] = next[l[i]]
    <3> TAKE i \in 1..n
    <3>1. CASE k = 1
      BY <1>3, <3>1 DEF Put
    <3>2. CASE k # 1
      <4>1. k - 1 \in 1..n /\ prev[a] = l[k - 1] /\ l[k - 1] # NULL
        BY <1>3, <3>2
      <4> QED BY <4>1, <1>4 DEF Put, Links
    <3> QED BY <3>1, <3>2
  <2>3. k # 1 => next2[l[k - 1]] = next[a]
    <3>1. k # 1 => prev[a] = l[k - 1] /\ l[k - 1] # NULL /\ l[k - 1] \in Addr
      BY <1>3
    <3> QED BY <3>1 DEF Put, Links
  <2>4. \A i \in 1..n : i # k + 1 => prev2[l[i]] = prev[l[i]]
    <3> TAKE i \in 1..n
    <3>1. CASE k = n
      BY <1>3, <3>1 DEF Put
    <3>2. CASE k # n
      <4>1. k + 1 \in 1..n /\ next[a] = l[k + 1] /\ l[k + 1] # NULL
        BY <1>3, <3>2
      <4> QED BY <4>1, <1>4 DEF Put, Links
    <3> QED BY <3>1, <3>2
  <2>5. k # n => prev2[l[k + 1]] = prev[a]
    <3>1. k # n => next[a] = l[k + 1] /\ l[k + 1] # NULL /\ l[k + 1] \in Addr
      BY <1>3
    <3> QED BY <3>1 DEF Put, Links
  <2>6. ASSUME NEW i \in 1..(n - 1)
        PROVE  next2[g[i]] = IF i = n - 1 THEN NULL ELSE g[i + 1]
    <3> HIDE DEF next2, prev2
    <3>0. i \in 1..n /\ i + 1 \in 1..n /\ (i # n - 1 => i + 1 \in 1..(n - 1) /\ i + 1 + 1 \in 1..n)
      OBVIOUS
    <3>1. CASE i < k - 1
      <4>1. next2[l[i]] = l[i + 1] /\ i # n - 1 /\ g[i] = l[i] /\ g[i + 1] = l[i + 1]
        <5>1. next2[l[i]] = next[l[i]]
          BY <2>2, <3>0, <3>1
        <5>2. next[l[i]] = l[i + 1]
          BY <1>0, <3>0, <3>1 DEF IsList
        <5> QED BY <3>0, <3>1, <5>1, <5>2
      <4> QED BY <4>1
    <3>2. CASE i = k - 1
      <4>1. next2[l[i]] = next[a] /\ g[i] = l[i]
        BY <2>3, <3>2
      <4>2. i # n - 1 => g[i + 1] = l[k + 1] /\ k # n
        BY <3>0, <3>2
      <4>3. i = n - 1 => k = n
        BY <3>2
      <4> QED BY <1>3, <4>1, <4>2, <4>3
    <3>3. CASE i >= k
      <4>1. next2[l[i + 1]] = next[l[i + 1]]
        BY <2>2, <3>0, <3>3
      <4>2. next[l[i + 1]] = IF i + 1 = n THEN NULL ELSE l[i + 1 + 1]
        BY <1>0, <3>0 DEF IsList
      <4>3. g[i] = l[i + 1] /\ (i # n - 1 => g[i + 1] = l[i + 1 + 1])
        BY <3>0, <3>3
      <4> QED BY <4>1, <4>2, <4>3
    <3> QED BY <3>1, <3>2, <3>3
  <2>7. ASSUME NEW i \in 1..(n - 1)
        PROVE  prev2[g[i]] = IF i = 1 THEN NULL ELSE g[i - 1]
    <3> HIDE DEF next2, prev2
    <3>0. i \in 1..n /\ i + 1 \in 1..n /\ (i # 1 => i - 1 \in 1..(n - 1))
      OBVIOUS
    <3>1. CASE i < k
      <4>1. prev2[l[i]] = prev[l[i]]
        BY <2>4, <3>0, <3>1
      <4>2. prev[l[i]] = IF i = 1 THEN NULL ELSE l[i - 1]
        BY <1>0, <3>0 DEF IsList
      <4>3. g[i] = l[i] /\ (i # 1 => g[i - 1] = l[i - 1])
        BY <3>0, <3>1
      <4> QED BY <4>1, <4>2, <4>3
    <3>2. CASE i = k
      <4>1. g[i] = l[k + 1] /\ k # n
        BY <3>2
      <4>2. prev2[l[k + 1]] = prev[a]
        BY <2>5, <4>1
      <4>3. i # 1 => g[i - 1] = l[k - 1]
        BY <3>0, <3>2
      <4> QED BY <1>3, <3>2, <4>1, <4>2, <4>3
    <3>3. CASE i > k
      <4>1. prev2[l[i + 1]] = prev[l[i + 1]]
        BY <2>4, <3>0, <3>3
      <4>2. prev[l[i + 1]] = l[i]
        BY <1>0, <3>0 DEF IsList
      <4>3. g[i] = l[i + 1] /\ i # 1 /\ g[i - 1] = l[i]
        BY <3>0, <3>3
      <4> QED BY <4>1, <4>2, <4>3
    <3> QED BY <3>1, <3>2, <3>3
  <2>8. first2 = IF n - 1 = 0 THEN NULL ELSE g[1]
    <3>1. first = l[1] /\ 1 \in 1..n
      BY <1>0 DEF IsList
    <3>2. CASE k = 1
      <4>1. first2 = next[a]
        BY <1>2, <3>1, <3>2
      <4>2. n - 1 # 0 => g[1] = l[1 + 1]
        BY <1>5, <3>2
      <4> QED BY <1>3, <3>2, <4>1, <4>2
    <3>3. CASE k # 1
      <4>1. first2 = l[1]
        BY <1>2, <1>4, <3>1, <3>3
      <4>2. n - 1 # 0 /\ g[1] = l[1]
        BY <1>5, <3>3
      <4> QED BY <4>1, <4>2
    <3> QED BY <3>2, <3>3
  <2> HIDE DEF next2, prev2, first2, g
  <2> QED BY <2>1, <2>6, <2>7, <2>8 DEF IsList
<1> HIDE DEF g
<1> QED BY <1>5, <1>6, <1>7 DEF Linked

\* One is put in between p and q, which are neighbours, or an end of the list.
LEMMA LinkedIn ==
  ASSUME NEW next \in Links, NEW prev \in Links, NEW first, NEW S,
         Linked(next, prev, first, S), NEW a \in Addr \ S,
         NEW p \in S \cup {NULL}, NEW q \in S \cup {NULL},
         q = IF p = NULL THEN first ELSE next[p]
  PROVE  Linked(Put([next EXCEPT ![a] = q], p, a), Put([prev EXCEPT ![a] = p], q, a),
                IF p = NULL THEN a ELSE first, S \cup {a})
<1> USE Consts
<1>1. PICK n \in Nat : \E l \in [1..n -> Addr] :
             IsList(next, prev, first, n, l) /\ S = {l[i] : i \in 1..n}
  BY DEF Linked
<1>0. PICK l \in [1..n -> Addr] :
             IsList(next, prev, first, n, l) /\ S = {l[i] : i \in 1..n}
  BY <1>1
<1>2. PICK k \in 1..(n + 1) : IF p = NULL THEN k = 1 ELSE k # 1 /\ l[k - 1] = p
  <2>1. CASE p = NULL
    <3>1. 1 \in 1..(n + 1)
      OBVIOUS
    <3> QED BY <2>1, <3>1
  <2>2. CASE p # NULL
    <3>1. PICK i \in 1..n : l[i] = p
      BY <1>0, <2>2
    <3>2. i + 1 \in 1..(n + 1) /\ i + 1 # 1 /\ i + 1 - 1 = i
      OBVIOUS
    <3> QED BY <2>2, <3>1, <3>2
  <2> QED BY <2>1, <2>2
<1> DEFINE next2 == Put([next EXCEPT ![a] = q], p, a)
           prev2 == Put([prev EXCEPT ![a] = p], q, a)
           first2 == IF p = NULL THEN a ELSE first
           g == [i \in 1..(n + 1) |-> IF i < k THEN l[i] ELSE IF i = k THEN a ELSE l[i - 1]]
<1>3. /\ p = IF k = 1 THEN NULL ELSE l[k - 1]
      /\ q = IF k = n + 1 THEN NULL ELSE l[k]
  <2>1. CASE p = NULL
    <3>1. k = 1 /\ q = first /\ (k # n + 1 => n # 0)
      BY <1>2, <2>1
    <3> QED BY <1>0, <2>1, <3>1 DEF IsList
  <2>2. CASE p # NULL
    <3>1. k # 1 /\ l[k - 1] = p /\ q = next[p] /\ k - 1 \in 1..n /\ k - 1 + 1 = k
      BY <1>2, <2>2
    <3>2. next[l[k - 1]] = IF k - 1 = n THEN NULL ELSE l[k]
      BY <1>0, <3>1 DEF IsList
    <3> QED BY <3>1, <3>2
  <2> QED BY <2>1, <2>2
<1>4. /\ \A i, j \in 1..n : l[i] = l[j] => i = j
      /\ \A i \in 1..n : l[i] # a /\ l[i] \in Addr
  BY <1>0 DEF IsList
<1>5. n + 1 \in Nat /\ g \in [1..(n + 1) -> Addr]
  <2>1. \A i \in 1..(n + 1) : (i < k => i \in 1..n) /\ (i > k => i - 1 \in 1..n)
    OBVIOUS
  <2> QED BY <2>1
<1>6. {g[i] : i \in 1..(n + 1)} = S \cup {a}
  <2>1. ASSUME NEW i \in 1..(n + 1) PROVE g[i] \in S \cup {a}
    <3>1. (i < k => i \in 1..n) /\ (i > k => i - 1 \in 1..n)
      OBVIOUS
    <3> QED BY <1>0, <3>1
  <2>2. ASSUME NEW b \in S \cup {a} PROVE \E i \in 1..(n + 1) : g[i] = b
    <3>1. CASE b = a
      <4>1. k \in 1..(n + 1) /\ g[k] = a
        OBVIOUS
      <4> QED BY <3>1, <4>1
    <3>2. CASE b # a
      <4>1. PICK j \in 1..n : l[j] = b
        BY <1>0, <3>2
      <4>2. CASE j < k
        <5>1. j \in 1..(n + 1) /\ g[j] = b
          BY <4>1, <4>2
        <5> QED BY <5>1
      <4>3. CASE j >= k
        <5>1. j + 1 \in 1..(n + 1) /\ ~(j + 1 < k) /\ j + 1 # k /\ j + 1 - 1 = j
          BY <4>3
        <5>2. g[j + 1] = b
          BY <4>1, <5>1
        <5> QED BY <5>1, <5>2
      <4> QED BY <4>2, <4>3
    <3> QED BY <3>1, <3>2
  <2> HIDE DEF g
  <2> QED BY <2>1, <2>2
<1>7. IsList(next2, prev2, first2, n + 1, g)
  <2>1. \A i, j \in 1..(n + 1) : g[i] = g[j] => i = j
    <3> TAKE i, j \in 1..(n + 1)
    <3>1. /\ (i < k => i \in 1..n) /\ (i > k => i - 1 \in 1..n)
          /\ (j < k => j \in 1..n) /\ (j > k => j - 1 \in 1..n)
      OBVIOUS
    <3> QED BY <1>4, <3>1
  <2>2. /\ next2[a] = q /\ prev2[a] = p
        /\ k # 1 => next2[l[k - 1]] = a
        /\ k # n + 1 => prev2[l[k]] = a
        /\ \A i \in 1..n : i # k - 1 => next2[l[i]] = next[l[i]]
        /\ \A i \in 1..n : i # k => prev2[l[i]] = prev[l[i]]
    <3>1. k # 1 => k - 1 \in 1..n /\ p = l[k - 1] /\ p \in Addr /\ p # NULL /\ p # a
      BY <1>3, <1>4
    <3>2. k # n + 1 => k \in 1..n /\ q = l[k] /\ q \in Addr /\ q # NULL /\ q # a
      BY <1>3, <1>4
    <3>3. next2[a] = q /\ (k # 1 => next2[l[k - 1]] = a)
      BY <1>3, <3>1 DEF Put, Links
    <3>4. prev2[a] = p /\ (k # n + 1 => prev2[l[k]] = a)
      BY <1>3, <3>2 DEF Put, Links
    <3>5. \A i \in 1..n : i # k - 1 => next2[l[i]] = next[l[i]]
      <4> TAKE i \in 1..n
      <4>1. CASE k = 1
        BY <1>3, <1>4, <4>1 DEF Put, Links
      <4>2. CASE k # 1
        BY <1>4, <3>1, <4>2 DEF Put, Links
      <4> QED BY <4>1, <4>2
    <3>6. \A i \in 1..n : i # k => prev2[l[i]] = prev[l[i]]
      <4> TAKE i \in 1..n
      <4>1. CASE k = n + 1
        BY <1>3, <1>4, <4>1 DEF Put, Links
      <4>2. CASE k # n + 1
        BY <1>4, <3>2, <4>2 DEF Put, Links
      <4> QED BY <4>1, <4>2
    <3> QED BY <3>3, <3>4, <3>5, <3>6
  <2>3. ASSUME NEW i \in 1..(n + 1)
        PROVE  next2[g[i]] = IF i = n + 1 THEN NULL ELSE g[i + 1]
    <3> HIDE DEF next2, prev2
    <3>0. /\ (i < k => i \in 1..n) /\ (i > k => i - 1 \in 1..n)
          /\ (i # n + 1 => i + 1 \in 1..(n + 1)) /\ i + 1 - 1 = i /\ i - 1 + 1 = i
      OBVIOUS
    <3>1. CASE i < k - 1
      <4>1. next2[l[i]] = next[l[i]] /\ g[i] = l[i] /\ g[i + 1] = l[i + 1] /\ i # n /\ i # n + 1
        BY <2>2, <3>0, <3>1
      <4>2. next[l[i]] = l[i + 1]
        BY <1>0, <3>0, <3>1, <4>1 DEF IsList
      <4> QED BY <4>1, <4>2
    <3>2. CASE i = k - 1
      <4>1. next2[l[i]] = a /\ g[i] = l[i] /\ i # n + 1 /\ g[i + 1] = a
        BY <2>2, <3>0, <3>2
      <4> QED BY <4>1
    <3>3. CASE i = k
      <4>1. g[i] = a /\ (i # n + 1 => g[i + 1] = l[k])
        BY <3>0, <3>3
      <4> QED BY <1>3, <2>2, <3>3, <4>1
    <3>4. CASE i > k
      <4>1. g[i] = l[i - 1] /\ i - 1 \in 1..n /\ i - 1 # k - 1 /\ (i # n + 1 => g[i + 1] = l[i])
        BY <3>0, <3>4
      <4>2. next2[l[i - 1]] = next[l[i - 1]]
        BY <2>2, <4>1
      <4>3. next[l[i - 1]] = IF i - 1 = n THEN NULL ELSE l[i]
        BY <1>0, <3>0, <4>1 DEF IsList
      <4> QED BY <4>1, <4>2, <4>3
    <3> QED BY <3>1, <3>2, <3>3, <3>4
  <2>4. ASSUME NEW i \in 1..(n + 1)
        PROVE  prev2[g[i]] = IF i = 1 THEN NULL ELSE g[i - 1]
    <3> HIDE DEF next2, prev2
    <3>0. /\ (i < k => i \in 1..n) /\ (i > k => i - 1 \in 1..n)
          /\ (i # 1 => i - 1 \in 1..(n + 1)) /\ i - 1 + 1 = i
      OBVIOUS
    <3>1. CASE i < k
      <4>1. prev2[l[i]] = prev[l[i]] /\ g[i] = l[i] /\ (i # 1 => g[i - 1] = l[i - 1])
        BY <2>2, <3>0, <3>1
      <4>2. prev[l[i]] = IF i = 1 THEN NULL ELSE l[i - 1]
        BY <1>0, <3>0, <3>1 DEF IsList
      <4> QED BY <4>1, <4>2
    <3>2. CASE i = k
      <4>1. g[i] = a /\ (i # 1 => g[i - 1] = l[k - 1])
        BY <3>0, <3>2
      <4> QED BY <1>3, <2>2, <3>2, <4>1
    <3>3. CASE i = k + 1
      <4>1. g[i] = l[k] /\ i # 1 /\ g[i - 1] = a /\ k # n + 1
        BY <3>0, <3>3
      <4> QED BY <2>2, <4>1
    <3>4. CASE i > k + 1
      <4>1. g[i] = l[i - 1] /\ i - 1 \in 1..n /\ i - 1 # k /\ i # 1 /\ i - 1 # 1 /\ g[i - 1] = l[i - 1 - 1]
        BY <3>0, <3>4
      <4>2. prev2[l[i - 1]] = prev[l[i - 1]]
        BY <2>2, <4>1
      <4>3. prev[l[i - 1]] = l[i - 1 - 1]
        BY <1>0, <3>0, <4>1 DEF IsList
      <4> QED BY <4>1, <4>2, <4>3
    <3> QED BY <3>1, <3>2, <3>3, <3>4
  <2>5. first2 = IF n + 1 = 0 THEN NULL ELSE g[1]
    <3>1. CASE k = 1
      BY <1>3, <1>5, <3>1
    <3>2. CASE k # 1
      <4>1. p # NULL /\ n # 0 /\ g[1] = l[1]
        BY <1>3, <1>4, <1>5, <3>2
      <4> QED BY <1>0, <1>5, <4>1 DEF IsList
    <3> QED BY <3>1, <3>2
  <2> HIDE DEF next2, prev2, first2, g
  <2> QED BY <2>1, <2>3, <2>4, <2>5 DEF IsList
<1> HIDE DEF g
<1> QED BY <1>5, <1>6, <1>7 DEF Linked

\* What Walk gives for a list.
LEMMA WalkLinked ==
  ASSUME NEW next, NEW prev, NEW first, NEW S, Linked(next, prev, first, S)
  PROVE  LET w == Walk(next, first)
         IN  /\ w \in Seq(Addr) /\ Len(w) \in Nat /\ DOMAIN w = 1..Len(w)
             /\ {w[i] : i \in DOMAIN w} = S
             /\ \A i, j \in DOMAIN w : w[i] = w[j] => i = j
             /\ \A i \in DOMAIN w : prev[w[i]] = IF i = 1 THEN NULL ELSE w[i - 1]
             /\ \A i \in DOMAIN w : next[w[i]] = IF i = Len(w) THEN NULL ELSE w[i + 1]
             /\ S = {} <=> w = <<>>
             /\ S = {} <=> Len(w) = 0
             /\ Len(w) # 0 => first = w[1]
<1>1. PICK n \in Nat : \E l \in [1..n -> Addr] :
             IsList(next, prev, first, n, l) /\ S = {l[i] : i \in 1..n}
  BY DEF Linked
<1>0. PICK l \in [1..n -> Addr] :
             IsList(next, prev, first, n, l) /\ S = {l[i] : i \in 1..n}
  BY <1>1
<1>2. Walk(next, first) = l
  BY <1>0, WalkIs
<1>3. l \in Seq(Addr) /\ Len(l) = n /\ DOMAIN l = 1..n
  OBVIOUS
<1>4. S = {} <=> n = 0
  <2>1. n # 0 => 1 \in 1..n
    OBVIOUS
  <2> QED BY <1>0, <2>1
<1>5. n = 0 <=> l = <<>>
  BY <1>3
<1>6. /\ {l[i] : i \in DOMAIN l} = S
      /\ \A i, j \in DOMAIN l : l[i] = l[j] => i = j
      /\ \A i \in DOMAIN l : prev[l[i]] = IF i = 1 THEN NULL ELSE l[i - 1]
      /\ \A i \in DOMAIN l : next[l[i]] = IF i = Len(l) THEN NULL ELSE l[i + 1]
      /\ Len(l) # 0 => first = l[1]
  BY <1>0, <1>3 DEF IsList
<1>7. Len(l) \in Nat /\ (S = {} <=> l = <<>>) /\ (S = {} <=> Len(l) = 0)
  BY <1>3, <1>4, <1>5
<1> HIDE DEF IsList
<1> QED BY <1>2, <1>3, <1>6, <1>7

-----------------------------------------------------------------------------
(* The fields of the heap, and the calls that change one list. *)

\* The type without the bounds, which follow from the tiles.
Shape(h) ==
  h \in [size : [Addr -> Int], pid : [Addr -> Pid \cup {NULL}],
         bnxt : Links, bprev : Links, fnxt : Links, fprev : Links,
         lnxt : Links, lprev : Links, first : Addr \cup {NULL}, total : Int,
         head : [Pid -> Addr \cup {NULL}]]

SameBlocks(g, h) == g.size = h.size /\ g.bnxt = h.bnxt /\ g.bprev = h.bprev
SameFree(g, h)   == g.fnxt = h.fnxt /\ g.fprev = h.fprev /\ g.first = h.first
SameOwners(g, h) == g.pid = h.pid /\ g.lnxt = h.lnxt /\ g.lprev = h.lprev /\ g.head = h.head

FreeSet(h, S) == Linked(h.fnxt, h.fprev, h.first, S)

LEMMA PutType ==
  ASSUME NEW f \in Links, NEW a \in Addr \cup {NULL}, NEW v \in Addr \cup {NULL}
  PROVE  /\ Put(f, a, v) \in Links
         /\ a \in Addr => Put(f, a, v)[a] = v
         /\ \A x \in Addr : x # a => Put(f, a, v)[x] = f[x]
  BY Consts DEF Put, Links

LEMMA RemoveFree ==
  ASSUME NEW h, Shape(h), NEW S, FreeSet(h, S), NEW a \in S
  PROVE  LET g == REMOVE_FREE(h, a)
         IN  /\ Shape(g) /\ FreeSet(g, S \ {a})
             /\ SameBlocks(g, h) /\ SameOwners(g, h) /\ g.total = h.total
<1> USE Consts
<1> DEFINE g == REMOVE_FREE(h, a)
           n == h.fnxt[a]
           p == h.fprev[a]
<1>1. a \in Addr /\ n \in Addr \cup {NULL} /\ p \in Addr \cup {NULL}
      /\ (p = NULL <=> a = h.first)
  BY LinkedFacts DEF FreeSet
<1>2. h.fnxt \in Links /\ h.fprev \in Links
  BY DEF Shape
<1>3. /\ g.fnxt = Put(h.fnxt, p, n) /\ g.fprev = Put(h.fprev, n, p)
      /\ g.first = IF h.first = a THEN n ELSE h.first
      /\ SameBlocks(g, h) /\ SameOwners(g, h) /\ g.total = h.total
      /\ Shape(g)
  <2>1. CASE a = h.first
    <3>1. g = [h EXCEPT !.first = n, !.fprev = Put(h.fprev, n, NULL)]
      BY <2>1 DEF REMOVE_FREE
    <3>2. Put(h.fprev, n, NULL) \in Links /\ Put(h.fnxt, p, n) = h.fnxt
      BY <1>1, <1>2, <2>1, PutType DEF Put
    <3> QED BY <1>1, <2>1, <3>1, <3>2 DEF Shape, SameBlocks, SameOwners
  <2>2. CASE a # h.first
    <3>1. g = [h EXCEPT !.fnxt = [h.fnxt EXCEPT ![p] = n], !.fprev = Put(h.fprev, n, p)]
      BY <2>2 DEF REMOVE_FREE
    <3>2. Put(h.fprev, n, p) \in Links /\ Put(h.fnxt, p, n) = [h.fnxt EXCEPT ![p] = n]
          /\ Put(h.fnxt, p, n) \in Links
      BY <1>1, <1>2, <2>2, PutType DEF Put
    <3> DEFINE F == Put(h.fnxt, p, n)
               B == Put(h.fprev, n, p)
    <3>3. F \in Links /\ B \in Links /\ g = [h EXCEPT !.fnxt = F, !.fprev = B]
      BY <3>1, <3>2
    <3> HIDE DEF F, B, g
    <3>4. g.fnxt = F /\ g.fprev = B /\ g.first = h.first
          /\ SameBlocks(g, h) /\ SameOwners(g, h) /\ g.total = h.total /\ Shape(g)
      BY <3>3 DEF Shape, SameBlocks, SameOwners
    <3> QED BY <2>2, <3>4 DEF F, B
  <2> QED BY <2>1, <2>2
<1>4. Linked(Put(h.fnxt, p, n), Put(h.fprev, n, p), IF h.first = a THEN n ELSE h.first, S \ {a})
  BY <1>2, LinkedOut DEF FreeSet
<1> HIDE DEF g
<1> QED BY <1>3, <1>4 DEF FreeSet, g

\* Where the search for a place stops: a block of the list, the last one if all
\* are smaller.
LEMMA StopAtIs ==
  ASSUME NEW h, Shape(h), NEW S, S # {}, FreeSet(h, S), NEW a
  PROVE  LET q == StopAt(h, a)
         IN  q \in S /\ (h.size[q] >= h.size[a] \/ h.fnxt[q] = NULL)
<1> DEFINE l == FreeList(h)
           I == {i \in DOMAIN l : h.size[l[i]] >= h.size[a] \/ i = Len(l)}
<1>1. /\ Len(l) \in Nat /\ DOMAIN l = 1..Len(l) /\ {l[i] : i \in DOMAIN l} = S
      /\ \A i \in DOMAIN l : h.fnxt[l[i]] = IF i = Len(l) THEN NULL ELSE l[i + 1]
      /\ Len(l) # 0
  BY WalkLinked DEF FreeSet, FreeList
<1> HIDE DEF l
<1>2. I \in SUBSET Nat /\ I # {}
  <2>1. Len(l) \in I
    BY <1>1
  <2> QED BY <1>1, <2>1
<1>3. Min(I) \in I
  <2> HIDE DEF I
  <2> QED BY <1>2, MinIs
<1>4. StopAt(h, a) = l[Min(I)]
  BY DEF StopAt, l
<1> DEFINE m == Min(I)
<1>5. m \in DOMAIN l /\ (h.size[l[m]] >= h.size[a] \/ m = Len(l))
  BY <1>3
<1> HIDE DEF m, I
<1>6. StopAt(h, a) = l[m]
  BY <1>4 DEF m
<1> QED BY <1>1, <1>5, <1>6

LEMMA InsertFree ==
  ASSUME NEW h, Shape(h), NEW S, FreeSet(h, S), NEW a \in Addr \ S
  PROVE  LET g == INSERT_FREE(h, a)
         IN  /\ Shape(g) /\ FreeSet(g, S \cup {a})
             /\ SameBlocks(g, h) /\ SameOwners(g, h) /\ g.total = h.total
<1> USE Consts
<1> DEFINE g == INSERT_FREE(h, a)
           q == StopAt(h, a)
           p == h.fprev[q]
<1>0. h.fnxt \in Links /\ h.fprev \in Links /\ h.first \in S \cup {NULL} /\ a \in Addr
      /\ S \subseteq Addr /\ (h.first = NULL <=> S = {})
  BY LinkedFacts DEF Shape, FreeSet
<1> DEFINE pp == IF h.first = NULL \/ h.size[a] <= h.size[h.first] THEN NULL
                 ELSE IF h.size[q] >= h.size[a] THEN p ELSE q
           qq == IF h.first = NULL \/ h.size[a] <= h.size[h.first] THEN h.first
                 ELSE IF h.size[q] >= h.size[a] THEN q ELSE NULL
<1>1. /\ pp \in S \cup {NULL} /\ qq \in S \cup {NULL}
      /\ qq = IF pp = NULL THEN h.first ELSE h.fnxt[pp]
      /\ g.fnxt = Put([h.fnxt EXCEPT ![a] = qq], pp, a)
      /\ g.fprev = Put([h.fprev EXCEPT ![a] = pp], qq, a)
      /\ g.first = IF pp = NULL THEN a ELSE h.first
      /\ SameBlocks(g, h) /\ SameOwners(g, h) /\ g.total = h.total
  <2>1. CASE h.first = NULL
    <3>1. g = [h EXCEPT !.first = a, !.fprev[a] = NULL, !.fnxt[a] = NULL]
      BY <2>1 DEF INSERT_FREE
    <3>2. pp = NULL /\ qq = NULL
      BY <2>1
    <3> HIDE DEF pp, qq, g
    <3> QED BY <2>1, <3>1, <3>2 DEF Shape, Put, SameBlocks, SameOwners
  <2>2. CASE h.first # NULL /\ h.size[a] <= h.size[h.first]
    <3>1. g = [h EXCEPT !.fnxt[a] = h.first,
                        !.fprev = [h.fprev EXCEPT ![h.first] = a, ![a] = NULL],
                        !.first = a]
      BY <2>2 DEF INSERT_FREE
    <3>2. pp = NULL /\ qq = h.first
      BY <2>2
    <3>3. [h.fprev EXCEPT ![h.first] = a, ![a] = NULL]
            = [h.fprev EXCEPT ![a] = NULL, ![h.first] = a]
      BY <1>0, <2>2 DEF Links
    <3> HIDE DEF pp, qq, g
    <3> QED BY <1>0, <2>2, <3>1, <3>2, <3>3 DEF Shape, Put, SameBlocks, SameOwners
  <2>3. CASE h.first # NULL /\ ~(h.size[a] <= h.size[h.first])
    <3>0. q \in S /\ (h.size[q] >= h.size[a] \/ h.fnxt[q] = NULL)
      BY <1>0, <2>3, StopAtIs
    <3> HIDE DEF q
    <3>1. CASE h.size[q] >= h.size[a]
      <4>1. g = [h EXCEPT !.fnxt = [h.fnxt EXCEPT ![a] = q, ![p] = a],
                          !.fprev = [h.fprev EXCEPT ![a] = p, ![q] = a]]
        BY <2>3, <3>1 DEF INSERT_FREE, q
      <4>2. pp = p /\ qq = q
        BY <2>3, <3>1
      <4>3. q # h.first
        <5>1. h.size[h.first] \in Int /\ h.size[a] \in Int
          BY <1>0, <2>3 DEF Shape
        <5> QED BY <2>3, <3>1, <5>1
      <4>4. p \in S /\ p # NULL /\ h.fnxt[p] = q /\ q # NULL
        BY <1>0, <3>0, <4>3, LinkedFacts DEF FreeSet
      <4> HIDE DEF pp, qq, g, p
      <4> QED BY <1>0, <3>0, <4>1, <4>2, <4>4 DEF Shape, Put, SameBlocks, SameOwners
    <3>2. CASE ~(h.size[q] >= h.size[a])
      <4>1. g = [h EXCEPT !.fnxt = [h.fnxt EXCEPT ![q] = a, ![a] = NULL],
                          !.fprev[a] = q]
        BY <2>3, <3>2 DEF INSERT_FREE, q
      <4>2. pp = q /\ qq = NULL
        BY <2>3, <3>2
      <4>3. h.fnxt[q] = NULL /\ q # NULL /\ q # a
        BY <1>0, <3>0, <3>2
      <4>4. [h.fnxt EXCEPT ![q] = a, ![a] = NULL] = [h.fnxt EXCEPT ![a] = NULL, ![q] = a]
        BY <1>0, <4>3 DEF Links
      <4> HIDE DEF pp, qq, g, p
      <4> QED BY <1>0, <3>0, <4>1, <4>2, <4>3, <4>4 DEF Shape, Put, SameBlocks, SameOwners
    <3> QED BY <3>1, <3>2
  <2> QED BY <2>1, <2>2, <2>3
<1> HIDE DEF pp, qq
<1>2. Shape(g)
  <2>1. CASE h.first = NULL
    BY <1>0, <2>1 DEF Shape, INSERT_FREE, Links
  <2>2. CASE h.first # NULL /\ h.size[a] <= h.size[h.first]
    BY <1>0, <2>2 DEF Shape, INSERT_FREE, Links
  <2>3. CASE h.first # NULL /\ ~(h.size[a] <= h.size[h.first])
    <3>0. q \in Addr /\ p \in Addr \cup {NULL}
      BY <1>0, <2>3, StopAtIs DEF Links
    <3> HIDE DEF q
    <3> QED BY <1>0, <2>3, <3>0 DEF Shape, INSERT_FREE, Links, q
  <2> QED BY <2>1, <2>2, <2>3
<1> HIDE DEF g
<1>3. Linked(g.fnxt, g.fprev, g.first, S \cup {a})
  <2>1. Linked(Put([h.fnxt EXCEPT ![a] = qq], pp, a), Put([h.fprev EXCEPT ![a] = pp], qq, a),
               IF pp = NULL THEN a ELSE h.first, S \cup {a})
    BY <1>0, <1>1, LinkedIn DEF FreeSet
  <2> QED BY <1>1, <2>1
<1> QED BY <1>1, <1>2, <1>3 DEF FreeSet, g

\* The list of every thread of T has the blocks of A that it owns.
OwnedIn(h, A, t) == {x \in A : h.pid[x] = t}
ListsOf(h, T, A) == \A t \in T : Linked(h.lnxt, h.lprev, h.head[t], OwnedIn(h, A, t))

LEMMA ListsSame ==
  ASSUME NEW h, NEW T, NEW A, ListsOf(h, T, A), NEW g, g.head = h.head,
         \A x \in A : g.pid[x] = h.pid[x] /\ g.lnxt[x] = h.lnxt[x] /\ g.lprev[x] = h.lprev[x]
  PROVE  ListsOf(g, T, A)
<1> SUFFICES ASSUME NEW t \in T
             PROVE  Linked(g.lnxt, g.lprev, g.head[t], OwnedIn(g, A, t))
  BY DEF ListsOf
<1>1. OwnedIn(g, A, t) = OwnedIn(h, A, t)
  BY DEF OwnedIn
<1>2. \A x \in OwnedIn(h, A, t) : g.lnxt[x] = h.lnxt[x] /\ g.lprev[x] = h.lprev[x]
  BY DEF OwnedIn
<1>3. Linked(h.lnxt, h.lprev, h.head[t], OwnedIn(h, A, t))
  BY DEF ListsOf
<1> QED BY <1>1, <1>2, <1>3, LinkedSame

\* Who owns a block that c asks for.
OwnerFor(c, force) == IF c = NULL THEN NULL ELSE IF force THEN KERNEL ELSE c

LEMMA ListAdd ==
  ASSUME NEW h, Shape(h), NEW a \in Addr, NEW A \in SUBSET (Addr \ {a}), ListsOf(h, Pid, A),
         NEW c \in Pid \cup {NULL}, NEW force
  PROVE  LET g == thread_listAdd(h, a, c, force)
         IN  /\ Shape(g) /\ SameBlocks(g, h) /\ SameFree(g, h) /\ g.total = h.total
             /\ g.pid = [h.pid EXCEPT ![a] = OwnerFor(c, force)]
             /\ ListsOf(g, Pid, A \cup {a})
<1> USE Consts
<1> DEFINE g == thread_listAdd(h, a, c, force)
           o == OwnerFor(c, force)
           n == h.head[o]
<1>0. h.lnxt \in Links /\ h.lprev \in Links /\ h.pid \in [Addr -> Pid \cup {NULL}]
      /\ h.head \in [Pid -> Addr \cup {NULL}]
  BY DEF Shape
<1>1. CASE c = NULL
  <2>1. g = [h EXCEPT !.pid[a] = NULL, !.lnxt[a] = NULL, !.lprev[a] = NULL]
    BY <1>1 DEF thread_listAdd
  <2>2. /\ Shape(g) /\ SameBlocks(g, h) /\ SameFree(g, h) /\ g.total = h.total
        /\ g.pid = [h.pid EXCEPT ![a] = NULL] /\ g.head = h.head
        /\ g.lnxt = [h.lnxt EXCEPT ![a] = NULL] /\ g.lprev = [h.lprev EXCEPT ![a] = NULL]
    <3> HIDE DEF g
    <3> QED BY <2>1 DEF Shape, SameBlocks, SameFree, Links
  <2> HIDE DEF g
  <2>3. ListsOf(g, Pid, A)
    BY <1>0, <2>2, ListsSame DEF Links
  <2>4. \A t \in Pid : OwnedIn(g, A \cup {a}, t) = OwnedIn(g, A, t)
    BY <1>0, <2>2 DEF OwnedIn
  <2> QED BY <1>1, <2>2, <2>3, <2>4 DEF g, ListsOf, OwnerFor
<1>2. CASE c # NULL
  <2>0. o \in Pid /\ n \in Addr \cup {NULL}
    BY <1>0, <1>2 DEF OwnerFor
  <2> DEFINE L == [h.lnxt EXCEPT ![a] = n]
             B == Put([h.lprev EXCEPT ![a] = NULL], n, a)
  <2>1. g = [h EXCEPT !.pid[a] = o, !.lprev = B, !.lnxt = L, !.head[o] = a]
    BY <1>2 DEF thread_listAdd, OwnerFor
  <2>2. L \in Links /\ B \in Links
    BY <1>0, <2>0 DEF Put, Links
  <2>3. /\ Shape(g) /\ SameBlocks(g, h) /\ SameFree(g, h) /\ g.total = h.total
        /\ g.pid = [h.pid EXCEPT ![a] = o] /\ g.head = [h.head EXCEPT ![o] = a]
        /\ g.lnxt = L /\ g.lprev = B
    <3> HIDE DEF g, L, B, n, o
    <3> QED BY <2>0, <2>1, <2>2 DEF Shape, SameBlocks, SameFree
  <2> HIDE DEF g
  <2>4. OwnedIn(g, A \cup {a}, o) = OwnedIn(h, A, o) \cup {a}
    BY <1>0, <2>0, <2>3 DEF OwnedIn
  <2>5. \A t \in Pid \ {o} : OwnedIn(g, A \cup {a}, t) = OwnedIn(h, A, t)
    BY <1>0, <2>0, <2>3 DEF OwnedIn
  <2>6. Linked(h.lnxt, h.lprev, n, OwnedIn(h, A, o))
    BY <2>0 DEF ListsOf
  <2>7. n \in OwnedIn(h, A, o) \cup {NULL} /\ a \in Addr \ OwnedIn(h, A, o)
    BY <2>6, LinkedFacts DEF OwnedIn
  <2>8. Linked(g.lnxt, g.lprev, g.head[o], OwnedIn(g, A \cup {a}, o))
    <3>1. Linked(Put([h.lnxt EXCEPT ![a] = n], NULL, a), Put([h.lprev EXCEPT ![a] = NULL], n, a),
                 IF NULL = NULL THEN a ELSE n, OwnedIn(h, A, o) \cup {a})
      <4> HIDE DEF o, n
      <4> QED BY <1>0, <2>6, <2>7, LinkedIn
    <3>2. g.head[o] = a /\ L = Put([h.lnxt EXCEPT ![a] = n], NULL, a)
      BY <1>0, <2>0, <2>3 DEF Put
    <3> QED BY <2>3, <2>4, <3>1, <3>2
  <2>9. ASSUME NEW t \in Pid, t # o
        PROVE  Linked(g.lnxt, g.lprev, g.head[t], OwnedIn(g, A \cup {a}, t))
    <3>1. Linked(h.lnxt, h.lprev, h.head[t], OwnedIn(h, A, t))
      BY DEF ListsOf
    <3>2. n \notin OwnedIn(h, A, t) /\ a \notin OwnedIn(h, A, t) /\ OwnedIn(h, A, t) \subseteq Addr
      BY <2>7, <2>9 DEF OwnedIn
    <3>3. \A x \in OwnedIn(h, A, t) : L[x] = h.lnxt[x] /\ B[x] = h.lprev[x]
      BY <1>0, <2>0, <3>2 DEF Put, Links
    <3>4. g.head[t] = h.head[t]
      BY <1>0, <2>3, <2>9
    <3> HIDE DEF L, B, o
    <3>5. \A x \in OwnedIn(h, A, t) : g.lnxt[x] = h.lnxt[x] /\ g.lprev[x] = h.lprev[x]
      BY <2>3, <3>3
    <3>6. Linked(g.lnxt, g.lprev, h.head[t], OwnedIn(h, A, t))
      BY <3>1, <3>5, LinkedSame
    <3> QED BY <2>5, <2>9, <3>4, <3>6
  <2> HIDE DEF o
  <2> QED BY <2>3, <2>8, <2>9 DEF ListsOf, g, o
<1> QED BY <1>1, <1>2

LEMMA ListRm ==
  ASSUME NEW h, Shape(h), NEW T \in SUBSET Pid, NEW A \in SUBSET Addr, ListsOf(h, T, A), NEW b \in A,
         NEW c \in Pid, NEW force,
         h.pid[b] \in T, h.pid[b] \in {c, KERNEL}
  PROVE  LET g == thread_listRm(h, b, c, force)
         IN  /\ Shape(g) /\ SameBlocks(g, h) /\ SameFree(g, h) /\ g.total = h.total
             /\ g.pid = h.pid /\ ListsOf(g, T, A \ {b})
<1> USE Consts
<1> DEFINE g == thread_listRm(h, b, c, force)
           o == h.pid[b]
           n == h.lnxt[b]
           p == h.lprev[b]
<1>0. h.lnxt \in Links /\ h.lprev \in Links /\ h.pid \in [Addr -> Pid \cup {NULL}]
      /\ h.head \in [Pid -> Addr \cup {NULL}] /\ b \in Addr
  BY DEF Shape
<1>1. Linked(h.lnxt, h.lprev, h.head[o], OwnedIn(h, A, o)) /\ b \in OwnedIn(h, A, o)
  BY DEF ListsOf, OwnedIn
<1>2. /\ n \in OwnedIn(h, A, o) \cup {NULL} /\ p \in OwnedIn(h, A, o) \cup {NULL}
      /\ (p = NULL <=> b = h.head[o]) /\ n \in Addr \cup {NULL} /\ p \in Addr \cup {NULL}
  <2> HIDE DEF o
  <2> QED BY <1>1, LinkedFacts, <1>0 DEF Links
<1> DEFINE L == Put(h.lnxt, p, n)
           B == Put(h.lprev, n, p)
           H == [h.head EXCEPT ![o] = IF h.head[o] = b THEN n ELSE h.head[o]]
<1>3. L \in Links /\ B \in Links /\ H \in [Pid -> Addr \cup {NULL}]
  BY <1>0, <1>2, PutType
<1>4. /\ g.lnxt = L /\ g.lprev = B /\ g.head = H
      /\ Shape(g) /\ SameBlocks(g, h) /\ SameFree(g, h) /\ g.total = h.total /\ g.pid = h.pid
  <2>0. h.pid[b] # NULL /\ c # NULL /\ o = IF h.pid[b] = c THEN c ELSE KERNEL
    OBVIOUS
  <2>1. CASE h.head[o] = b
    <3>1. g = [h EXCEPT !.head[o] = n, !.lprev = Put(h.lprev, n, NULL)]
      BY <2>0, <2>1 DEF thread_listRm
    <3>2. p = NULL
      BY <1>2, <2>1
    <3>3. L = h.lnxt /\ B = Put(h.lprev, n, NULL) /\ H = [h.head EXCEPT ![o] = n]
      BY <2>1, <3>2 DEF Put
    <3> HIDE DEF L, B, H, g, o, n, p
    <3>4. g = [h EXCEPT !.head = H, !.lprev = B]
      BY <3>1, <3>3
    <3> QED BY <1>3, <3>3, <3>4 DEF Shape, SameBlocks, SameFree
  <2>2. CASE h.head[o] # b
    <3>2. p # NULL
      BY <1>2, <2>2
    <3>1. g = [h EXCEPT !.lnxt = Put(h.lnxt, p, n), !.lprev = Put(h.lprev, n, p)]
      BY <2>0, <2>2 DEF thread_listRm
    <3>3. H = h.head
      BY <1>0, <2>2
    <3> HIDE DEF H, g, o
    <3>4. g = [h EXCEPT !.lnxt = L, !.lprev = B]
      BY <3>1
    <3> HIDE DEF L, B
    <3> QED BY <1>3, <3>3, <3>4 DEF Shape, SameBlocks, SameFree
  <2> QED BY <2>1, <2>2
<1> HIDE DEF g
<1>5. ASSUME NEW t \in T
      PROVE  Linked(g.lnxt, g.lprev, g.head[t], OwnedIn(g, A \ {b}, t))
  <2>1. CASE t = o
    <3>1. OwnedIn(g, A \ {b}, t) = OwnedIn(h, A, o) \ {b}
      BY <1>4, <2>1 DEF OwnedIn
    <3>2. Linked(L, B, IF h.head[o] = b THEN n ELSE h.head[o], OwnedIn(h, A, o) \ {b})
      <4> HIDE DEF o
      <4> QED BY <1>0, <1>1, LinkedOut
    <3>3. H[o] = IF h.head[o] = b THEN n ELSE h.head[o]
      BY <1>0
    <3> HIDE DEF L, B, H, o
    <3> QED BY <1>4, <2>1, <3>1, <3>2, <3>3
  <2>2. CASE t # o
    <3>1. Linked(h.lnxt, h.lprev, h.head[t], OwnedIn(h, A, t))
      BY DEF ListsOf
    <3>2. OwnedIn(g, A \ {b}, t) = OwnedIn(h, A, t)
      BY <1>4, <2>2 DEF OwnedIn
    <3>3. \A x \in OwnedIn(h, A, t) : L[x] = h.lnxt[x] /\ B[x] = h.lprev[x]
      <4>1. \A x \in OwnedIn(h, A, t) : x \in Addr /\ x # n /\ x # p
        BY <1>2, <2>2 DEF OwnedIn
      <4>2. \A x \in Addr : x # p => L[x] = h.lnxt[x]
        <5> HIDE DEF n, p
        <5> QED BY <1>0, <1>2 DEF Put, Links
      <4>3. \A x \in Addr : x # n => B[x] = h.lprev[x]
        <5> HIDE DEF n, p
        <5> QED BY <1>0, <1>2 DEF Put, Links
      <4> HIDE DEF n, p, L, B
      <4> QED BY <4>1, <4>2, <4>3
    <3>4. g.head[t] = h.head[t]
      <4>1. H[t] = h.head[t]
        BY <1>0, <2>2
      <4> HIDE DEF H
      <4> QED BY <1>4, <4>1
    <3> HIDE DEF L, B, H
    <3> QED BY <1>4, <3>1, <3>2, <3>3, <3>4, LinkedSame
  <2> QED BY <2>1, <2>2
<1> QED BY <1>4, <1>5 DEF ListsOf, g

-----------------------------------------------------------------------------
(* The tiles. *)

LEMMA ExtentIs ==
  ASSUME NEW h, Shape(h), NEW a \in Addr
  PROVE  /\ Extent(h, a) \in Nat /\ a \in Nat
         /\ h.size[a] \in Int /\ (a \in Blocks(h) <=> Extent(h, a) # 0)
         /\ End(h, a) = a + Extent(h, a)
         /\ (h.size[a] >= 0 => Extent(h, a) = h.size[a])
         /\ (h.size[a] < 0 => Extent(h, a) = -h.size[a])
BY Consts DEF Shape, Extent, End, Blocks

\* Where a block ends, and what its links are.
LEMMA TileEnds ==
  ASSUME NEW h, Shape(h), Tiled(h), NEW a \in Blocks(h)
  PROVE  /\ a \in Addr /\ a < End(h, a) /\ End(h, a) <= PoolSize /\ End(h, a) \in Nat
         /\ Extent(h, a) <= PoolSize
         /\ h.bnxt[a] # NULL => /\ h.bnxt[a] = End(h, a) /\ End(h, a) \in Blocks(h)
                                /\ h.bprev[End(h, a)] = a
         /\ h.bnxt[a] = NULL => End(h, a) = PoolSize
         /\ h.bnxt[a] \in Addr \cup {NULL} /\ h.bprev[a] \in Addr \cup {NULL}
<1> USE Consts
<1>1. a \in Addr /\ \A x \in Blocks(h) : x \in Addr
  BY DEF Blocks
<1>2. a < End(h, a) /\ End(h, a) \in Nat /\ End(h, a) = a + Extent(h, a) /\ Extent(h, a) \in Nat
      /\ a \in Nat
  BY <1>1, ExtentIs
<1>3. \/ End(h, a) = PoolSize /\ h.bnxt[a] = NULL
      \/ End(h, a) \in Blocks(h) /\ h.bnxt[a] = End(h, a) /\ h.bprev[End(h, a)] = a
  BY DEF Tiled
<1>4. End(h, a) <= PoolSize
  BY <1>1, <1>2, <1>3 DEF Addr
<1>5. h.bnxt[a] \in Addr \cup {NULL} /\ h.bprev[a] \in Addr \cup {NULL}
  BY <1>1 DEF Shape, Links
<1> QED BY <1>1, <1>2, <1>3, <1>4, <1>5

\* Every block but the first has a block right before it: the last of those that
\* start before it.
LEMMA TileBehind ==
  ASSUME NEW h, Shape(h), Tiled(h), NEW a \in Blocks(h), a # 0
  PROVE  h.bprev[a] \in Blocks(h) /\ End(h, h.bprev[a]) = a /\ h.bprev[a] < a
<1> USE Consts
<1> DEFINE Back == {a - x : x \in {y \in Blocks(h) : y < a}}
<1>1. a \in Addr /\ a \in Nat /\ a > 0 /\ \A x \in Blocks(h) : x \in Addr /\ x \in Nat
  <2>1. \A x \in Blocks(h) : x \in Addr /\ x \in Nat
    BY DEF Blocks
  <2> QED BY <2>1
<1>2. Back \in SUBSET Nat /\ Back # {}
  <2>1. 0 \in Blocks(h)
    BY DEF Tiled
  <2> QED BY <1>1, <2>1
<1>3. PICK d \in Back : \A k \in Back : d <= k
  <2> HIDE DEF Back
  <2> QED BY <1>2, Least
<1>4. PICK c \in Blocks(h) : c < a /\ d = a - c
  BY <1>3
<1>5. ASSUME NEW y \in Blocks(h), y < a PROVE y <= c
  <2>1. a - y \in Back
    BY <1>5
  <2>2. d <= a - y
    BY <1>3, <2>1
  <2>3. y \in Nat /\ c \in Nat
    BY <1>1
  <2> HIDE DEF Back
  <2> QED BY <1>1, <1>4, <2>2, <2>3
<1>6. End(h, c) <= a
  BY <1>4 DEF Tiled
<1>7. c < End(h, c) /\ End(h, c) \in Nat /\ a < PoolSize
  BY <1>1, <1>4, TileEnds
<1>8. End(h, c) \in Blocks(h) /\ h.bprev[End(h, c)] = c
  BY <1>6, <1>7, <1>1 DEF Tiled
<1>9. End(h, c) = a
  BY <1>1, <1>4, <1>5, <1>6, <1>7, <1>8
<1> QED BY <1>4, <1>8, <1>9

LEMMA TileSame ==
  ASSUME NEW h, Tiled(h), NEW g, Blocks(g) = Blocks(h), g.bnxt = h.bnxt, g.bprev = h.bprev,
         \A x \in Blocks(h) : Extent(g, x) = Extent(h, x)
  PROVE  Tiled(g)
<1>1. \A x \in Blocks(h) : End(g, x) = End(h, x)
  BY DEF End
<1> QED BY <1>1 DEF Tiled

\* The tail of b becomes a block of its own.
LEMMA TileSplit ==
  ASSUME NEW h, Shape(h), Tiled(h), NEW b \in Blocks(h), NEW s \in Nat \ {0}, s < h.size[b]
  PROVE  LET g == Split(h, b, s)
             a == b + h.size[b] - s
         IN  /\ Shape(g) /\ Tiled(g) /\ SameFree(g, h) /\ SameOwners(g, h)
             /\ a \in Addr \ Blocks(h) /\ a # b
             /\ g.size = [h.size EXCEPT ![b] = h.size[b] - s, ![a] = -s]
             /\ g.bnxt = [h.bnxt EXCEPT ![b] = a, ![a] = h.bnxt[b]]
             /\ g.total = h.total + s
<1> USE Consts
<1> DEFINE g == Split(h, b, s)
           a == b + h.size[b] - s
           n == h.bnxt[b]
           Z == [h.size EXCEPT ![b] = h.size[b] - s, ![a] = -s]
           F == [h.bnxt EXCEPT ![b] = a, ![a] = n]
           P == Put([h.bprev EXCEPT ![a] = b], n, a)
<1>0. h.size \in [Addr -> Int] /\ h.bnxt \in Links /\ h.bprev \in Links /\ h.total \in Int
  BY DEF Shape
<1>1. /\ b \in Addr /\ b \in Nat /\ h.size[b] \in Int /\ h.size[b] > 0
      /\ End(h, b) = b + h.size[b] /\ End(h, b) <= PoolSize
      /\ n # NULL => n = End(h, b) /\ n \in Blocks(h) /\ h.bprev[n] = b
      /\ n = NULL => End(h, b) = PoolSize
      /\ n \in Addr \cup {NULL}
  <2>1. b \in Addr /\ b < End(h, b)
    BY TileEnds
  <2>2. b \in Nat /\ h.size[b] \in Int /\ h.size[b] > 0
    BY <1>0, <2>1
  <2>3. End(h, b) = b + h.size[b]
    BY <2>1, <2>2, ExtentIs
  <2> QED BY <2>1, <2>2, <2>3, TileEnds
<1>2. a \in Nat /\ b < a /\ a < End(h, b) /\ a + s = End(h, b) /\ a \in Addr /\ a # b /\ a # n
  <2>1. a \in Nat /\ b < a /\ a < End(h, b) /\ a + s = End(h, b)
    BY <1>1
  <2>2. End(h, b) \in Nat
    BY <1>1
  <2> HIDE DEF a, n
  <2> QED BY <1>1, <2>1, <2>2 DEF Addr
<1>3. \A x \in Blocks(h) : x \in Addr /\ x \in Nat
  BY DEF Blocks
<1>4. a \notin Blocks(h)
  <2> SUFFICES ASSUME a \in Blocks(h) PROVE FALSE
    OBVIOUS
  <2>1. End(h, b) <= a
    BY <1>2 DEF Tiled
  <2> QED BY <1>1, <1>2, <2>1
<1>5. Z \in [Addr -> Int] /\ F \in Links /\ P \in Links
  <2> HIDE DEF a, n
  <2> QED BY <1>0, <1>1, <1>2 DEF Put, Links
<1>6. g = [h EXCEPT !.size = Z, !.bnxt = F, !.bprev = P, !.total = h.total + s]
  BY DEF Split
<1>7. /\ g.size = Z /\ g.bnxt = F /\ g.bprev = P /\ g.total = h.total + s
      /\ Shape(g) /\ SameFree(g, h) /\ SameOwners(g, h)
  <2>1. h.total + s \in Int
    BY <1>0
  <2> HIDE DEF g, Z, F, P
  <2> QED BY <1>5, <1>6, <2>1 DEF Shape, SameFree, SameOwners
<1> HIDE DEF g
<1>8. Tiled(g)
  <2>0. h.size[a] = 0
    BY <1>2, <1>4 DEF Blocks
  <2>1. Blocks(g) = Blocks(h) \cup {a}
    <3> HIDE DEF a, n
    <3> QED BY <1>0, <1>1, <1>2, <1>7 DEF Blocks
  <2>2. End(g, b) = a /\ End(g, a) = End(h, b)
    <3>1. g.size[b] = h.size[b] - s /\ g.size[a] = -s
      <4> HIDE DEF a
      <4> QED BY <1>0, <1>1, <1>2, <1>7
    <3>2. Extent(g, b) = h.size[b] - s /\ Extent(g, a) = s
      BY <1>1, <3>1 DEF Extent
    <3> QED BY <1>1, <3>2 DEF End
  <2>3. \A x \in Addr \ {a, b} : End(g, x) = End(h, x)
    <3> HIDE DEF a
    <3> QED BY <1>0, <1>7 DEF End, Extent
  <2>4. /\ F[b] = a /\ F[a] = n /\ \A x \in Addr \ {a, b} : F[x] = h.bnxt[x]
        /\ P[a] = b /\ (n # NULL => P[n] = a)
        /\ \A x \in Addr : x # a /\ x # n => P[x] = h.bprev[x]
    <3> HIDE DEF a, n
    <3> QED BY <1>0, <1>1, <1>2 DEF Put, Links
  <2> HIDE DEF a, n, F, P, Z
  <2>5. ASSUME NEW x \in Blocks(g)
        PROVE  \/ End(g, x) = PoolSize /\ g.bnxt[x] = NULL
               \/ /\ End(g, x) \in Blocks(g)
                  /\ g.bnxt[x] = End(g, x) /\ g.bprev[End(g, x)] = x
    <3>1. CASE x = a
      BY <1>1, <1>7, <2>1, <2>2, <2>4, <3>1
    <3>2. CASE x = b
      BY <1>7, <2>1, <2>2, <2>4, <3>2
    <3>3. CASE x # a /\ x # b
      <4>1. x \in Blocks(h) /\ x \in Addr
        BY <1>3, <2>1, <3>3
      <4>2. \/ End(h, x) = PoolSize /\ h.bnxt[x] = NULL
            \/ /\ End(h, x) \in Blocks(h)
               /\ h.bnxt[x] = End(h, x) /\ h.bprev[End(h, x)] = x
        BY <4>1 DEF Tiled
      <4>3. End(g, x) = End(h, x) /\ g.bnxt[x] = h.bnxt[x]
        BY <1>7, <2>3, <2>4, <3>3, <4>1
      <4>4. End(h, x) \in Blocks(h) /\ h.bprev[End(h, x)] = x => g.bprev[End(h, x)] = x
        BY <1>1, <1>2, <1>3, <1>4, <1>7, <2>4, <3>3
      <4> QED BY <2>1, <4>2, <4>3, <4>4
    <3> QED BY <3>1, <3>2, <3>3
  <2>6. 0 \in Blocks(g) /\ g.bprev[0] = NULL
    <3>1. 0 \in Blocks(h) /\ h.bprev[0] = NULL
      BY DEF Tiled
    <3>2. 0 # a /\ 0 # n
      BY <1>1, <1>2
    <3> QED BY <1>7, <2>1, <2>4, <3>1, <3>2
  <2>7. ASSUME NEW x \in Blocks(g), NEW y \in Blocks(g), x < y
        PROVE  End(g, x) <= y
    <3>0. \A u, v \in Blocks(h) : u < v => End(h, u) <= v
      BY DEF Tiled
    <3>1. CASE x = a
      <4>1. y \in Blocks(h) /\ y \in Nat /\ b < y
        BY <1>1, <1>2, <1>3, <2>1, <2>7, <3>1
      <4> QED BY <2>2, <3>0, <3>1, <4>1
    <3>2. CASE x = b /\ y = a
      BY <1>2, <2>2, <3>2
    <3>3. CASE x = b /\ y # a
      <4>1. y \in Blocks(h) /\ y \in Nat /\ End(h, b) <= y /\ End(h, b) \in Nat
        BY <1>1, <1>3, <2>1, <2>7, <3>0, <3>3
      <4> QED BY <1>2, <2>2, <3>3, <4>1
    <3>4. CASE x # a /\ x # b
      <4>1. x \in Blocks(h) /\ x \in Nat /\ x \in Addr /\ End(g, x) = End(h, x)
        BY <1>3, <2>1, <2>3, <3>4
      <4>2. CASE y = a
        <5>1. x < b
          <6>1. b < x => End(h, b) <= x
            BY <3>0, <4>1
          <6> QED BY <1>1, <1>2, <2>7, <3>4, <4>1, <4>2, <6>1
        <5>2. End(h, x) <= b /\ End(h, x) \in Nat
          BY <3>0, <4>1, <5>1, TileEnds
        <5> QED BY <1>1, <1>2, <4>1, <4>2, <5>2
      <4>3. CASE y # a
        BY <2>1, <2>7, <3>0, <4>1, <4>3
      <4> QED BY <4>2, <4>3
    <3> QED BY <3>1, <3>2, <3>3, <3>4
  <2> QED BY <2>5, <2>6, <2>7 DEF Tiled
<1> QED BY <1>2, <1>4, <1>7, <1>8 DEF g

\* a and the block b after it become one.
LEMMA TileMerge ==
  ASSUME NEW h, Shape(h), Tiled(h), NEW a \in Blocks(h), NEW b \in Blocks(h), h.bnxt[a] = b,
         NEW g, Shape(g),
         \A x \in Addr \ {a, b} : Extent(g, x) = Extent(h, x) /\ g.bnxt[x] = h.bnxt[x],
         Extent(g, a) = Extent(h, a) + Extent(h, b), Extent(g, b) = 0,
         g.bnxt[a] = h.bnxt[b],
         \A x \in Addr \ {b} : g.bprev[x] = IF x = h.bnxt[b] THEN a ELSE h.bprev[x]
  PROVE  Tiled(g) /\ Blocks(g) = Blocks(h) \ {b}
<1> USE Consts
<1> DEFINE n == h.bnxt[b]
<1>1. \A x \in Blocks(h) : x \in Addr /\ x \in Nat
  <2>1. \A x \in Blocks(h) : x \in Addr
    BY DEF Blocks
  <2> QED BY <2>1
<1>2. /\ b = End(h, a) /\ a < b /\ b < End(h, b) /\ h.bprev[b] = a /\ End(h, b) \in Nat
      /\ n # NULL => n = End(h, b) /\ n \in Blocks(h) /\ h.bprev[n] = b
      /\ n = NULL => End(h, b) = PoolSize
      /\ a # b /\ n # b /\ n # a
  <2>1. b # NULL
    BY <1>1
  <2>2. b = End(h, a) /\ a < b /\ h.bprev[b] = a
    BY <2>1, TileEnds
  <2>3. /\ b < End(h, b) /\ End(h, b) \in Nat
        /\ n # NULL => n = End(h, b) /\ n \in Blocks(h) /\ h.bprev[n] = b
        /\ n = NULL => End(h, b) = PoolSize
    BY TileEnds
  <2>4. a # b /\ n # b /\ n # a
    <3> HIDE DEF n
    <3> QED BY <1>1, <2>2, <2>3
  <2> QED BY <2>2, <2>3, <2>4
<1>3. \A x \in Addr \ {a, b} : End(g, x) = End(h, x)
  BY DEF End
<1>4. End(g, a) = End(h, b)
  <2>1. /\ Extent(h, a) \in Nat /\ Extent(h, b) \in Nat /\ End(h, a) = a + Extent(h, a)
        /\ End(h, b) = b + Extent(h, b) /\ a \in Nat
    BY <1>1, ExtentIs
  <2>2. End(g, a) = a + (Extent(h, a) + Extent(h, b))
    BY DEF End
  <2> QED BY <1>2, <2>1, <2>2
<1>5. Blocks(g) = Blocks(h) \ {b}
  <2>1. \A x \in Addr : (x \in Blocks(h) <=> Extent(h, x) # 0) /\ (x \in Blocks(g) <=> Extent(g, x) # 0)
    BY ExtentIs
  <2>2. \A x \in Addr \ {a, b} : x \in Blocks(g) <=> x \in Blocks(h)
    BY <2>1
  <2>3. a \in Blocks(g)
    <3>1. Extent(h, a) \in Nat /\ Extent(h, b) \in Nat /\ Extent(h, a) # 0
      BY <1>1, ExtentIs
    <3> QED BY <1>1, <2>1, <3>1
  <2>4. b \notin Blocks(g)
    BY <1>1, <2>1
  <2>5. Blocks(g) \subseteq Addr /\ Blocks(h) \subseteq Addr
    BY DEF Blocks
  <2>6. a \in Blocks(h) /\ a # b
    BY <1>1, <1>2
  <2>7. \A x \in Addr : x \in Blocks(g) <=> x \in Blocks(h) /\ x # b
    BY ONLY <2>2, <2>3, <2>4, <2>6
  <2> QED BY ONLY <2>5, <2>7
<1> HIDE DEF n
<1>6. ASSUME NEW x \in Blocks(g)
      PROVE  \/ End(g, x) = PoolSize /\ g.bnxt[x] = NULL
             \/ /\ End(g, x) \in Blocks(g)
                /\ g.bnxt[x] = End(g, x) /\ g.bprev[End(g, x)] = x
  <2>1. CASE x = a
    <3>1. g.bnxt[a] = n
      BY DEF n
    <3>2. n # NULL => g.bprev[n] = a
      BY <1>1, <1>2 DEF n
    <3> QED BY <1>2, <1>4, <1>5, <2>1, <3>1, <3>2
  <2>2. CASE x # a
    <3>1. x \in Blocks(h) /\ x # b /\ x \in Addr \ {a, b}
      BY <1>1, <1>5, <2>2
    <3>2. \/ End(h, x) = PoolSize /\ h.bnxt[x] = NULL
          \/ /\ End(h, x) \in Blocks(h)
             /\ h.bnxt[x] = End(h, x) /\ h.bprev[End(h, x)] = x
      BY <3>1 DEF Tiled
    <3>3. End(g, x) = End(h, x) /\ g.bnxt[x] = h.bnxt[x]
      BY <1>3, <3>1
    <3>4. ASSUME End(h, x) \in Blocks(h), h.bprev[End(h, x)] = x
          PROVE  End(h, x) \in Blocks(g) /\ g.bprev[End(h, x)] = x
      <4>1. End(h, x) # b
        BY <1>2, <2>2, <3>4
      <4>2. End(h, x) # n
        BY <1>1, <1>2, <3>1, <3>4
      <4>3. End(h, x) \in Addr \ {b}
        BY <1>1, <3>4, <4>1
      <4>4. g.bprev[End(h, x)] = h.bprev[End(h, x)]
        BY <4>2, <4>3 DEF n
      <4> QED BY <1>5, <3>4, <4>1, <4>4
    <3> QED BY <3>2, <3>3, <3>4
  <2> QED BY <2>1, <2>2
<1>7. 0 \in Blocks(g) /\ g.bprev[0] = NULL
  <2>1. 0 \in Blocks(h) /\ h.bprev[0] = NULL
    BY DEF Tiled
  <2>2. 0 # b /\ 0 # n
    BY <1>1, <1>2
  <2>3. g.bprev[0] = h.bprev[0]
    BY <2>2 DEF n
  <2> QED BY <1>5, <2>1, <2>2, <2>3
<1>8. ASSUME NEW x \in Blocks(g), NEW y \in Blocks(g), x < y
      PROVE  End(g, x) <= y
  <2>0. \A u, v \in Blocks(h) : u < v => End(h, u) <= v
    BY DEF Tiled
  <2>1. CASE x = a
    <3>1. y \in Blocks(h) /\ y # b /\ y \in Nat /\ b \in Nat
      BY <1>1, <1>5
    <3>2. End(h, a) <= y
      BY <1>8, <2>0, <2>1, <3>1
    <3>3. b < y
      BY <1>2, <3>1, <3>2
    <3> QED BY <1>4, <2>0, <2>1, <3>1, <3>3
  <2>2. CASE x # a
    <3>1. x \in Blocks(h) /\ y \in Blocks(h) /\ x \in Addr \ {a, b}
      BY <1>1, <1>5, <2>2
    <3> QED BY <1>3, <1>8, <2>0, <3>1
  <2> QED BY <2>1, <2>2
<1> QED BY <1>5, <1>6, <1>7, <1>8 DEF Tiled

\* The bytes in use when one block more is.
LEMMA UsedOne ==
  ASSUME NEW g, Shape(g), Tiled(g), NEW h, Shape(h), NEW b \in Allocated(g),
         Allocated(h) = Allocated(g) \ {b}, \A x \in Allocated(h) : Extent(h, x) = Extent(g, x)
  PROVE  Cardinality(BytesUsed(g)) = Cardinality(BytesUsed(h)) + Extent(g, b)
<1> USE Consts
<1> DEFINE R == b..(End(g, b) - 1)
<1>1. \A x \in Allocated(g) : /\ x \in Blocks(g) /\ x \in Addr /\ x \in Nat
                              /\ x < End(g, x) /\ End(g, x) <= PoolSize /\ End(g, x) \in Nat
  <2>1. \A x \in Allocated(g) : x \in Blocks(g) /\ x \in Addr /\ x \in Nat
    BY DEF Allocated, Blocks
  <2> QED BY <2>1, TileEnds
<1>2. \A x \in Allocated(h) : End(h, x) = End(g, x)
  BY DEF End
<1>3. BytesUsed(g) = BytesUsed(h) \cup R
  <2>1. BytesUsed(g) = UNION {x..(End(g, x) - 1) : x \in Allocated(g)}
    BY DEF BytesUsed
  <2>2. BytesUsed(h) = UNION {x..(End(g, x) - 1) : x \in Allocated(g) \ {b}}
    BY <1>2 DEF BytesUsed
  <2> QED BY <2>1, <2>2
<1>4. BytesUsed(h) \cap R = {}
  <2> SUFFICES ASSUME NEW x \in Allocated(h), NEW i \in x..(End(h, x) - 1), i \in R PROVE FALSE
    BY DEF BytesUsed
  <2>1. x \in Allocated(g) /\ x # b /\ End(h, x) = End(g, x) /\ x \in Nat /\ b \in Nat
        /\ x \in Blocks(g) /\ b \in Blocks(g)
    BY <1>1, <1>2
  <2>2. x < b => End(g, x) <= b
    BY <2>1 DEF Tiled
  <2>3. b < x => End(g, b) <= x
    BY <2>1 DEF Tiled
  <2> QED BY <1>1, <2>1, <2>2, <2>3
<1>5. IsFiniteSet(BytesUsed(h))
  <2>1. BytesUsed(h) \subseteq 0..(PoolSize - 1)
    <3> SUFFICES ASSUME NEW x \in Allocated(h), NEW i \in x..(End(h, x) - 1)
                 PROVE  i \in 0..(PoolSize - 1)
      BY DEF BytesUsed
    <3>1. x \in Nat /\ End(h, x) <= PoolSize /\ End(h, x) \in Nat
      BY <1>1, <1>2
    <3> QED BY <3>1
  <2>2. IsFiniteSet(0..(PoolSize - 1))
    BY FS_Interval
  <2> QED BY <2>1, <2>2, FS_Subset
<1>6. IsFiniteSet(R) /\ Cardinality(R) = Extent(g, b)
  <2>1. End(g, b) = b + Extent(g, b) /\ Extent(g, b) \in Nat /\ b \in Nat /\ Extent(g, b) # 0
    BY <1>1, ExtentIs
  <2>2. b \in Int /\ End(g, b) - 1 \in Int
    BY <2>1
  <2>3. IsFiniteSet(R) /\ Cardinality(R) = IF b > End(g, b) - 1 THEN 0 ELSE End(g, b) - 1 - b + 1
    BY <2>2, FS_Interval
  <2> QED BY <2>1, <2>3
<1>7. Cardinality(BytesUsed(h) \cap R) = 0
  BY <1>4, FS_EmptySet
<1>8. /\ Cardinality(BytesUsed(h) \cup R)
          = Cardinality(BytesUsed(h)) + Cardinality(R) - Cardinality(BytesUsed(h) \cap R)
      /\ Cardinality(BytesUsed(h)) \in Nat
  BY <1>5, <1>6, FS_Union, FS_CardinalityType
<1> HIDE DEF R
<1>9. Extent(g, b) \in Nat
  BY <1>1, ExtentIs
<1> QED BY <1>3, <1>6, <1>7, <1>8, <1>9

-----------------------------------------------------------------------------
(* What one call does to the heap. *)

\* Everything but the lists of the threads.
Core(h) ==
  /\ Shape(h) /\ Tiled(h) /\ Merged(h)
  /\ FreeSet(h, FreeBlocks(h))
  /\ h.total = Cardinality(BytesUsed(h))

\* b is in use in g besides what is in h.
Grown(g, h, b) ==
  /\ b \in Addr \ Allocated(h) /\ Allocated(g) = Allocated(h) \cup {b}
  /\ \A x \in Allocated(h) : g.size[x] = h.size[x]

LEMMA CoreSame ==
  ASSUME NEW h, Core(h), NEW g, Shape(g), SameBlocks(g, h), SameFree(g, h), g.total = h.total
  PROVE  /\ Core(g) /\ Allocated(g) = Allocated(h) /\ Blocks(g) = Blocks(h)
         /\ FreeBlocks(g) = FreeBlocks(h) /\ \A x : Extent(g, x) = Extent(h, x)
<1>1. /\ Allocated(g) = Allocated(h) /\ Blocks(g) = Blocks(h) /\ FreeBlocks(g) = FreeBlocks(h)
      /\ \A x : Extent(g, x) = Extent(h, x)
  BY DEF SameBlocks, Allocated, Blocks, FreeBlocks, Extent
<1>2. \A x : End(g, x) = End(h, x)
  BY <1>1 DEF End
<1>3. Tiled(g)
  BY <1>1, TileSame DEF Core, SameBlocks
<1>4. BytesUsed(g) = BytesUsed(h)
  BY <1>1, <1>2 DEF BytesUsed
<1>5. Merged(g)
  BY <1>1 DEF Core, Merged, SameBlocks
<1>6. FreeSet(g, FreeBlocks(g))
  BY <1>1 DEF Core, FreeSet, SameFree
<1> QED BY <1>1, <1>3, <1>4, <1>5, <1>6 DEF Core

LEMMA BlocksAre ==
  ASSUME NEW h, Shape(h)
  PROVE  /\ Blocks(h) = Allocated(h) \cup FreeBlocks(h)
         /\ Allocated(h) \cap FreeBlocks(h) = {} /\ Blocks(h) \subseteq Addr
         /\ \A x \in Allocated(h) : x \in Addr /\ h.size[x] \in Int /\ h.size[x] < 0
         /\ \A x \in FreeBlocks(h) : x \in Addr /\ h.size[x] \in Int /\ h.size[x] > 0
<1>1. \A x \in Addr : h.size[x] \in Int
  BY DEF Shape
<1> QED BY <1>1 DEF Blocks, Allocated, FreeBlocks

LEMMA FirstFitIs ==
  ASSUME NEW h, Shape(h), NEW S, FreeSet(h, S), NEW s
  PROVE  LET b == FirstFit(h, s)
         IN  b = NULL \/ (b \in S /\ h.size[b] >= s)
<1> DEFINE l == FreeList(h)
           fits == {i \in DOMAIN l : h.size[l[i]] >= s}
<1>1. /\ Len(l) \in Nat /\ DOMAIN l = 1..Len(l) /\ {l[i] : i \in DOMAIN l} = S
  BY WalkLinked DEF FreeSet, FreeList
<1>2. FirstFit(h, s) = IF fits = {} THEN NULL ELSE l[Min(fits)]
  BY DEF FirstFit
<1> HIDE DEF l
<1>3. CASE fits = {}
  <2>1. FirstFit(h, s) = NULL
    <3> HIDE DEF fits
    <3> QED BY <1>2, <1>3
  <2> QED BY <2>1
<1>4. CASE fits # {}
  <2>1. fits \in SUBSET Nat
    BY <1>1
  <2>2. Min(fits) \in fits
    <3> HIDE DEF fits
    <3> QED BY <1>4, <2>1, MinIs
  <2> DEFINE m == Min(fits)
  <2>3. m \in DOMAIN l /\ h.size[l[m]] >= s /\ FirstFit(h, s) = l[m]
    BY <1>2, <1>4, <2>2
  <2> HIDE DEF m, fits
  <2> QED BY <1>1, <2>3
<1> QED BY <1>3, <1>4

LEMMA SplitCore ==
  ASSUME NEW h, Core(h), NEW b \in FreeBlocks(h), NEW s \in Nat \ {0}, s < h.size[b]
  PROVE  LET g == Split(h, b, s)
             a == b + h.size[b] - s
         IN  Core(g) /\ SameOwners(g, h) /\ Grown(g, h, a) /\ Extent(g, a) = s
<1> USE Consts
<1> DEFINE g == Split(h, b, s)
           a == b + h.size[b] - s
<1>0. Shape(h) /\ b \in Blocks(h) /\ b \in Addr /\ h.size \in [Addr -> Int] /\ Tiled(h)
      /\ h.bnxt \in Links
  BY BlocksAre DEF Core, Shape
<1>1. /\ Shape(g) /\ Tiled(g) /\ SameFree(g, h) /\ SameOwners(g, h)
      /\ a \in Addr \ Blocks(h) /\ a # b
      /\ g.size = [h.size EXCEPT ![b] = h.size[b] - s, ![a] = -s]
      /\ g.bnxt = [h.bnxt EXCEPT ![b] = a, ![a] = h.bnxt[b]]
      /\ g.total = h.total + s
  BY <1>0, TileSplit
<1> HIDE DEF g, a
<1>2. /\ g.size[b] = h.size[b] - s /\ g.size[a] = -s
      /\ \A x \in Addr \ {a, b} : g.size[x] = h.size[x]
  BY <1>0, <1>1
<1>3. FreeBlocks(g) = FreeBlocks(h) /\ Allocated(g) = Allocated(h) \cup {a}
      /\ a \notin Allocated(h) /\ b \notin Allocated(h)
  <2>1. h.size[b] \in Int /\ h.size[b] > 0 /\ h.size[a] = 0
    BY <1>0, <1>1, BlocksAre DEF Blocks
  <2> QED BY <1>0, <1>1, <1>2, <2>1 DEF FreeBlocks, Allocated
<1>4. Extent(g, a) = s
  BY <1>2 DEF Extent
<1>5. Grown(g, h, a)
  <2>1. \A x \in Allocated(h) : x \in Addr \ {a, b}
    BY <1>3 DEF Allocated
  <2> QED BY <1>1, <1>2, <1>3, <2>1 DEF Grown
<1>6. Merged(g)
  <2> SUFFICES ASSUME NEW x \in FreeBlocks(h) PROVE g.bnxt[x] \notin FreeBlocks(h)
    BY <1>3 DEF Merged
  <2>1. x \in Addr /\ x # a /\ a \notin FreeBlocks(h)
    BY <1>0, <1>1, BlocksAre
  <2>2. CASE x = b
    BY <1>0, <1>1, <2>1, <2>2 DEF Links
  <2>3. CASE x # b
    <3>1. g.bnxt[x] = h.bnxt[x]
      BY <1>0, <1>1, <2>1, <2>3 DEF Links
    <3> QED BY <3>1 DEF Core, Merged
  <2> QED BY <2>2, <2>3
<1>7. FreeSet(g, FreeBlocks(g))
  BY <1>1, <1>3 DEF Core, FreeSet, SameFree
<1>8. g.total = Cardinality(BytesUsed(g))
  <2>1. \A x \in Allocated(h) : Extent(h, x) = Extent(g, x)
    BY <1>5 DEF Grown, Extent
  <2>2. a \in Allocated(g) /\ Allocated(h) = Allocated(g) \ {a}
    BY <1>3
  <2>3. Cardinality(BytesUsed(g)) = Cardinality(BytesUsed(h)) + Extent(g, a)
    BY <1>0, <1>1, <2>1, <2>2, UsedOne
  <2> QED BY <1>1, <1>4, <2>3 DEF Core
<1> QED BY <1>1, <1>4, <1>5, <1>6, <1>7, <1>8 DEF Core, g, a

LEMMA WholeCore ==
  ASSUME NEW h, Core(h), NEW b \in FreeBlocks(h)
  PROVE  LET g == TakeWhole(h, b)
         IN  Core(g) /\ SameOwners(g, h) /\ Grown(g, h, b) /\ Extent(g, b) = h.size[b]
<1> USE Consts
<1> DEFINE g == TakeWhole(h, b)
           u == REMOVE_FREE(h, b)
           n == h.fnxt[b]
           p == h.fprev[b]
           S == FreeBlocks(h)
<1>0. /\ Shape(h) /\ b \in Addr /\ h.size[b] \in Int /\ h.size[b] > 0 /\ FreeSet(h, S)
      /\ Tiled(h) /\ h.size \in [Addr -> Int] /\ h.total \in Int
  BY BlocksAre DEF Core, Shape
<1>1. Shape(u) /\ FreeSet(u, S \ {b}) /\ SameBlocks(u, h) /\ SameOwners(u, h) /\ u.total = h.total
  <2> HIDE DEF S, u
  <2> QED BY <1>0, RemoveFree DEF u, S
<1>2. g = [u EXCEPT !.total = @ + h.size[b], !.size[b] = -h.size[b],
                    !.fnxt[b] = NULL, !.fprev[b] = NULL]
  <2>1. p = NULL <=> b = h.first
    <3> HIDE DEF S
    <3> QED BY <1>0, LinkedFacts DEF FreeSet, S
  <2>2. CASE p = NULL
    <3>1. u = [h EXCEPT !.first = n, !.fprev = Put(h.fprev, n, NULL)]
      BY <2>1, <2>2 DEF REMOVE_FREE
    <3> HIDE DEF u
    <3> QED BY <2>2, <3>1 DEF TakeWhole
  <2>3. CASE p # NULL
    <3>1. u = [h EXCEPT !.fnxt[p] = n, !.fprev = Put(h.fprev, n, p)]
      BY <2>1, <2>3 DEF REMOVE_FREE
    <3> HIDE DEF u
    <3> QED BY <2>3, <3>1 DEF TakeWhole
  <2> QED BY <2>2, <2>3
<1> HIDE DEF u, g
<1>3. /\ Shape(g) /\ SameOwners(g, h) /\ g.total = h.total + h.size[b]
      /\ g.size = [h.size EXCEPT ![b] = -h.size[b]] /\ g.bnxt = h.bnxt /\ g.bprev = h.bprev
      /\ g.fnxt = [u.fnxt EXCEPT ![b] = NULL] /\ g.fprev = [u.fprev EXCEPT ![b] = NULL]
      /\ g.first = u.first
  <2> DEFINE Z == [h.size EXCEPT ![b] = -h.size[b]]
             F == [u.fnxt EXCEPT ![b] = NULL]
             P == [u.fprev EXCEPT ![b] = NULL]
             T == h.total + h.size[b]
  <2>1. Z \in [Addr -> Int] /\ F \in Links /\ P \in Links /\ T \in Int
    BY <1>0, <1>1 DEF Shape, Links
  <2>2. g = [u EXCEPT !.total = T, !.size = Z, !.fnxt = F, !.fprev = P]
    BY <1>1, <1>2 DEF SameBlocks
  <2> HIDE DEF Z, F, P, T
  <2>3. /\ Shape(g) /\ SameOwners(g, u) /\ g.total = T /\ g.size = Z /\ g.bnxt = u.bnxt
        /\ g.bprev = u.bprev /\ g.fnxt = F /\ g.fprev = P /\ g.first = u.first
    BY <1>1, <2>1, <2>2 DEF Shape, SameOwners
  <2> QED BY <1>1, <2>3 DEF SameOwners, SameBlocks, Z, F, P, T
<1>4. /\ FreeBlocks(g) = S \ {b} /\ Allocated(g) = Allocated(h) \cup {b} /\ b \notin Allocated(h)
      /\ Blocks(g) = Blocks(h)
  <2>1. g.size[b] = -h.size[b] /\ \A x \in Addr \ {b} : g.size[x] = h.size[x]
    BY <1>0, <1>3
  <2>2. g.size[b] < 0 /\ ~(g.size[b] > 0) /\ g.size[b] # 0 /\ ~(h.size[b] < 0) /\ h.size[b] # 0
    BY <1>0, <2>1
  <2>3. FreeBlocks(g) = S \ {b}
    BY <1>0, <2>1, <2>2 DEF FreeBlocks
  <2>4. Allocated(g) = Allocated(h) \cup {b} /\ b \notin Allocated(h)
    BY <1>0, <2>1, <2>2 DEF Allocated
  <2>5. Blocks(g) = Blocks(h)
    BY <1>0, <2>1, <2>2 DEF Blocks
  <2> QED BY <2>3, <2>4, <2>5
<1>5. Extent(g, b) = h.size[b] /\ \A x \in Addr : Extent(g, x) = Extent(h, x)
  BY <1>0, <1>3 DEF Extent
<1>6. Grown(g, h, b)
  BY <1>0, <1>3, <1>4 DEF Grown, Allocated
<1>7. Tiled(g)
  <2>1. \A x \in Blocks(h) : Extent(g, x) = Extent(h, x)
    BY <1>5 DEF Blocks
  <2> QED BY <1>0, <1>3, <1>4, <2>1, TileSame
<1>8. Merged(g)
  BY <1>3, <1>4 DEF Core, Merged
<1>9. FreeSet(g, FreeBlocks(g))
  <2>1. S \ {b} \subseteq Addr /\ u.fnxt \in Links /\ u.fprev \in Links
    BY <1>1 DEF FreeBlocks, Shape
  <2>2. \A x \in S \ {b} : g.fnxt[x] = u.fnxt[x] /\ g.fprev[x] = u.fprev[x]
    BY <1>3, <2>1 DEF Links
  <2>3. Linked(u.fnxt, u.fprev, u.first, S \ {b})
    BY <1>1 DEF FreeSet
  <2> HIDE DEF S
  <2>4. Linked(g.fnxt, g.fprev, u.first, S \ {b})
    BY <2>2, <2>3, LinkedSame
  <2> QED BY <1>3, <1>4, <2>4 DEF FreeSet
<1>10. g.total = Cardinality(BytesUsed(g))
  <2>1. \A x \in Allocated(h) : Extent(h, x) = Extent(g, x)
    BY <1>5 DEF Allocated
  <2>2. b \in Allocated(g) /\ Allocated(h) = Allocated(g) \ {b}
    BY <1>4
  <2>3. Cardinality(BytesUsed(g)) = Cardinality(BytesUsed(h)) + Extent(g, b)
    BY <1>0, <1>3, <1>7, <2>1, <2>2, UsedOne
  <2> QED BY <1>3, <1>5, <2>3 DEF Core
<1> QED BY <1>3, <1>5, <1>6, <1>7, <1>8, <1>9, <1>10 DEF Core, g

LEMMA DivMod ==
  ASSUME NEW x \in Nat, NEW d \in Nat \ {0}
  PROVE  /\ x = d * (x \div d) + (x % d) /\ x \div d \in Nat /\ x % d \in Nat /\ x % d < d
         /\ x < d => x % d = x
OBVIOUS

\* A request that does not wrap gets a block that holds it and the header.
LEMMA NeededIs ==
  ASSUME NEW n \in Nat, n + SizeQuant + HDR <= 2^Width
  PROVE  Needed(n) \in Nat \ {0} /\ Needed(n) >= n + HDR
<1> DEFINE U == 2^Width
           x == n + SizeQuant - 1
           q == x \div SizeQuant
           m == x % SizeQuant
           r == q * SizeQuant
<1>0. HDR \in Nat \ {0} /\ SizeQuant \in Nat \ {0} /\ U \in Nat
  BY Consts
<1>1. x \in Nat /\ U \in Nat \ {0} /\ x + HDR < U /\ x < U /\ x - (SizeQuant - 1) = n
  BY <1>0
<1>2. x % U = x
  <2> HIDE DEF x, U
  <2> QED BY <1>1, DivMod
<1>3. q \in Nat /\ x = SizeQuant * q + m /\ m \in Nat /\ m < SizeQuant
  <2> HIDE DEF x, U
  <2> QED BY <1>0, <1>1, DivMod
<1> HIDE DEF q, m, U
<1>4. r \in Nat /\ x = r + m
  <2>1. SizeQuant * q = q * SizeQuant /\ q * SizeQuant \in Nat
    BY <1>0, <1>3
  <2> QED BY <1>3, <2>1
<1>5. Needed(n) = (r + HDR) % U
  <2>1. Needed(n) = (((x % U) \div SizeQuant) * SizeQuant + HDR) % U
    BY DEF Needed, U
  <2> HIDE DEF x
  <2> QED BY <1>2, <2>1 DEF q
<1> HIDE DEF r, x
<1>6. r + HDR \in Nat \ {0} /\ r + HDR < U /\ r + HDR >= n + HDR
  BY <1>0, <1>1, <1>3, <1>4
<1>7. (r + HDR) % U = r + HDR
  BY <1>1, <1>6, DivMod
<1> QED BY <1>5, <1>6, <1>7

\* malloc and kmalloc hand out nothing, or a new block that is large enough.
LEMMA Malloc ==
  ASSUME NEW h, Core(h), ListsOf(h, Pid, Allocated(h)),
         NEW n \in Nat, n + SizeQuant + HDR <= 2^Width,
         NEW c \in Pid \cup {NULL}, NEW force
  PROVE  LET r == internalMalloc(h, n, c, force)
         IN  \/ r.b = NULL /\ r.h = h
             \/ /\ r.b \in Addr /\ Core(r.h) /\ Grown(r.h, h, r.b)
                /\ Extent(r.h, r.b) >= n + HDR
                /\ r.h.pid = [h.pid EXCEPT ![r.b] = OwnerFor(c, force)]
                /\ ListsOf(r.h, Pid, Allocated(r.h))
<1>0. HDR \in Nat /\ SizeQuant \in Nat /\ NULL \notin Addr
  BY Consts
<1> DEFINE r == internalMalloc(h, n, c, force)
           s == Needed(n)
           b == FirstFit(h, s)
           a == b + h.size[b] - s
<1>1. s \in Nat \ {0} /\ s >= n + HDR
  BY NeededIs
<1> HIDE DEF s
<1>2. CASE b = NULL
  <2>1. r = [h |-> h, b |-> NULL]
    BY <1>2 DEF internalMalloc, s
  <2>2. r.b = NULL /\ r.h = h
    BY <2>1
  <2> HIDE DEF r
  <2> QED BY <2>2 DEF r
<1>3. CASE b # NULL
  <2>1. b \in FreeBlocks(h) /\ h.size[b] >= s /\ h.size[b] \in Int /\ b \in Addr
    BY <1>0, <1>3, FirstFitIs, BlocksAre DEF Core
  <2> HIDE DEF b
  <2>2. \E g, x : /\ r = [h |-> thread_listAdd(g, x, c, force), b |-> x]
                  /\ Core(g) /\ SameOwners(g, h) /\ Grown(g, h, x) /\ Extent(g, x) >= s
    <3>1. CASE h.size[b] - s > SizeQuant + HDR
      <4>1. r = [h |-> thread_listAdd(Split(h, b, s), a, c, force), b |-> a]
        BY <1>3, <3>1 DEF internalMalloc, s, b
      <4>2. s < h.size[b]
        BY <1>0, <1>1, <2>1, <3>1
      <4>3. /\ Core(Split(h, b, s)) /\ SameOwners(Split(h, b, s), h)
            /\ Grown(Split(h, b, s), h, a) /\ Extent(Split(h, b, s), a) = s
        BY <1>1, <2>1, <4>2, SplitCore
      <4>4. Extent(Split(h, b, s), a) >= s
        BY <1>1, <4>3
      <4> HIDE DEF a, r
      <4> QED BY <4>1, <4>3, <4>4
    <3>2. CASE ~(h.size[b] - s > SizeQuant + HDR)
      <4>1. r = [h |-> thread_listAdd(TakeWhole(h, b), b, c, force), b |-> b]
        BY <1>3, <3>2 DEF internalMalloc, s, b
      <4>2. /\ Core(TakeWhole(h, b)) /\ SameOwners(TakeWhole(h, b), h)
            /\ Grown(TakeWhole(h, b), h, b) /\ Extent(TakeWhole(h, b), b) = h.size[b]
        BY <2>1, WholeCore
      <4>3. Extent(TakeWhole(h, b), b) >= s
        BY <2>1, <4>2
      <4> HIDE DEF r
      <4> QED BY <4>1, <4>2, <4>3
    <3> QED BY <3>1, <3>2
  <2> HIDE DEF a, r
  <2>3. PICK g, x : /\ r = [h |-> thread_listAdd(g, x, c, force), b |-> x]
                    /\ Core(g) /\ SameOwners(g, h) /\ Grown(g, h, x) /\ Extent(g, x) >= s
    BY <2>2
  <2>4. x \in Addr /\ Allocated(h) \in SUBSET (Addr \ {x}) /\ Shape(g)
        /\ Allocated(g) = Allocated(h) \cup {x}
    BY <2>3 DEF Grown, Core, Allocated
  <2>5. ListsOf(g, Pid, Allocated(h))
    BY <2>3, ListsSame DEF SameOwners
  <2> DEFINE k == thread_listAdd(g, x, c, force)
  <2>6. /\ Shape(k) /\ SameBlocks(k, g) /\ SameFree(k, g) /\ k.total = g.total
        /\ k.pid = [g.pid EXCEPT ![x] = OwnerFor(c, force)]
        /\ ListsOf(k, Pid, Allocated(h) \cup {x})
    <3> DEFINE A == Allocated(h)
    <3>1. A \in SUBSET (Addr \ {x}) /\ ListsOf(g, Pid, A) /\ Shape(g) /\ x \in Addr
      BY <2>4, <2>5
    <3> HIDE DEF A
    <3>2. /\ Shape(k) /\ SameBlocks(k, g) /\ SameFree(k, g) /\ k.total = g.total
          /\ k.pid = [g.pid EXCEPT ![x] = OwnerFor(c, force)]
          /\ ListsOf(k, Pid, A \cup {x})
      BY <3>1, ListAdd
    <3> QED BY <3>2 DEF A
  <2>7. r.h = k /\ r.b = x
    BY <2>3
  <2> HIDE DEF k
  <2>8. Core(k) /\ Allocated(k) = Allocated(g) /\ Extent(k, x) = Extent(g, x)
    BY <2>3, <2>6, CoreSame
  <2>9. Grown(k, h, x)
    BY <2>3, <2>6, <2>8 DEF Grown, SameBlocks
  <2>10. Extent(k, x) >= n + HDR
    <3>1. Extent(g, x) \in Nat
      BY <2>4, ExtentIs
    <3> QED BY <1>0, <1>1, <2>3, <2>8, <3>1
  <2>11. k.pid = [h.pid EXCEPT ![x] = OwnerFor(c, force)]
    BY <2>3, <2>6 DEF SameOwners
  <2>12. ListsOf(k, Pid, Allocated(k))
    BY <2>4, <2>6, <2>8
  <2> QED BY <2>4, <2>7, <2>8, <2>9, <2>10, <2>11, <2>12 DEF r
<1> QED BY <1>2, <1>3

\* The owner of b is gone from its header, the others and the heads are not touched.
Disowned(g, h, b) ==
  /\ g.pid = [h.pid EXCEPT ![b] = NULL] /\ g.lnxt = [h.lnxt EXCEPT ![b] = NULL]
  /\ g.lprev = [h.lprev EXCEPT ![b] = NULL] /\ g.head = h.head

\* internalFree before it looks at the neighbours.
Freed(h, b) ==
  [h EXCEPT !.size[b] = -@, !.total = @ + h.size[b],
            !.pid[b] = NULL, !.lnxt[b] = NULL, !.lprev[b] = NULL]

LEMMA FreedIs ==
  ASSUME NEW h, Core(h), NEW b \in Allocated(h)
  PROVE  LET f == Freed(h, b)
         IN  /\ Shape(f) /\ Tiled(f) /\ Blocks(f) = Blocks(h) /\ SameFree(f, h)
             /\ f.size = [h.size EXCEPT ![b] = -h.size[b]] /\ f.size[b] > 0
             /\ f.bnxt = h.bnxt /\ f.bprev = h.bprev /\ Disowned(f, h, b)
             /\ f.total = h.total + h.size[b]
             /\ FreeBlocks(f) = FreeBlocks(h) \cup {b} /\ Allocated(f) = Allocated(h) \ {b}
             /\ b \in Addr /\ b \in Blocks(h) /\ b \notin FreeBlocks(h)
<1> DEFINE f == Freed(h, b)
           Z == [h.size EXCEPT ![b] = -h.size[b]]
           D == [h.pid EXCEPT ![b] = NULL]
           L == [h.lnxt EXCEPT ![b] = NULL]
           P == [h.lprev EXCEPT ![b] = NULL]
           T == h.total + h.size[b]
<1>0. /\ Shape(h) /\ Tiled(h) /\ b \in Addr /\ h.size[b] \in Int /\ h.size[b] < 0
      /\ h.size \in [Addr -> Int] /\ h.total \in Int /\ h.lnxt \in Links /\ h.lprev \in Links
      /\ h.pid \in [Addr -> Pid \cup {NULL}]
  BY BlocksAre DEF Core, Shape
<1>1. Z \in [Addr -> Int] /\ L \in Links /\ P \in Links /\ T \in Int /\ D \in [Addr -> Pid \cup {NULL}]
  BY <1>0 DEF Links
<1>2. f = [h EXCEPT !.size = Z, !.total = T, !.pid = D, !.lnxt = L, !.lprev = P]
  BY DEF Freed
<1>3. /\ Shape(f) /\ f.size = Z /\ f.total = T /\ f.pid = D /\ f.lnxt = L /\ f.lprev = P
      /\ f.head = h.head /\ f.bnxt = h.bnxt /\ f.bprev = h.bprev /\ SameFree(f, h)
  <2> HIDE DEF f, Z, D, L, P, T
  <2> QED BY <1>0, <1>1, <1>2 DEF Shape, SameFree
<1> HIDE DEF f
<1>4. Disowned(f, h, b)
  BY <1>3 DEF Disowned
<1>5. f.size[b] = -h.size[b] /\ \A x \in Addr \ {b} : f.size[x] = h.size[x]
  BY <1>0, <1>3
<1>6. f.size[b] > 0 /\ ~(f.size[b] < 0) /\ f.size[b] # 0 /\ ~(h.size[b] > 0) /\ h.size[b] # 0
  BY <1>0, <1>5
<1>7. Blocks(f) = Blocks(h) /\ b \in Blocks(h)
  BY <1>0, <1>5, <1>6 DEF Blocks
<1>8. FreeBlocks(f) = FreeBlocks(h) \cup {b} /\ b \notin FreeBlocks(h)
  BY <1>0, <1>5, <1>6 DEF FreeBlocks
<1>9. Allocated(f) = Allocated(h) \ {b}
  BY <1>0, <1>5, <1>6 DEF Allocated
<1>10. Tiled(f)
  <2>1. Extent(f, b) = Extent(h, b)
    BY <1>0, <1>5, <1>6 DEF Extent
  <2>2. \A x \in Blocks(h) : Extent(f, x) = Extent(h, x)
    BY <1>5, <2>1 DEF Blocks, Extent
  <2> QED BY <1>0, <1>3, <1>7, <2>2, TileSame
<1> QED BY <1>0, <1>3, <1>4, <1>6, <1>7, <1>8, <1>9, <1>10 DEF f

LEMMA MergeIs ==
  ASSUME NEW h, Shape(h), NEW a \in Addr, NEW b \in Addr
  PROVE  LET g == MERGE_BLOCK(h, a, b)
         IN  /\ Shape(g) /\ SameFree(g, h) /\ SameOwners(g, h) /\ g.total = h.total
             /\ g.size = [h.size EXCEPT ![a] = h.size[a] + h.size[b]]
             /\ g.bnxt = [h.bnxt EXCEPT ![a] = h.bnxt[b]]
             /\ g.bprev = Put(h.bprev, h.bnxt[b], a)
<1> USE Consts
<1> DEFINE g == MERGE_BLOCK(h, a, b)
           Z == [h.size EXCEPT ![a] = h.size[a] + h.size[b]]
           F == [h.bnxt EXCEPT ![a] = h.bnxt[b]]
           P == Put(h.bprev, h.bnxt[b], a)
<1>1. Z \in [Addr -> Int] /\ F \in Links
  BY DEF Shape, Links
<1>2. P \in Links
  <2>1. h.bprev \in Links /\ h.bnxt[b] \in Addr \cup {NULL}
    BY DEF Shape, Links
  <2> QED BY <2>1, PutType
<1>3. g = [h EXCEPT !.bnxt = F, !.bprev = P, !.size = Z]
  BY DEF MERGE_BLOCK
<1>4. /\ Shape(g) /\ SameFree(g, h) /\ SameOwners(g, h) /\ g.total = h.total
      /\ g.size = Z /\ g.bnxt = F /\ g.bprev = P
  <2> HIDE DEF g, Z, F, P
  <2> QED BY <1>1, <1>2, <1>3 DEF Shape, SameFree, SameOwners
<1> QED BY <1>4

LEMMA ForgetIs ==
  ASSUME NEW h, Shape(h), NEW S, FreeSet(h, S), NEW b \in Addr \ S
  PROVE  LET g == Forget(h, b)
         IN  /\ Shape(g) /\ FreeSet(g, S) /\ SameOwners(g, h) /\ g.total = h.total
             /\ g.size = [h.size EXCEPT ![b] = 0]
             /\ g.bnxt = [h.bnxt EXCEPT ![b] = NULL] /\ g.bprev = [h.bprev EXCEPT ![b] = NULL]
<1> DEFINE g == Forget(h, b)
           Z == [h.size EXCEPT ![b] = 0]
           N == [h.bnxt EXCEPT ![b] = NULL]
           P == [h.bprev EXCEPT ![b] = NULL]
           F == [h.fnxt EXCEPT ![b] = NULL]
           B == [h.fprev EXCEPT ![b] = NULL]
<1>1. Z \in [Addr -> Int] /\ N \in Links /\ P \in Links /\ F \in Links /\ B \in Links
  BY DEF Shape, Links
<1>2. g = [h EXCEPT !.size = Z, !.bnxt = N, !.bprev = P, !.fnxt = F, !.fprev = B]
  BY DEF Forget
<1>3. /\ Shape(g) /\ SameOwners(g, h) /\ g.total = h.total /\ g.first = h.first
      /\ g.size = Z /\ g.bnxt = N /\ g.bprev = P /\ g.fnxt = F /\ g.fprev = B
  <2> HIDE DEF g, Z, N, P, F, B
  <2> QED BY <1>1, <1>2 DEF Shape, SameOwners
<1> HIDE DEF g
<1>4. FreeSet(g, S)
  <2>1. Linked(h.fnxt, h.fprev, h.first, S)
    BY DEF FreeSet
  <2>2. S \subseteq Addr /\ h.fnxt \in Links /\ h.fprev \in Links
    BY <2>1, LinkedFacts DEF Shape
  <2>3. \A x \in S : g.fnxt[x] = h.fnxt[x] /\ g.fprev[x] = h.fprev[x]
    BY <1>3, <2>2 DEF Links
  <2>4. Linked(g.fnxt, g.fprev, h.first, S)
    BY <2>1, <2>3, LinkedSame
  <2> QED BY <1>3, <2>4 DEF FreeSet
<1> QED BY <1>3, <1>4 DEF g

\* What is left to say once b is free and merged.
LEMMA Finish ==
  ASSUME NEW h, Core(h), NEW b \in Allocated(h), NEW g, Shape(g), Tiled(g), Merged(g),
         FreeSet(g, FreeBlocks(g)), g.total = h.total + h.size[b],
         Allocated(g) = Allocated(h) \ {b}, \A x \in Allocated(g) : g.size[x] = h.size[x]
  PROVE  Core(g)
<1>1. \A x \in Allocated(g) : Extent(g, x) = Extent(h, x)
  BY DEF Extent
<1>2. Shape(h) /\ Tiled(h) /\ h.total = Cardinality(BytesUsed(h)) /\ h.total \in Int
  BY DEF Core, Shape
<1>3. Cardinality(BytesUsed(h)) = Cardinality(BytesUsed(g)) + Extent(h, b)
  BY <1>1, <1>2, UsedOne
<1>4. h.size[b] \in Int /\ Extent(h, b) = -h.size[b]
  BY <1>2, BlocksAre DEF Extent
<1>5. g.total = Cardinality(BytesUsed(g))
  <2>1. IsFiniteSet(BytesUsed(g))
    <3>1. BytesUsed(g) \subseteq 0..(PoolSize - 1)
      <4> SUFFICES ASSUME NEW x \in Allocated(g), NEW i \in x..(End(g, x) - 1)
                   PROVE  i \in 0..(PoolSize - 1)
        BY DEF BytesUsed
      <4>1. x \in Blocks(g) /\ x \in Addr
        BY BlocksAre
      <4>2. End(g, x) <= PoolSize /\ End(g, x) \in Nat
        BY <4>1, TileEnds
      <4> QED BY <4>1, <4>2, Consts
    <3>2. IsFiniteSet(0..(PoolSize - 1))
      BY FS_Interval, Consts
    <3> QED BY <3>1, <3>2, FS_Subset
  <2>2. Cardinality(BytesUsed(g)) \in Nat
    BY <2>1, FS_CardinalityType
  <2> QED BY <1>2, <1>3, <1>4, <2>2
<1> QED BY <1>5 DEF Core

\* The blocks on either side of b.
LEMMA Neighbours ==
  ASSUME NEW h, Core(h), NEW b \in Blocks(h)
  PROVE  LET p == h.bprev[b]
             n == h.bnxt[b]
         IN  /\ p \in Addr \cup {NULL} /\ n \in Addr \cup {NULL} /\ b \in Addr
             /\ p # NULL => p \in Blocks(h) /\ h.bnxt[p] = b /\ p # b
             /\ n # NULL => n \in Blocks(h) /\ h.bprev[n] = b /\ n # b
             /\ p # NULL /\ n # NULL => p # n
             /\ IsFree(h, p) <=> p \in FreeBlocks(h)
             /\ IsFree(h, n) <=> n \in FreeBlocks(h)
<1> DEFINE p == h.bprev[b]
           n == h.bnxt[b]
<1>0. Shape(h) /\ Tiled(h) /\ NULL \notin Addr /\ Blocks(h) \subseteq Addr /\ Addr \subseteq Nat
      /\ PoolSize \notin Addr
  BY Consts, BlocksAre DEF Core, Addr
<1>1. /\ b \in Addr /\ b < End(h, b) /\ p \in Addr \cup {NULL} /\ n \in Addr \cup {NULL}
      /\ n # NULL => n = End(h, b) /\ n \in Blocks(h) /\ h.bprev[n] = b
  BY <1>0, TileEnds
<1>2. ASSUME p # NULL PROVE p \in Blocks(h) /\ h.bnxt[p] = b /\ p < b
  <2>1. b # 0
    BY <1>2 DEF Tiled, Core
  <2>2. p \in Blocks(h) /\ End(h, p) = b /\ p < b
    BY <1>0, <2>1, TileBehind
  <2>3. h.bnxt[p] = End(h, p)
    BY <1>0, <1>1, <2>2 DEF Tiled
  <2> QED BY <2>2, <2>3
<1> HIDE DEF p, n
<1>3. /\ p # NULL => p # b /\ p \in Nat
      /\ n # NULL => n # b /\ b < n /\ n \in Nat /\ b \in Nat
  BY <1>0, <1>1, <1>2
<1>4. p # NULL /\ n # NULL => p # n
  BY <1>1, <1>2, <1>3
<1>5. \A x \in Addr : x \in Blocks(h) => (h.size[x] >= 0 <=> x \in FreeBlocks(h))
  <2>1. \A x \in Addr : h.size[x] \in Int
    BY <1>0 DEF Shape
  <2> QED BY <2>1 DEF Blocks, FreeBlocks
<1>6. NULL \notin FreeBlocks(h)
  BY <1>0 DEF FreeBlocks
<1>7. (IsFree(h, p) <=> p \in FreeBlocks(h)) /\ (IsFree(h, n) <=> n \in FreeBlocks(h))
  BY <1>1, <1>2, <1>5, <1>6 DEF IsFree
<1> QED BY <1>1, <1>2, <1>3, <1>4, <1>7 DEF p, n

\* b is not in use in g any more, and the others are as in h.
Released(g, h, b) ==
  /\ Core(g) /\ Disowned(g, h, b)
  /\ Allocated(g) = Allocated(h) \ {b} /\ \A x \in Allocated(g) : g.size[x] = h.size[x]

LEMMA FreeAlone ==
  ASSUME NEW h, Core(h), NEW b \in Allocated(h),
         h.bprev[b] \notin FreeBlocks(h), h.bnxt[b] \notin FreeBlocks(h)
  PROVE  Released(INSERT_FREE(Freed(h, b), b), h, b)
<1> DEFINE f == Freed(h, b)
           g == INSERT_FREE(f, b)
           S == FreeBlocks(h)
<1>1. /\ Shape(f) /\ Tiled(f) /\ Blocks(f) = Blocks(h) /\ SameFree(f, h)
      /\ f.size = [h.size EXCEPT ![b] = -h.size[b]]
      /\ f.bnxt = h.bnxt /\ f.bprev = h.bprev /\ Disowned(f, h, b)
      /\ f.total = h.total + h.size[b]
      /\ FreeBlocks(f) = FreeBlocks(h) \cup {b} /\ Allocated(f) = Allocated(h) \ {b}
      /\ b \in Addr /\ b \in Blocks(h) /\ b \notin FreeBlocks(h)
  BY FreedIs
<1> HIDE DEF f
<1>2. FreeSet(f, S)
  BY <1>1 DEF Core, FreeSet, SameFree
<1>3. /\ Shape(g) /\ FreeSet(g, S \cup {b}) /\ SameBlocks(g, f) /\ SameOwners(g, f)
      /\ g.total = f.total
  <2> HIDE DEF S, g
  <2> QED BY <1>1, <1>2, InsertFree DEF S, g
<1> HIDE DEF g
<1>4. Disowned(g, h, b)
  BY <1>1, <1>3 DEF Disowned, SameOwners
<1>5. Allocated(g) = Allocated(f) /\ FreeBlocks(g) = FreeBlocks(f) /\ Blocks(g) = Blocks(f)
  BY <1>3 DEF SameBlocks, Allocated, FreeBlocks, Blocks
<1>6. Tiled(g)
  <2>1. \A x \in Blocks(f) : Extent(g, x) = Extent(f, x)
    BY <1>3 DEF SameBlocks, Extent
  <2> QED BY <1>1, <1>3, <1>5, <2>1, TileSame DEF SameBlocks
<1>7. \A x \in Allocated(g) : g.size[x] = h.size[x]
  BY <1>1, <1>3, <1>5 DEF SameBlocks, Allocated, Core, Shape
<1>8. Merged(g)
  <2> SUFFICES ASSUME NEW x \in S \cup {b} PROVE h.bnxt[x] \notin S \cup {b}
    BY <1>1, <1>3, <1>5 DEF Merged, SameBlocks
  <2>1. x \in Blocks(h)
    BY <1>1, BlocksAre DEF Core
  <2>2. h.bnxt[x] # b \/ x = h.bprev[b]
    <3>1. b # NULL
      BY <1>1, Consts
    <3>2. h.bnxt[x] # NULL => h.bprev[h.bnxt[x]] = x
      BY <2>1, Neighbours
    <3> QED BY <3>1, <3>2
  <2>3. CASE x = b
    BY <1>1, <2>1, <2>3, Neighbours, Consts
  <2>4. CASE x # b
    BY <2>2, <2>4 DEF Core, Merged
  <2> QED BY <2>3, <2>4
<1>9. Core(g)
  BY <1>1, <1>3, <1>5, <1>6, <1>7, <1>8, Finish
<1> QED BY <1>1, <1>4, <1>5, <1>7, <1>9 DEF Released, g, f

\* b is merged with the free block p before it.
LEMMA FreeBack ==
  ASSUME NEW h, Core(h), NEW b \in Allocated(h), NEW p, p = h.bprev[b],
         p \in FreeBlocks(h), h.bnxt[b] \notin FreeBlocks(h)
  PROVE  Released(Forget(INSERT_FREE(REMOVE_FREE(MERGE_BLOCK(Freed(h, b), p, b), p), p), b), h, b)
<1> DEFINE f == Freed(h, b)
           m == MERGE_BLOCK(f, p, b)
           u == REMOVE_FREE(m, p)
           i == INSERT_FREE(u, p)
           g == Forget(i, b)
           S == FreeBlocks(h)
           n == h.bnxt[b]
<1>1. /\ Shape(f) /\ Tiled(f) /\ Blocks(f) = Blocks(h) /\ SameFree(f, h)
      /\ f.size = [h.size EXCEPT ![b] = -h.size[b]] /\ f.size[b] > 0
      /\ f.bnxt = h.bnxt /\ f.bprev = h.bprev /\ Disowned(f, h, b)
      /\ f.total = h.total + h.size[b]
      /\ FreeBlocks(f) = S \cup {b} /\ Allocated(f) = Allocated(h) \ {b}
      /\ b \in Addr /\ b \in Blocks(h) /\ b \notin S
  BY FreedIs
<1> HIDE DEF f
<1>2. /\ p \in Blocks(h) /\ p \in Addr /\ h.bnxt[p] = b /\ p # b
      /\ n \in Addr \cup {NULL} /\ (n # NULL => n \in Blocks(h) /\ n # b /\ n # p)
  BY <1>1, BlocksAre, Neighbours, Consts DEF Core
<1>3. /\ Shape(m) /\ SameFree(m, f) /\ SameOwners(m, f) /\ m.total = f.total
      /\ m.size = [f.size EXCEPT ![p] = f.size[p] + f.size[b]]
      /\ m.bnxt = [f.bnxt EXCEPT ![p] = f.bnxt[b]]
      /\ m.bprev = Put(f.bprev, f.bnxt[b], p)
  <2>1. Shape(f) /\ p \in Addr /\ b \in Addr
    BY <1>1, <1>2
  <2> QED BY <2>1, MergeIs
<1> HIDE DEF m
<1>4. FreeSet(m, S)
  BY <1>1, <1>3 DEF Core, FreeSet, SameFree
<1>5. Shape(u) /\ FreeSet(u, S \ {p}) /\ SameBlocks(u, m) /\ SameOwners(u, m) /\ u.total = m.total
  <2> HIDE DEF S, u
  <2> QED BY <1>3, <1>4, RemoveFree DEF S, u
<1> HIDE DEF u
<1>6. Shape(i) /\ FreeSet(i, S) /\ SameBlocks(i, u) /\ SameOwners(i, u) /\ i.total = u.total
  <2>1. p \in Addr \ (S \ {p}) /\ (S \ {p}) \cup {p} = S
    BY <1>2
  <2> DEFINE SS == S \ {p}
  <2> HIDE DEF SS, i
  <2>2. Shape(i) /\ FreeSet(i, SS \cup {p}) /\ SameBlocks(i, u) /\ SameOwners(i, u) /\ i.total = u.total
    BY <1>5, <2>1, InsertFree DEF SS, i
  <2> QED BY <2>1, <2>2 DEF SS
<1> HIDE DEF i
<1>7. /\ Shape(g) /\ FreeSet(g, S) /\ SameOwners(g, i) /\ g.total = i.total
      /\ g.size = [i.size EXCEPT ![b] = 0]
      /\ g.bnxt = [i.bnxt EXCEPT ![b] = NULL] /\ g.bprev = [i.bprev EXCEPT ![b] = NULL]
  <2> DEFINE SS == S
  <2>1. b \in Addr \ SS /\ FreeSet(i, SS) /\ Shape(i)
    BY <1>1, <1>6
  <2> HIDE DEF SS, g
  <2>2. /\ Shape(g) /\ FreeSet(g, SS) /\ SameOwners(g, i) /\ g.total = i.total
        /\ g.size = [i.size EXCEPT ![b] = 0]
        /\ g.bnxt = [i.bnxt EXCEPT ![b] = NULL] /\ g.bprev = [i.bprev EXCEPT ![b] = NULL]
    BY ONLY <2>1, ForgetIs DEF g
  <2> QED BY <2>2 DEF SS
<1> HIDE DEF g
<1>8. Disowned(g, h, b)
  BY <1>1, <1>3, <1>5, <1>6, <1>7 DEF Disowned, SameOwners
<1>9. /\ g.size = [[f.size EXCEPT ![p] = f.size[p] + f.size[b]] EXCEPT ![b] = 0]
      /\ g.bnxt = [[h.bnxt EXCEPT ![p] = n] EXCEPT ![b] = NULL]
      /\ g.bprev = [Put(h.bprev, n, p) EXCEPT ![b] = NULL]
      /\ g.total = h.total + h.size[b]
  BY <1>1, <1>3, <1>5, <1>6, <1>7 DEF SameBlocks
<1>10. /\ f.size \in [Addr -> Int] /\ h.bnxt \in Links /\ h.bprev \in Links
       /\ h.size \in [Addr -> Int]
  BY <1>1 DEF Shape, Core
<1>11. /\ g.size[b] = 0 /\ g.size[p] = f.size[p] + f.size[b]
       /\ \A x \in Addr \ {p, b} : g.size[x] = h.size[x] /\ f.size[x] = h.size[x]
       /\ f.size[p] > 0 /\ f.size[p] \in Int /\ f.size[b] \in Int
  <2>1. h.size[p] > 0
    BY DEF FreeBlocks
  <2>2. f.size[p] = h.size[p]
    BY <1>1, <1>2, <1>10
  <2> QED BY <1>1, <1>2, <1>9, <1>10, <2>1, <2>2
<1>12. /\ \A x \in Addr \ {p, b} : g.bnxt[x] = h.bnxt[x]
       /\ g.bnxt[p] = n
       /\ \A x \in Addr \ {b} : g.bprev[x] = IF x = n THEN p ELSE h.bprev[x]
  <2>1. Put(h.bprev, n, p) \in Links /\ \A x \in Addr : Put(h.bprev, n, p)[x] = IF x = n THEN p ELSE h.bprev[x]
    <3> HIDE DEF n
    <3> QED BY <1>2, <1>10, Consts DEF Put, Links
  <2> HIDE DEF n
  <2> QED BY <1>1, <1>2, <1>9, <1>10, <2>1 DEF Links
<1>13. Tiled(g) /\ Blocks(g) = Blocks(h) \ {b}
  <2>1. Extent(g, p) = Extent(f, p) + Extent(f, b) /\ Extent(g, b) = 0
    BY <1>1, <1>11 DEF Extent
  <2>2. \A x \in Addr \ {p, b} : Extent(g, x) = Extent(f, x)
    BY <1>11 DEF Extent
  <2> HIDE DEF n
  <2>3. \A x \in Addr \ {p, b} : g.bnxt[x] = f.bnxt[x]
    BY <1>1, <1>12
  <2>4. f.bnxt[p] = b /\ g.bnxt[p] = f.bnxt[b] /\ p \in Blocks(f) /\ b \in Blocks(f)
    BY <1>1, <1>2, <1>12 DEF n
  <2>5. \A x \in Addr \ {b} : g.bprev[x] = IF x = f.bnxt[b] THEN p ELSE f.bprev[x]
    BY <1>1, <1>12 DEF n
  <2>6. Shape(f) /\ Tiled(f) /\ Shape(g)
    BY <1>1, <1>7
  <2>7. Tiled(g) /\ Blocks(g) = Blocks(f) \ {b}
    BY <2>1, <2>2, <2>3, <2>4, <2>5, <2>6, TileMerge
  <2> QED BY <1>1, <2>7
<1>14. FreeBlocks(g) = S /\ Allocated(g) = Allocated(h) \ {b}
  <2>1. g.size[p] > 0 /\ ~(g.size[p] < 0) /\ ~(g.size[b] > 0) /\ ~(g.size[b] < 0)
    BY <1>1, <1>11
  <2>2. p \notin Allocated(h)
    BY BlocksAre DEF Core
  <2>3. \A x \in Addr : x \in FreeBlocks(g) <=> x \in S
    BY <1>1, <1>11, <2>1 DEF FreeBlocks
  <2>4. \A x \in Addr : x \in Allocated(g) <=> x \in Allocated(h) \ {b}
    BY <1>1, <1>11, <2>1, <2>2 DEF Allocated
  <2> QED BY <2>3, <2>4 DEF FreeBlocks, Allocated
<1>15. \A x \in Allocated(g) : g.size[x] = h.size[x]
  <2>1. \A x \in Allocated(g) : x \in Addr \ {p, b}
    BY <1>14, BlocksAre DEF Core
  <2> QED BY <1>11, <2>1
<1>16. Merged(g)
  <2> SUFFICES ASSUME NEW x \in S PROVE g.bnxt[x] \notin S
    BY <1>14 DEF Merged
  <2>1. CASE x = p
    BY <1>12, <2>1
  <2>2. CASE x # p
    <3>1. x \in Addr \ {p, b}
      BY <1>1, <2>2, BlocksAre DEF Core
    <3> QED BY <1>12, <3>1 DEF Core, Merged
  <2> QED BY <2>1, <2>2
<1>17. Core(g)
  <2>1. /\ Shape(g) /\ Tiled(g) /\ FreeSet(g, FreeBlocks(g)) /\ g.total = h.total + h.size[b]
        /\ Allocated(g) = Allocated(h) \ {b}
    BY <1>7, <1>9, <1>13, <1>14
  <2> QED BY <1>15, <1>16, <2>1, Finish
<1> QED BY <1>8, <1>14, <1>15, <1>17 DEF Released, g, i, u, m, f

\* b is merged with the free block n after it.
LEMMA FreeFront ==
  ASSUME NEW h, Core(h), NEW b \in Allocated(h), NEW n, n = h.bnxt[b],
         n \in FreeBlocks(h), h.bprev[b] \notin FreeBlocks(h)
  PROVE  Released(Forget(INSERT_FREE(REMOVE_FREE(MERGE_BLOCK(Freed(h, b), b, n), n), b), n), h, b)
<1> DEFINE f == Freed(h, b)
           m == MERGE_BLOCK(f, b, n)
           u == REMOVE_FREE(m, n)
           i == INSERT_FREE(u, b)
           g == Forget(i, n)
           S == FreeBlocks(h)
           R == S \ {n}
           q == h.bnxt[n]
<1>1. /\ Shape(f) /\ Tiled(f) /\ Blocks(f) = Blocks(h) /\ SameFree(f, h)
      /\ f.size = [h.size EXCEPT ![b] = -h.size[b]] /\ f.size[b] > 0
      /\ f.bnxt = h.bnxt /\ f.bprev = h.bprev /\ Disowned(f, h, b)
      /\ f.total = h.total + h.size[b]
      /\ FreeBlocks(f) = S \cup {b} /\ Allocated(f) = Allocated(h) \ {b}
      /\ b \in Addr /\ b \in Blocks(h) /\ b \notin S
  BY FreedIs
<1> HIDE DEF f
<1>2. /\ n \in Blocks(h) /\ n \in Addr /\ n # b /\ h.bprev[n] = b
      /\ q \in Addr \cup {NULL} /\ (q # NULL => q \in Blocks(h) /\ q # n /\ h.bprev[q] = n)
      /\ q # b
  <2>1. n \in Blocks(h) /\ n \in Addr /\ n # b /\ h.bprev[n] = b
    BY <1>1, BlocksAre, Neighbours, Consts DEF Core
  <2>2. q \in Addr \cup {NULL} /\ (q # NULL => q \in Blocks(h) /\ q # n /\ h.bprev[q] = n)
    BY <2>1, Neighbours
  <2>3. q # b
    BY <1>1, <2>1, <2>2, Consts
  <2> QED BY <2>1, <2>2, <2>3
<1>3. /\ Shape(m) /\ SameFree(m, f) /\ SameOwners(m, f) /\ m.total = f.total
      /\ m.size = [f.size EXCEPT ![b] = f.size[b] + f.size[n]]
      /\ m.bnxt = [f.bnxt EXCEPT ![b] = f.bnxt[n]]
      /\ m.bprev = Put(f.bprev, f.bnxt[n], b)
  <2>1. Shape(f) /\ n \in Addr /\ b \in Addr
    BY <1>1, <1>2
  <2> QED BY <2>1, MergeIs
<1> HIDE DEF m
<1>4. FreeSet(m, S)
  BY <1>1, <1>3 DEF Core, FreeSet, SameFree
<1>5. Shape(u) /\ FreeSet(u, R) /\ SameBlocks(u, m) /\ SameOwners(u, m) /\ u.total = m.total
  <2> HIDE DEF S, u
  <2> QED BY <1>3, <1>4, RemoveFree DEF S, u
<1> HIDE DEF u
<1>6. Shape(i) /\ FreeSet(i, R \cup {b}) /\ SameBlocks(i, u) /\ SameOwners(i, u) /\ i.total = u.total
  <2>1. b \in Addr \ R
    BY <1>1
  <2> HIDE DEF R, i
  <2> QED BY <1>5, <2>1, InsertFree DEF i
<1> HIDE DEF i
<1>7. /\ Shape(g) /\ FreeSet(g, R \cup {b}) /\ SameOwners(g, i) /\ g.total = i.total
      /\ g.size = [i.size EXCEPT ![n] = 0]
      /\ g.bnxt = [i.bnxt EXCEPT ![n] = NULL] /\ g.bprev = [i.bprev EXCEPT ![n] = NULL]
  <2> DEFINE SS == R \cup {b}
  <2>1. n \in Addr \ SS /\ FreeSet(i, SS) /\ Shape(i)
    BY <1>2, <1>6
  <2> HIDE DEF SS, g
  <2>2. /\ Shape(g) /\ FreeSet(g, SS) /\ SameOwners(g, i) /\ g.total = i.total
        /\ g.size = [i.size EXCEPT ![n] = 0]
        /\ g.bnxt = [i.bnxt EXCEPT ![n] = NULL] /\ g.bprev = [i.bprev EXCEPT ![n] = NULL]
    BY <2>1, ForgetIs DEF g
  <2> QED BY <2>2 DEF SS
<1> HIDE DEF g
<1>8. Disowned(g, h, b)
  BY <1>1, <1>3, <1>5, <1>6, <1>7 DEF Disowned, SameOwners
<1>9. /\ g.size = [[f.size EXCEPT ![b] = f.size[b] + f.size[n]] EXCEPT ![n] = 0]
      /\ g.bnxt = [[h.bnxt EXCEPT ![b] = q] EXCEPT ![n] = NULL]
      /\ g.bprev = [Put(h.bprev, q, b) EXCEPT ![n] = NULL]
      /\ g.total = h.total + h.size[b]
  BY <1>1, <1>3, <1>5, <1>6, <1>7 DEF SameBlocks
<1>10. /\ f.size \in [Addr -> Int] /\ h.bnxt \in Links /\ h.bprev \in Links
       /\ h.size \in [Addr -> Int]
  BY <1>1 DEF Shape, Core
<1>11. /\ g.size[n] = 0 /\ g.size[b] = f.size[b] + f.size[n]
       /\ \A x \in Addr \ {b, n} : g.size[x] = h.size[x] /\ f.size[x] = h.size[x]
       /\ f.size[n] > 0 /\ f.size[n] \in Int /\ f.size[b] \in Int
  <2>1. h.size[n] > 0
    BY DEF FreeBlocks
  <2>2. f.size[n] = h.size[n]
    BY <1>1, <1>2, <1>10
  <2> QED BY <1>1, <1>2, <1>9, <1>10, <2>1, <2>2
<1>12. /\ \A x \in Addr \ {b, n} : g.bnxt[x] = h.bnxt[x]
       /\ g.bnxt[b] = q
       /\ \A x \in Addr \ {n} : g.bprev[x] = IF x = q THEN b ELSE h.bprev[x]
  <2>1. Put(h.bprev, q, b) \in Links /\ \A x \in Addr : Put(h.bprev, q, b)[x] = IF x = q THEN b ELSE h.bprev[x]
    <3> HIDE DEF q
    <3> QED BY <1>1, <1>2, <1>10, Consts DEF Put, Links
  <2> HIDE DEF q
  <2> QED BY <1>1, <1>2, <1>9, <1>10, <2>1 DEF Links
<1>13. Tiled(g) /\ Blocks(g) = Blocks(h) \ {n}
  <2>1. Extent(g, b) = Extent(f, b) + Extent(f, n) /\ Extent(g, n) = 0
    BY <1>1, <1>11 DEF Extent
  <2>2. \A x \in Addr \ {b, n} : Extent(g, x) = Extent(f, x)
    BY <1>11 DEF Extent
  <2> HIDE DEF q
  <2>3. \A x \in Addr \ {b, n} : g.bnxt[x] = f.bnxt[x]
    BY <1>1, <1>12
  <2>4. f.bnxt[b] = n /\ g.bnxt[b] = f.bnxt[n] /\ n \in Blocks(f) /\ b \in Blocks(f)
    BY <1>1, <1>2, <1>12 DEF q
  <2>5. \A x \in Addr \ {n} : g.bprev[x] = IF x = f.bnxt[n] THEN b ELSE f.bprev[x]
    BY <1>1, <1>12 DEF q
  <2>6. Shape(f) /\ Tiled(f) /\ Shape(g)
    BY <1>1, <1>7
  <2>7. Tiled(g) /\ Blocks(g) = Blocks(f) \ {n}
    BY <2>1, <2>2, <2>3, <2>4, <2>5, <2>6, TileMerge
  <2> QED BY <1>1, <2>7
<1>14. FreeBlocks(g) = R \cup {b} /\ Allocated(g) = Allocated(h) \ {b}
  <2>1. g.size[b] > 0 /\ ~(g.size[b] < 0) /\ ~(g.size[n] > 0) /\ ~(g.size[n] < 0)
    BY <1>1, <1>11
  <2>2. n \notin Allocated(h)
    BY BlocksAre DEF Core
  <2>3. \A x \in Addr : x \in FreeBlocks(g) <=> x \in R \cup {b}
    BY <1>1, <1>2, <1>11, <2>1 DEF FreeBlocks
  <2>4. \A x \in Addr : x \in Allocated(g) <=> x \in Allocated(h) \ {b}
    BY <1>1, <1>11, <2>1, <2>2 DEF Allocated
  <2>5. R \cup {b} \subseteq Addr
    BY <1>1 DEF FreeBlocks
  <2> QED BY <2>3, <2>4, <2>5 DEF FreeBlocks, Allocated
<1>15. \A x \in Allocated(g) : g.size[x] = h.size[x]
  <2>1. \A x \in Allocated(g) : x \in Addr \ {n, b}
    BY <1>14, BlocksAre DEF Core
  <2> QED BY <1>11, <2>1
<1>16. Merged(g)
  <2> SUFFICES ASSUME NEW x \in R \cup {b} PROVE g.bnxt[x] \notin R \cup {b}
    BY <1>14 DEF Merged
  <2>1. CASE x = b
    <3>1. q \notin S
      BY DEF Core, Merged
    <3> QED BY <1>2, <1>12, <2>1, <3>1
  <2>2. CASE x # b
    <3>1. x \in Addr \ {b, n} /\ x \in Blocks(h) /\ x \in S
      BY <1>1, <2>2, BlocksAre DEF Core
    <3>2. h.bnxt[x] \notin S
      BY <3>1 DEF Core, Merged
    <3>3. h.bnxt[x] # b
      <4>1. b # NULL
        BY <1>1, Consts
      <4>2. h.bnxt[x] # NULL => h.bprev[h.bnxt[x]] = x
        BY <3>1, Neighbours
      <4> QED BY <3>1, <4>1, <4>2
    <3> QED BY <1>12, <3>1, <3>2, <3>3
  <2> QED BY <2>1, <2>2
<1>17. Core(g)
  <2>1. /\ Shape(g) /\ Tiled(g) /\ FreeSet(g, FreeBlocks(g)) /\ g.total = h.total + h.size[b]
        /\ Allocated(g) = Allocated(h) \ {b}
    BY <1>7, <1>9, <1>13, <1>14
  <2> QED BY <1>15, <1>16, <2>1, Finish
<1> QED BY <1>8, <1>14, <1>15, <1>17 DEF Released, g, i, u, m, f

\* b is merged with the free blocks p before it and n after it.
LEMMA FreeBoth ==
  ASSUME NEW h, Core(h), NEW b \in Allocated(h), NEW p, p = h.bprev[b], NEW n, n = h.bnxt[b],
         p \in FreeBlocks(h), n \in FreeBlocks(h)
  PROVE  LET m == MERGE_BLOCK(MERGE_BLOCK(Freed(h, b), p, b), p, n)
         IN  Released(Forget(Forget(INSERT_FREE(REMOVE_FREE(REMOVE_FREE(m, p), n), p), n), b), h, b)
<1> DEFINE f == Freed(h, b)
           w == MERGE_BLOCK(f, p, b)
           e == Forget(w, b)
           m == MERGE_BLOCK(w, p, n)
           v == REMOVE_FREE(m, p)
           u == REMOVE_FREE(v, n)
           i == INSERT_FREE(u, p)
           k == Forget(i, n)
           g == Forget(k, b)
           S == FreeBlocks(h)
           R == S \ {n}
           q == h.bnxt[n]
<1>1. /\ Shape(f) /\ Tiled(f) /\ Blocks(f) = Blocks(h) /\ SameFree(f, h)
      /\ f.size = [h.size EXCEPT ![b] = -h.size[b]] /\ f.size[b] > 0
      /\ f.bnxt = h.bnxt /\ f.bprev = h.bprev /\ Disowned(f, h, b)
      /\ f.total = h.total + h.size[b]
      /\ FreeBlocks(f) = S \cup {b} /\ Allocated(f) = Allocated(h) \ {b}
      /\ b \in Addr /\ b \in Blocks(h) /\ b \notin S
  BY FreedIs
<1> HIDE DEF f
<1>2. /\ n \in Blocks(h) /\ n \in Addr /\ n # b /\ h.bprev[n] = b
      /\ p \in Blocks(h) /\ p \in Addr /\ p # b /\ h.bnxt[p] = b /\ p # n
      /\ q \in Addr \cup {NULL} /\ (q # NULL => q \in Blocks(h) /\ q # n /\ h.bprev[q] = n)
      /\ q # b /\ q # n
  <2>1. /\ n \in Blocks(h) /\ n \in Addr /\ n # b /\ h.bprev[n] = b
        /\ p \in Blocks(h) /\ p \in Addr /\ p # b /\ h.bnxt[p] = b /\ p # n
    BY <1>1, BlocksAre, Neighbours, Consts DEF Core
  <2>2. q \in Addr \cup {NULL} /\ (q # NULL => q \in Blocks(h) /\ q # n /\ h.bprev[q] = n)
    BY <2>1, Neighbours
  <2>3. b # NULL /\ n # NULL
    BY <1>1, <2>1, Consts
  <2>4. q # b /\ q # n
    BY <2>1, <2>2, <2>3
  <2> QED BY <2>1, <2>2, <2>4
<1>3. /\ Shape(w) /\ SameFree(w, f) /\ SameOwners(w, f) /\ w.total = f.total
      /\ w.size = [f.size EXCEPT ![p] = f.size[p] + f.size[b]]
      /\ w.bnxt = [f.bnxt EXCEPT ![p] = f.bnxt[b]]
      /\ w.bprev = Put(f.bprev, f.bnxt[b], p)
  <2>1. Shape(f) /\ p \in Addr /\ b \in Addr
    BY <1>1, <1>2
  <2> QED BY <2>1, MergeIs
<1> HIDE DEF w
<1>4. /\ Shape(m) /\ SameFree(m, w) /\ SameOwners(m, w) /\ m.total = w.total
      /\ m.size = [w.size EXCEPT ![p] = w.size[p] + w.size[n]]
      /\ m.bnxt = [w.bnxt EXCEPT ![p] = w.bnxt[n]]
      /\ m.bprev = Put(w.bprev, w.bnxt[n], p)
  <2>1. Shape(w) /\ p \in Addr /\ n \in Addr
    BY <1>2, <1>3
  <2> QED BY <2>1, MergeIs
<1> HIDE DEF m
<1>5. FreeSet(m, S) /\ FreeSet(w, S)
  BY <1>1, <1>3, <1>4 DEF Core, FreeSet, SameFree
<1>6. Shape(v) /\ FreeSet(v, S \ {p}) /\ SameBlocks(v, m) /\ SameOwners(v, m) /\ v.total = m.total
  <2> HIDE DEF S, v
  <2> QED BY <1>4, <1>5, RemoveFree DEF S, v
<1> HIDE DEF v
<1>7. Shape(u) /\ FreeSet(u, (S \ {p}) \ {n}) /\ SameBlocks(u, v) /\ SameOwners(u, v)
      /\ u.total = v.total
  <2> DEFINE SS == S \ {p}
  <2>1. Shape(v) /\ FreeSet(v, SS) /\ n \in SS
    BY <1>2, <1>6
  <2> HIDE DEF SS, u
  <2>2. Shape(u) /\ FreeSet(u, SS \ {n}) /\ SameBlocks(u, v) /\ SameOwners(u, v)
        /\ u.total = v.total
    BY <2>1, RemoveFree DEF u
  <2> QED BY <2>2 DEF SS
<1> HIDE DEF u
<1>8. Shape(i) /\ FreeSet(i, R) /\ SameBlocks(i, u) /\ SameOwners(i, u) /\ i.total = u.total
  <2> DEFINE SS == (S \ {p}) \ {n}
  <2>1. p \in Addr \ SS /\ SS \cup {p} = R
    BY <1>2
  <2>2. FreeSet(u, SS) /\ Shape(u)
    BY <1>7
  <2> HIDE DEF SS, i
  <2>3. Shape(i) /\ FreeSet(i, SS \cup {p}) /\ SameBlocks(i, u) /\ SameOwners(i, u) /\ i.total = u.total
    BY <2>1, <2>2, InsertFree DEF i
  <2> QED BY <2>1, <2>3
<1> HIDE DEF i
<1>9. /\ Shape(k) /\ FreeSet(k, R) /\ SameOwners(k, i) /\ k.total = i.total
      /\ k.size = [i.size EXCEPT ![n] = 0]
      /\ k.bnxt = [i.bnxt EXCEPT ![n] = NULL] /\ k.bprev = [i.bprev EXCEPT ![n] = NULL]
  <2>1. n \in Addr \ R
    BY <1>2
  <2> HIDE DEF R, k
  <2> QED BY <1>8, <2>1, ForgetIs DEF k
<1> HIDE DEF k
<1>10. /\ Shape(g) /\ FreeSet(g, R) /\ SameOwners(g, k) /\ g.total = k.total
       /\ g.size = [k.size EXCEPT ![b] = 0]
       /\ g.bnxt = [k.bnxt EXCEPT ![b] = NULL] /\ g.bprev = [k.bprev EXCEPT ![b] = NULL]
  <2>1. Shape(k) /\ FreeSet(k, R) /\ b \in Addr \ R
    BY <1>1, <1>9
  <2> HIDE DEF R, g
  <2> QED BY <2>1, ForgetIs DEF g
<1> HIDE DEF g
<1>11. /\ Shape(e) /\ e.size = [w.size EXCEPT ![b] = 0]
       /\ e.bnxt = [w.bnxt EXCEPT ![b] = NULL] /\ e.bprev = [w.bprev EXCEPT ![b] = NULL]
  <2>1. Shape(w) /\ FreeSet(w, S) /\ b \in Addr \ S
    BY <1>1, <1>3, <1>5
  <2> HIDE DEF S, e
  <2> QED BY <2>1, ForgetIs DEF e
<1> HIDE DEF e
<1>12. Disowned(g, h, b)
  BY <1>1, <1>3, <1>4, <1>6, <1>7, <1>8, <1>9, <1>10 DEF Disowned, SameOwners
<1>13. /\ g.size = [[m.size EXCEPT ![n] = 0] EXCEPT ![b] = 0]
       /\ g.bnxt = [[m.bnxt EXCEPT ![n] = NULL] EXCEPT ![b] = NULL]
       /\ g.bprev = [[m.bprev EXCEPT ![n] = NULL] EXCEPT ![b] = NULL]
       /\ g.total = h.total + h.size[b]
  BY <1>1, <1>3, <1>4, <1>6, <1>7, <1>8, <1>9, <1>10 DEF SameBlocks
<1>14. /\ f.size \in [Addr -> Int] /\ h.bnxt \in Links /\ h.bprev \in Links
       /\ h.size \in [Addr -> Int] /\ w.size \in [Addr -> Int] /\ w.bnxt \in Links
       /\ w.bprev \in Links /\ m.size \in [Addr -> Int] /\ m.bnxt \in Links /\ m.bprev \in Links
  BY <1>1, <1>3, <1>4 DEF Shape, Core
<1>15. /\ f.size[p] > 0 /\ f.size[p] \in Int /\ f.size[b] \in Int
       /\ f.size[n] > 0 /\ f.size[n] \in Int
       /\ \A x \in Addr \ {b} : f.size[x] = h.size[x]
  <2>1. h.size[p] > 0 /\ h.size[n] > 0
    BY DEF FreeBlocks
  <2>2. \A x \in Addr \ {b} : f.size[x] = h.size[x]
    BY <1>1, <1>14
  <2> QED BY <1>1, <1>2, <1>14, <2>1, <2>2
<1>16. /\ e.size[b] = 0 /\ e.size[p] = f.size[p] + f.size[b]
       /\ \A x \in Addr \ {p, b} : e.size[x] = f.size[x]
       /\ g.size[b] = 0 /\ g.size[n] = 0
       /\ g.size[p] = (f.size[p] + f.size[b]) + f.size[n]
       /\ \A x \in Addr \ {p, b, n} : g.size[x] = f.size[x]
  <2>1. /\ w.size[p] = f.size[p] + f.size[b]
        /\ \A x \in Addr \ {p} : w.size[x] = f.size[x]
    BY <1>2, <1>3, <1>14
  <2>2. /\ m.size[p] = (f.size[p] + f.size[b]) + f.size[n]
        /\ \A x \in Addr \ {p} : m.size[x] = f.size[x]
    BY <1>2, <1>4, <1>14, <2>1
  <2>3. /\ e.size[b] = 0 /\ \A x \in Addr \ {b} : e.size[x] = w.size[x]
    BY <1>1, <1>11, <1>14
  <2>4. /\ g.size[b] = 0 /\ g.size[n] = 0 /\ \A x \in Addr \ {b, n} : g.size[x] = m.size[x]
    BY <1>1, <1>2, <1>13, <1>14
  <2> QED BY <1>1, <1>2, <2>1, <2>2, <2>3, <2>4
<1>17. /\ e.bnxt[p] = n /\ e.bnxt[b] = NULL /\ e.bnxt[n] = q
       /\ \A x \in Addr \ {p, b} : e.bnxt[x] = h.bnxt[x]
       /\ g.bnxt[p] = q /\ g.bnxt[b] = NULL
       /\ \A x \in Addr \ {p, b, n} : g.bnxt[x] = h.bnxt[x]
  <2>1. w.bnxt[p] = n /\ \A x \in Addr \ {p} : w.bnxt[x] = h.bnxt[x]
    BY <1>1, <1>2, <1>3, <1>14 DEF Links
  <2>2. m.bnxt[p] = q /\ \A x \in Addr \ {p} : m.bnxt[x] = h.bnxt[x]
    BY <1>2, <1>4, <1>14, <2>1 DEF Links
  <2>3. e.bnxt[b] = NULL /\ \A x \in Addr \ {b} : e.bnxt[x] = w.bnxt[x]
    BY <1>1, <1>11, <1>14 DEF Links
  <2>4. g.bnxt[b] = NULL /\ \A x \in Addr \ {b, n} : g.bnxt[x] = m.bnxt[x]
    BY <1>1, <1>2, <1>13, <1>14 DEF Links
  <2> HIDE DEF q
  <2> QED BY <1>1, <1>2, <2>1, <2>2, <2>3, <2>4 DEF q
<1>18. /\ e.bprev[b] = NULL
       /\ \A x \in Addr \ {b} : e.bprev[x] = IF x = n THEN p ELSE h.bprev[x]
       /\ g.bprev[b] = NULL
       /\ \A x \in Addr \ {b, n} : g.bprev[x] = IF x = q THEN p ELSE h.bprev[x]
  <2>1. w.bnxt[n] = q
    BY <1>1, <1>2, <1>3, <1>14 DEF Links
  <2>2. \A x \in Addr : w.bprev[x] = IF x = n THEN p ELSE h.bprev[x]
    BY <1>1, <1>2, <1>3, <1>14, Consts DEF Put, Links
  <2>3. \A x \in Addr : m.bprev[x] = IF x = q THEN p ELSE w.bprev[x]
    <3> HIDE DEF q
    <3>1. m.bprev = Put(w.bprev, q, p)
      BY <1>4, <2>1
    <3> QED BY <1>2, <1>14, <3>1, Consts DEF Put, Links
  <2>4. e.bprev[b] = NULL /\ \A x \in Addr \ {b} : e.bprev[x] = w.bprev[x]
    BY <1>1, <1>11, <1>14 DEF Links
  <2>5. g.bprev[b] = NULL /\ \A x \in Addr \ {b, n} : g.bprev[x] = m.bprev[x]
    BY <1>1, <1>2, <1>13, <1>14 DEF Links
  <2> HIDE DEF q
  <2> QED BY <2>2, <2>3, <2>4, <2>5
<1> HIDE DEF q
<1>19. Tiled(e) /\ Blocks(e) = Blocks(h) \ {b}
  <2>1. Extent(e, p) = Extent(f, p) + Extent(f, b) /\ Extent(e, b) = 0
    BY <1>1, <1>15, <1>16 DEF Extent
  <2>2. \A x \in Addr \ {p, b} : Extent(e, x) = Extent(f, x) /\ e.bnxt[x] = f.bnxt[x]
    BY <1>1, <1>16, <1>17 DEF Extent
  <2>3. f.bnxt[p] = b /\ e.bnxt[p] = f.bnxt[b] /\ p \in Blocks(f) /\ b \in Blocks(f)
    BY <1>1, <1>2, <1>17
  <2>4. \A x \in Addr \ {b} : e.bprev[x] = IF x = f.bnxt[b] THEN p ELSE f.bprev[x]
    BY <1>1, <1>18
  <2>5. Shape(f) /\ Tiled(f) /\ Shape(e)
    BY <1>1, <1>11
  <2>6. Tiled(e) /\ Blocks(e) = Blocks(f) \ {b}
    BY <2>1, <2>2, <2>3, <2>4, <2>5, TileMerge
  <2> QED BY <1>1, <2>6
<1>20. Tiled(g)
  <2>1. Extent(g, p) = Extent(e, p) + Extent(e, n) /\ Extent(g, n) = 0
    <3>1. e.size[n] = f.size[n]
      BY <1>2, <1>16
    <3> QED BY <1>1, <1>15, <1>16, <3>1 DEF Extent
  <2>2. \A x \in Addr \ {p, n} : Extent(g, x) = Extent(e, x) /\ g.bnxt[x] = e.bnxt[x]
    BY <1>16, <1>17 DEF Extent
  <2>3. e.bnxt[p] = n /\ g.bnxt[p] = e.bnxt[n] /\ p \in Blocks(e) /\ n \in Blocks(e)
    BY <1>2, <1>17, <1>19
  <2>4. \A x \in Addr \ {n} : g.bprev[x] = IF x = e.bnxt[n] THEN p ELSE e.bprev[x]
    BY <1>2, <1>17, <1>18
  <2>5. Shape(e) /\ Tiled(e) /\ Shape(g)
    BY <1>10, <1>11, <1>19
  <2> QED BY <2>1, <2>2, <2>3, <2>4, <2>5, TileMerge
<1>21. FreeBlocks(g) = R /\ Allocated(g) = Allocated(h) \ {b}
  <2>1. /\ g.size[p] > 0 /\ ~(g.size[p] < 0) /\ ~(g.size[b] > 0) /\ ~(g.size[b] < 0)
        /\ ~(g.size[n] > 0) /\ ~(g.size[n] < 0)
    BY <1>1, <1>15, <1>16
  <2>2. p \notin Allocated(h) /\ n \notin Allocated(h)
    BY BlocksAre DEF Core
  <2>3. \A x \in Addr \ {p, b, n} : g.size[x] = h.size[x]
    BY <1>15, <1>16
  <2>4. \A x \in Addr : x \in FreeBlocks(g) <=> x \in R
    BY <1>1, <1>2, <2>1, <2>3 DEF FreeBlocks
  <2>5. \A x \in Addr : x \in Allocated(g) <=> x \in Allocated(h) \ {b}
    BY <2>1, <2>2, <2>3 DEF Allocated
  <2> QED BY <2>4, <2>5 DEF FreeBlocks, Allocated
<1>22. \A x \in Allocated(g) : g.size[x] = h.size[x]
  <2>1. \A x \in Allocated(g) : x \in Addr \ {p, b, n}
    BY <1>21, BlocksAre DEF Core
  <2> QED BY <1>15, <1>16, <2>1
<1>23. Merged(g)
  <2> SUFFICES ASSUME NEW x \in R PROVE g.bnxt[x] \notin S
    BY <1>21 DEF Merged
  <2>1. CASE x = p
    BY <1>17, <2>1 DEF Core, Merged, q
  <2>2. CASE x # p
    <3>1. x \in Addr \ {p, b, n}
      BY <1>1, <2>2, BlocksAre DEF Core
    <3> QED BY <1>17, <3>1 DEF Core, Merged
  <2> QED BY <2>1, <2>2
<1>24. Core(g)
  <2>1. /\ Shape(g) /\ Tiled(g) /\ FreeSet(g, FreeBlocks(g)) /\ g.total = h.total + h.size[b]
        /\ Allocated(g) = Allocated(h) \ {b}
    BY <1>10, <1>13, <1>20, <1>21
  <2> QED BY <1>22, <1>23, <2>1, Finish
<1> QED BY <1>12, <1>21, <1>22, <1>24 DEF Released, g, k, i, u, v, m, w, f

LEMMA InternalFree ==
  ASSUME NEW h, Core(h), NEW b \in Allocated(h)
  PROVE  Released(internalFree(h, b), h, b)
<1> DEFINE p == h.bprev[b]
           n == h.bnxt[b]
           S == FreeBlocks(h)
<1>1. ~(h.size[b] >= 0) /\ (IsFree(h, p) <=> p \in S) /\ (IsFree(h, n) <=> n \in S)
  <2>1. b \in Blocks(h) /\ h.size[b] < 0 /\ h.size[b] \in Int
    BY BlocksAre DEF Core
  <2> QED BY <2>1, Neighbours
<1>2. CASE p \in S /\ n \in S
  <2>1. internalFree(h, b) =
          Forget(Forget(INSERT_FREE(REMOVE_FREE(REMOVE_FREE(
            MERGE_BLOCK(MERGE_BLOCK(Freed(h, b), p, b), p, n), p), n), p), n), b)
    BY <1>1, <1>2 DEF internalFree, Freed
  <2> HIDE DEF p, n, S
  <2> QED BY <1>2, <2>1, FreeBoth DEF p, n, S
<1>3. CASE p \in S /\ n \notin S
  <2>1. internalFree(h, b) =
          Forget(INSERT_FREE(REMOVE_FREE(MERGE_BLOCK(Freed(h, b), p, b), p), p), b)
    BY <1>1, <1>3 DEF internalFree, Freed
  <2> HIDE DEF p, n, S
  <2> QED BY <1>3, <2>1, FreeBack DEF p, n, S
<1>4. CASE p \notin S /\ n \in S
  <2>1. internalFree(h, b) =
          Forget(INSERT_FREE(REMOVE_FREE(MERGE_BLOCK(Freed(h, b), b, n), n), b), n)
    BY <1>1, <1>4 DEF internalFree, Freed
  <2> HIDE DEF p, n, S
  <2> QED BY <1>4, <2>1, FreeFront DEF p, n, S
<1>5. CASE p \notin S /\ n \notin S
  <2>1. internalFree(h, b) = INSERT_FREE(Freed(h, b), b)
    BY <1>1, <1>5 DEF internalFree, Freed
  <2> QED BY <1>5, <2>1, FreeAlone
<1> QED BY <1>2, <1>3, <1>4, <1>5

\* The blocks of B are not in use any more, the others are as they were.
Shrunk(g, h, B) ==
  /\ Allocated(g) = Allocated(h) \ B
  /\ \A x \in Allocated(g) : g.size[x] = h.size[x] /\ g.pid[x] = h.pid[x]

\* Take off the owner's list and free: what free and kfree do.
LEMMA RmAndFree ==
  ASSUME NEW h, Core(h), NEW T \in SUBSET Pid, ListsOf(h, T, Allocated(h)),
         NEW b \in Allocated(h), NEW c \in Pid, NEW force,
         h.pid[b] \in T, h.pid[b] \in {c, KERNEL}
  PROVE  LET g == internalFree(thread_listRm(h, b, c, force), b)
         IN  Core(g) /\ ListsOf(g, T, Allocated(g)) /\ Shrunk(g, h, {b})
<1> DEFINE k == thread_listRm(h, b, c, force)
           g == internalFree(k, b)
           A == Allocated(h)
<1>1. Shape(k) /\ SameBlocks(k, h) /\ SameFree(k, h) /\ k.total = h.total
      /\ k.pid = h.pid /\ ListsOf(k, T, A \ {b})
  <2>1. Shape(h) /\ A \in SUBSET Addr /\ b \in A /\ ListsOf(h, T, A)
    BY DEF Core, Allocated
  <2> HIDE DEF A, k
  <2> QED BY <2>1, ListRm DEF k
<1> HIDE DEF k
<1>2. Core(k) /\ Allocated(k) = A
  BY <1>1, CoreSame
<1>3. Released(g, k, b)
  BY <1>2, InternalFree
<1> HIDE DEF g
<1>4. /\ Core(g) /\ g.head = k.head /\ Allocated(g) = A \ {b}
      /\ g.pid = [h.pid EXCEPT ![b] = NULL] /\ g.lnxt = [k.lnxt EXCEPT ![b] = NULL]
      /\ g.lprev = [k.lprev EXCEPT ![b] = NULL]
      /\ \A x \in Allocated(g) : g.size[x] = k.size[x]
  BY <1>1, <1>2, <1>3 DEF Released, Disowned
<1>5. /\ \A x \in Allocated(g) : x \in Addr /\ x # b
      /\ h.pid \in [Addr -> Pid \cup {NULL}] /\ k.lnxt \in Links /\ k.lprev \in Links
  BY <1>1, <1>4 DEF Allocated, Shape, Core
<1>6. Shrunk(g, h, {b})
  BY <1>1, <1>4, <1>5 DEF Shrunk, SameBlocks
<1>7. \A x \in A \ {b} : g.pid[x] = k.pid[x] /\ g.lnxt[x] = k.lnxt[x] /\ g.lprev[x] = k.lprev[x]
  BY <1>1, <1>4, <1>5 DEF Links
<1>8. ListsOf(g, T, A \ {b})
  <2> DEFINE AA == A \ {b}
  <2>1. ListsOf(k, T, AA) /\ g.head = k.head
        /\ \A x \in AA : g.pid[x] = k.pid[x] /\ g.lnxt[x] = k.lnxt[x] /\ g.lprev[x] = k.lprev[x]
    BY <1>1, <1>4, <1>7
  <2> HIDE DEF AA
  <2>2. ListsOf(g, T, AA)
    BY <2>1, ListsSame
  <2> QED BY <2>2 DEF AA
<1> QED BY <1>4, <1>6, <1>8 DEF g, k

\* thread_listFree frees all that t owns, and nothing else.
LEMMA ListFree ==
  ASSUME NEW h, Core(h), ListsOf(h, Pid, Allocated(h)), NEW t \in Pid
  PROVE  LET g == thread_listFree(h, t)
         IN  /\ Core(g) /\ ListsOf(g, Pid \ {t}, Allocated(g))
             /\ Shrunk(g, h, OwnedIn(h, Allocated(h), t))
<1> DEFINE A == Allocated(h)
           l == OwnedBy(h, t)
           n == Len(l)
           Turn(f, i) == IF i = 0 THEN h ELSE internalFree(f[i - 1], l[i])
           F == CHOOSE f : f = [i \in 0..n |-> Turn(f, i)]
           g == thread_listFree(h, t)
<1>1. /\ n \in Nat /\ DOMAIN l = 1..n /\ {l[i] : i \in 1..n} = OwnedIn(h, A, t)
      /\ \A i, j \in 1..n : l[i] = l[j] => i = j
  <2>1. Linked(h.lnxt, h.lprev, h.head[t], OwnedIn(h, A, t))
    BY DEF ListsOf
  <2> HIDE DEF A
  <2> QED BY <2>1, WalkLinked DEF OwnedBy
<1>2. g = F[n]
  BY DEF thread_listFree
<1> HIDE DEF l, g, n
<1>3. \E f : f = [i \in 0..n |-> Turn(f, i)]
  <2> DEFINE Bad == {m \in 0..n : ~ \E f : f = [i \in 0..m |-> Turn(f, i)]}
  <2>1. CASE Bad = {}
    <3>1. n \in 0..n
      BY <1>1
    <3> QED BY <2>1, <3>1
  <2>2. CASE Bad # {}
    <3>1. PICK m \in Bad : \A k \in Bad : m <= k
      <4>1. Bad \in SUBSET Nat
        BY <1>1
      <4> HIDE DEF Bad
      <4> QED BY <2>2, <4>1, Least
    <3>2. m # 0
      <4> SUFFICES ASSUME m = 0 PROVE FALSE
        OBVIOUS
      <4> DEFINE f == [i \in 0..0 |-> h]
      <4>1. f = [i \in 0..0 |-> Turn(f, i)]
        OBVIOUS
      <4> QED BY <3>1, <4>1
    <3>3. m \in 1..n /\ m - 1 \in 0..n /\ ~(m <= m - 1)
      BY <1>1, <3>1, <3>2
    <3>4. PICK f : f = [i \in 0..(m - 1) |-> Turn(f, i)]
      BY <3>1, <3>3
    <3> DEFINE e == [i \in 0..m |-> IF i = m THEN Turn(f, m) ELSE f[i]]
    <3>5. e = [i \in 0..m |-> Turn(e, i)]
      <4> SUFFICES ASSUME NEW i \in 0..m PROVE e[i] = Turn(e, i)
        BY Zenon
      <4>1. CASE i = m
        <5>1. e[m - 1] = f[m - 1] /\ m # 0
          BY <3>3
        <5> QED BY <4>1, <5>1
      <4>2. CASE i # m /\ i # 0
        <5>1. i \in 0..(m - 1) /\ i - 1 \in 0..m /\ i - 1 # m
          BY <3>3, <4>2
        <5>2. f[i] = internalFree(f[i - 1], l[i])
          BY <3>4, <4>2, <5>1
        <5>3. e[i] = f[i] /\ e[i - 1] = f[i - 1]
          BY <4>2, <5>1
        <5> QED BY <4>2, <5>2, <5>3
      <4>3. CASE i # m /\ i = 0
        <5>1. 0 \in 0..(m - 1)
          BY <3>3
        <5>2. f[0] = h
          BY <3>4, <5>1
        <5> QED BY <4>3, <5>2
      <4> QED BY <4>1, <4>2, <4>3
    <3> HIDE DEF e
    <3> QED BY <3>1, <3>5
  <2> QED BY <2>1, <2>2
<1>4. F = [i \in 0..n |-> Turn(F, i)]
  BY <1>3
<1> HIDE DEF F
<1> DEFINE Gone(i) == {l[j] : j \in 1..i}
           Good(f, i) == /\ Core(f) /\ f.head = h.head /\ Allocated(f) = A \ Gone(i)
                         /\ \A x \in Allocated(f) : /\ f.size[x] = h.size[x] /\ f.pid[x] = h.pid[x]
                                                    /\ f.lnxt[x] = h.lnxt[x]
                                                    /\ f.lprev[x] = h.lprev[x]
<1>5. ASSUME NEW f, NEW i \in 1..n, Good(f, i - 1)
      PROVE  Good(internalFree(f, l[i]), i)
  <2> DEFINE b == l[i]
             e == internalFree(f, b)
  <2>1. b \in A /\ b \notin Gone(i - 1)
    <3>1. b \in A
      BY <1>1 DEF OwnedIn
    <3>2. \A j \in 1..(i - 1) : j \in 1..n /\ j # i
      BY <1>1
    <3> QED BY <1>1, <3>1, <3>2
  <2>2. Gone(i) = Gone(i - 1) \cup {b}
    <3>1. 1..i = (1..(i - 1)) \cup {i}
      BY <1>1
    <3> QED BY <3>1
  <2> HIDE DEF Gone, b
  <2>3. Released(e, f, b)
    BY <1>5, <2>1, InternalFree
  <2> HIDE DEF e
  <2>4. Core(e) /\ Allocated(e) = A \ Gone(i) /\ e.head = h.head
    BY <1>5, <2>2, <2>3 DEF Released, Disowned
  <2>5. ASSUME NEW x \in Allocated(e)
        PROVE  /\ e.size[x] = h.size[x] /\ e.pid[x] = h.pid[x]
               /\ e.lnxt[x] = h.lnxt[x] /\ e.lprev[x] = h.lprev[x]
    <3>1. x \in Allocated(f) /\ x # b /\ x \in Addr
      BY <2>3 DEF Released, Allocated
    <3>2. e.size[x] = f.size[x] /\ e.pid[x] = f.pid[x] /\ e.lnxt[x] = f.lnxt[x]
          /\ e.lprev[x] = f.lprev[x]
      BY <1>5, <2>3, <3>1 DEF Released, Disowned, Core, Shape, Links
    <3> QED BY <1>5, <3>1, <3>2
  <2> QED BY <2>4, <2>5 DEF e, b
<1>6. \A i \in 0..n : Good(F[i], i)
  <2> DEFINE Bad == {i \in 0..n : ~Good(F[i], i)}
  <2> SUFFICES ASSUME Bad # {} PROVE FALSE
    OBVIOUS
  <2>1. PICK m \in Bad : \A k \in Bad : m <= k
    <3>1. Bad \in SUBSET Nat
      BY <1>1
    <3> HIDE DEF Bad
    <3> QED BY <3>1, Least
  <2>2. m # 0
    <3> SUFFICES ASSUME m = 0 PROVE FALSE
      OBVIOUS
    <3>1. F[0] = h
      BY <1>1, <1>4
    <3>2. Gone(0) = {}
      OBVIOUS
    <3>3. Good(h, 0)
      <4> HIDE DEF Gone
      <4> QED BY <3>2
    <3> QED BY <2>1, <3>1, <3>3
  <2>3. m \in 1..n /\ m - 1 \in 0..n /\ m \in 0..n /\ ~(m <= m - 1)
    BY <1>1, <2>1, <2>2
  <2>4. Good(F[m - 1], m - 1)
    BY <2>1, <2>3
  <2>5. F[m] = internalFree(F[m - 1], l[m])
    BY <1>4, <2>2, <2>3
  <2> HIDE DEF Good
  <2>6. Good(F[m], m)
    BY <1>5, <2>3, <2>4, <2>5
  <2> QED BY <2>1, <2>6
<1>7. Good(g, n)
  BY <1>1, <1>2, <1>6
<1>8. Gone(n) = OwnedIn(h, A, t)
  BY <1>1
<1> HIDE DEF Gone
<1>9. Shrunk(g, h, OwnedIn(h, A, t))
  BY <1>7, <1>8 DEF Shrunk
<1>10. ListsOf(g, Pid \ {t}, Allocated(g))
  <2>1. ListsOf(h, Pid \ {t}, Allocated(g))
    <3> SUFFICES ASSUME NEW o \in Pid \ {t}
                 PROVE  Linked(h.lnxt, h.lprev, h.head[o], OwnedIn(h, Allocated(g), o))
      BY DEF ListsOf
    <3>1. OwnedIn(h, Allocated(g), o) = OwnedIn(h, A, o)
      BY <1>7, <1>8 DEF OwnedIn
    <3> QED BY <3>1 DEF ListsOf
  <2> QED BY <1>7, <2>1, ListsSame
<1> QED BY <1>7, <1>9, <1>10 DEF g

-----------------------------------------------------------------------------
(* The callers. *)

\* What the proofs assume of the constants: a request does not wrap, and only the
\* shell of the kernel loads MEDs (the command line loads them too, see the README).
NoWrap      == \A n \in Requests \cup {InfoSize, StackSize, CodeSize} : n + SizeQuant + HDR <= 2^Width
KernelLoads == Loaders \subseteq {KERNEL}

Bufs(m) == {med[m].info, med[m].stack, med[m].code}
Mine    == {a \in Allocated(heap) : heap.pid[a] = KERNEL}

\* Only live threads own buffers, and what the loader and the MEDs hold is the
\* kernel's, each buffer once.
Callers ==
  /\ alive \subseteq Pid /\ (alive # {} => {KERNEL, CMD} \subseteq alive)
  /\ \A a \in Allocated(heap) : heap.pid[a] \in alive \cup {NULL}
  /\ loaded \in [{KERNEL, CMD} -> Addr \cup {NULL}] /\ loaded[CMD] = NULL
  /\ loaded[KERNEL] # NULL => loaded[KERNEL] \in Mine
  /\ med \in [Med -> [info : Addr \cup {NULL}, stack : Addr \cup {NULL},
                      code : Addr \cup {NULL}]]
  /\ \A m \in Med \ alive : med[m] = NoMed
  /\ \A m \in Med \cap alive :
       /\ Bufs(m) \subseteq Mine \ {loaded[KERNEL]}
       /\ med[m].info # med[m].stack /\ med[m].info # med[m].code
       /\ med[m].stack # med[m].code
       /\ \A o \in (Med \cap alive) \ {m} : Bufs(m) \cap Bufs(o) = {}

HInv ==
  /\ Core(heap) /\ ListsOf(heap, Pid, Allocated(heap))
  /\ asked \in [Addr -> Nat \cup {NULL}] /\ BigEnough
  /\ Callers

\* What every step does to the heap and to the sizes asked for.
Step ==
  /\ Core(heap') /\ ListsOf(heap', Pid, Allocated(heap'))
  /\ asked' \in [Addr -> Nat \cup {NULL}]
  /\ \A x \in Allocated(heap') :
       IF x \in Allocated(heap)
       THEN /\ heap'.size[x] = heap.size[x] /\ heap'.pid[x] = heap.pid[x]
            /\ asked'[x] \in {asked[x], NULL}
       ELSE /\ asked'[x] # NULL => Extent(heap', x) >= asked'[x] + HDR
            /\ heap'.pid[x] \in alive' \cup {NULL}

LEMMA StepBigEnough ==
  ASSUME HInv, Step
  PROVE  BigEnough'
<1> SUFFICES ASSUME NEW x \in Allocated(heap'), asked'[x] # NULL
             PROVE  Extent(heap', x) >= asked'[x] + HDR
  BY DEF BigEnough
<1>1. CASE x \in Allocated(heap)
  <2>1. heap'.size[x] = heap.size[x] /\ asked'[x] = asked[x]
    BY <1>1 DEF Step
  <2>2. Extent(heap', x) = Extent(heap, x)
    BY <2>1 DEF Extent
  <2> QED BY <1>1, <2>1, <2>2 DEF HInv, BigEnough
<1>2. CASE x \notin Allocated(heap)
  BY <1>2 DEF Step
<1> QED BY <1>1, <1>2

LEMMA StepStays ==
  ASSUME HInv, Step
  PROVE  \A a \in Addr : heap.size[a] < 0 /\ heap'.size[a] < 0 /\ asked'[a] # NULL =>
           /\ heap'.size[a] = heap.size[a]
           /\ heap'.pid[a] = heap.pid[a]
           /\ asked'[a] = asked[a]
<1> SUFFICES ASSUME NEW a \in Addr, heap.size[a] < 0, heap'.size[a] < 0, asked'[a] # NULL
             PROVE  /\ heap'.size[a] = heap.size[a] /\ heap'.pid[a] = heap.pid[a]
                    /\ asked'[a] = asked[a]
  OBVIOUS
<1>1. a \in Allocated(heap) /\ a \in Allocated(heap')
  BY DEF Allocated
<1> QED BY <1>1 DEF Step

\* A buffer got, or none.
LEMMA GetStep ==
  ASSUME HInv, NEW c \in Pid \cup {NULL}, NEW force,
         NEW n \in Nat, n + SizeQuant + HDR <= 2^Width,
         NEW r, r = internalMalloc(heap, n, c, force), heap' = r.h, asked' = Put(asked, r.b, n),
         OwnerFor(c, force) \in alive' \cup {NULL}
  PROVE  /\ Step
         /\ \/ r.b = NULL /\ heap' = heap
            \/ r.b \in Addr /\ Grown(heap', heap, r.b) /\ heap'.pid[r.b] = OwnerFor(c, force)
         /\ \A x \in Allocated(heap) : x \in Allocated(heap') /\ heap'.pid[x] = heap.pid[x]
<1>0. /\ Core(heap) /\ ListsOf(heap, Pid, Allocated(heap)) /\ asked \in [Addr -> Nat \cup {NULL}]
      /\ heap.pid \in [Addr -> Pid \cup {NULL}] /\ NULL \notin Addr
  BY Consts DEF HInv, Core, Shape
<1>1. \/ r.b = NULL /\ r.h = heap
      \/ /\ r.b \in Addr /\ Core(r.h) /\ Grown(r.h, heap, r.b)
         /\ Extent(r.h, r.b) >= n + HDR
         /\ r.h.pid = [heap.pid EXCEPT ![r.b] = OwnerFor(c, force)]
         /\ ListsOf(r.h, Pid, Allocated(r.h))
  <2> DEFINE h == heap
             k == internalMalloc(h, n, c, force)
  <2>1. Core(h) /\ ListsOf(h, Pid, Allocated(h))
    BY <1>0
  <2>2. r = k
    OBVIOUS
  <2> HIDE DEF h
  <2>3. \/ k.b = NULL /\ k.h = h
        \/ /\ k.b \in Addr /\ Core(k.h) /\ Grown(k.h, h, k.b)
           /\ Extent(k.h, k.b) >= n + HDR
           /\ k.h.pid = [h.pid EXCEPT ![k.b] = OwnerFor(c, force)]
           /\ ListsOf(k.h, Pid, Allocated(k.h))
    BY <2>1, Malloc
  <2> HIDE DEF k
  <2> QED BY <2>2, <2>3 DEF h
<1>2. CASE r.b = NULL /\ r.h = heap
  <2>1. heap' = heap /\ asked' = asked
    BY <1>2 DEF Put
  <2> QED BY <1>0, <1>2, <2>1 DEF Step
<1>3. CASE /\ r.b \in Addr /\ Core(r.h) /\ Grown(r.h, heap, r.b)
           /\ Extent(r.h, r.b) >= n + HDR
           /\ r.h.pid = [heap.pid EXCEPT ![r.b] = OwnerFor(c, force)]
           /\ ListsOf(r.h, Pid, Allocated(r.h))
  <2>1. asked' = [asked EXCEPT ![r.b] = n]
    BY <1>0, <1>3 DEF Put
  <2>2. /\ asked' \in [Addr -> Nat \cup {NULL}] /\ asked'[r.b] = n
        /\ \A x \in Addr \ {r.b} : asked'[x] = asked[x]
    BY <1>0, <1>3, <2>1
  <2>3. /\ heap'.pid[r.b] = OwnerFor(c, force)
        /\ \A x \in Addr \ {r.b} : heap'.pid[x] = heap.pid[x]
    BY <1>0, <1>3
  <2>4. Grown(heap', heap, r.b)
    BY <1>3
  <2>5. ASSUME NEW x \in Allocated(heap)
        PROVE  /\ x \in Allocated(heap') /\ heap'.size[x] = heap.size[x]
               /\ heap'.pid[x] = heap.pid[x] /\ asked'[x] = asked[x]
    <3>1. x \in Addr \ {r.b}
      BY <2>4 DEF Grown, Allocated
    <3> QED BY <2>2, <2>3, <2>4, <3>1 DEF Grown
  <2>6. \A x \in Allocated(heap') : x \notin Allocated(heap) => x = r.b
    BY <2>4 DEF Grown
  <2>7. Step
    BY <1>3, <2>2, <2>3, <2>5, <2>6 DEF Step
  <2> QED BY <1>3, <2>3, <2>4, <2>5, <2>7
<1> QED BY <1>1, <1>2, <1>3

\* A buffer given back.
LEMMA GiveStep ==
  ASSUME HInv, NEW c \in Pid, NEW force, NEW b \in Allocated(heap), heap.pid[b] \in {c, KERNEL},
         heap' = internalFree(thread_listRm(heap, b, c, force), b),
         asked' = [asked EXCEPT ![b] = NULL]
  PROVE  Step /\ Shrunk(heap', heap, {b})
<1>0. /\ Core(heap) /\ ListsOf(heap, Pid, Allocated(heap)) /\ asked \in [Addr -> Nat \cup {NULL}]
      /\ heap.pid[b] \in Pid
  BY Consts DEF HInv
<1>1. Core(heap') /\ ListsOf(heap', Pid, Allocated(heap')) /\ Shrunk(heap', heap, {b})
  <2>1. Pid \in SUBSET Pid
    OBVIOUS
  <2> QED BY <1>0, <2>1, RmAndFree
<1>2. asked' \in [Addr -> Nat \cup {NULL}] /\ \A x \in Addr : asked'[x] \in {asked[x], NULL}
  BY <1>0
<1>3. \A x \in Allocated(heap') : x \in Allocated(heap) /\ x \in Addr
  BY <1>1 DEF Shrunk, Allocated
<1> QED BY <1>1, <1>2, <1>3 DEF Step, Shrunk

\* The buffers of the loader and of the MEDs are not touched.
LEMMA CallersKeep ==
  ASSUME HInv, Step, UNCHANGED <<alive, loaded, med>>,
         \A a \in Allocated(heap) : a \notin Private => a \in Allocated(heap')
  PROVE  Callers'
<1> USE Consts
<1>1. Callers
  BY DEF HInv
<1>2. \A a \in Allocated(heap') : heap'.pid[a] \in alive \cup {NULL}
  BY <1>1 DEF Step, Callers
<1>3. ASSUME NEW a \in Mine, a \notin Private
      PROVE  a \in Mine'
  BY <1>3 DEF Step, Mine
<1>4. loaded[KERNEL] \notin Private /\ \A m \in Med : \A a \in Bufs(m) : a \notin Private
  BY DEF Private, Bufs
<1>5. loaded[KERNEL] # NULL => loaded[KERNEL] \in Mine'
  BY <1>1, <1>3, <1>4 DEF Callers
<1>6. \A m \in Med \cap alive : Bufs(m) \subseteq Mine' \ {loaded[KERNEL]}
  BY <1>1, <1>3, <1>4 DEF Callers
<1>7. loaded' = loaded /\ med' = med /\ alive' = alive /\ \A m \in Med : Bufs(m)' = Bufs(m)
  BY DEF Bufs
<1> QED BY <1>1, <1>2, <1>5, <1>6, <1>7 DEF Callers

LEMMA Keeps ==
  ASSUME HInv, Step, Callers'
  PROVE  HInv'
BY StepBigEnough DEF HInv, Step

LEMMA Sizes ==
  ASSUME NoWrap, NEW n \in Requests \cup {InfoSize, StackSize, CodeSize}
  PROVE  n \in Nat /\ n + SizeQuant + HDR <= 2^Width
<1>1. PoolSize \in Nat /\ 2^Width \in Nat
  BY Consts
<1>2. n \in Nat
  BY <1>1, CallerAssumption
<1> QED BY <1>2 DEF NoWrap

LEMMA InitHInv == Init => HInv
<1> USE Consts
<1> SUFFICES ASSUME Init PROVE HInv
  OBVIOUS
<1> DEFINE h == mem_addPool
<1>0. heap = h /\ alive = {} /\ asked = Field(NULL)
      /\ loaded = [t \in {KERNEL, CMD} |-> NULL] /\ med = [t \in Med |-> NoMed]
  BY DEF Init
<1>1. /\ Shape(h) /\ h.size = [Field(0) EXCEPT ![0] = PoolSize] /\ h.bnxt = Field(NULL)
      /\ h.bprev = Field(NULL) /\ h.fnxt = Field(NULL) /\ h.fprev = Field(NULL)
      /\ h.first = 0 /\ h.total = 0 /\ h.head = [t \in Pid |-> NULL]
  <2>1. [Field(0) EXCEPT ![0] = PoolSize] \in [Addr -> Int] /\ Field(NULL) \in Links
        /\ Field(NULL) \in [Addr -> Pid \cup {NULL}] /\ [t \in Pid |-> NULL] \in [Pid -> Addr \cup {NULL}]
    BY DEF Field, Links
  <2> DEFINE Z == [Field(0) EXCEPT ![0] = PoolSize]
             F == Field(NULL)
             H == [t \in Pid |-> NULL]
  <2>2. h = [size |-> Z, bnxt |-> F, bprev |-> F, fnxt |-> F, fprev |-> F, lnxt |-> F,
             lprev |-> F, pid |-> F, first |-> 0, total |-> 0, head |-> H]
    BY DEF mem_addPool
  <2> HIDE DEF Z, F, H, h
  <2>3. Z \in [Addr -> Int] /\ F \in Links /\ F \in [Addr -> Pid \cup {NULL}]
        /\ H \in [Pid -> Addr \cup {NULL}]
    BY <2>1 DEF Z, F, H
  <2>4. Shape(h)
    BY <2>2, <2>3 DEF Shape
  <2> QED BY <2>2, <2>4 DEF Z, F, H
<1> HIDE DEF h
<1>2. h.size[0] = PoolSize /\ \A x \in Addr \ {0} : h.size[x] = 0
  BY <1>1 DEF Field
<1>3. Blocks(h) = {0} /\ FreeBlocks(h) = {0} /\ Allocated(h) = {}
  <2>1. h.size[0] \in Int /\ h.size[0] > 0 /\ h.size[0] # 0 /\ ~(h.size[0] < 0) /\ 0 \in Addr
    <3>1. PoolSize \in Int /\ PoolSize > 0 /\ PoolSize # 0 /\ ~(PoolSize < 0)
      OBVIOUS
    <3> QED BY <1>2, <3>1, Zenon
  <2>2. \A x \in Addr \ {0} : ~(h.size[x] > 0) /\ ~(h.size[x] < 0) /\ h.size[x] = 0
    <3>1. ~(0 > 0) /\ ~(0 < 0)
      OBVIOUS
    <3> QED BY <1>2, <3>1, Zenon
  <2>3. Blocks(h) = {0}
    <3>1. \A x \in Addr : h.size[x] # 0 <=> x = 0
      BY <2>1, <2>2
    <3> QED BY <2>1, <3>1, Zenon DEF Blocks
  <2>4. FreeBlocks(h) = {0}
    BY <2>1, <2>2 DEF FreeBlocks
  <2>5. Allocated(h) = {}
    BY <2>1, <2>2 DEF Allocated
  <2> QED BY <2>3, <2>4, <2>5
<1>4. h.bnxt[0] = NULL /\ h.bprev[0] = NULL /\ h.fnxt[0] = NULL /\ h.fprev[0] = NULL
  BY <1>1 DEF Field
<1>5. Tiled(h)
  <2>1. End(h, 0) = PoolSize
    BY <1>2 DEF End, Extent
  <2> QED BY <1>3, <1>4, <2>1 DEF Tiled
<1>6. Merged(h)
  BY <1>3, <1>4 DEF Merged
<1>7. FreeSet(h, FreeBlocks(h))
  <2> DEFINE l == [i \in 1..1 |-> 0]
  <2>1. 1 \in Nat /\ l \in [1..1 -> Addr] /\ {0} = {l[i] : i \in 1..1}
    OBVIOUS
  <2>2. IsList(h.fnxt, h.fprev, 0, 1, l)
    BY <1>4 DEF IsList
  <2> HIDE DEF l
  <2>3. Linked(h.fnxt, h.fprev, 0, {0})
    BY <2>1, <2>2 DEF Linked
  <2> QED BY <1>1, <1>3, <2>3 DEF FreeSet
<1>8. h.total = Cardinality(BytesUsed(h))
  <2>1. BytesUsed(h) = {}
    BY <1>3 DEF BytesUsed
  <2> QED BY <1>1, <2>1, FS_EmptySet
<1>9. ListsOf(h, Pid, Allocated(h))
  <2> SUFFICES ASSUME NEW t \in Pid
               PROVE  Linked(h.lnxt, h.lprev, h.head[t], OwnedIn(h, Allocated(h), t))
    BY DEF ListsOf
  <2>1. h.head[t] = NULL /\ OwnedIn(h, Allocated(h), t) = {}
    BY <1>1, <1>3 DEF OwnedIn
  <2> QED BY <2>1, LinkedNone
<1>10. asked \in [Addr -> Nat \cup {NULL}] /\ BigEnough
  BY <1>0, <1>3 DEF Field, BigEnough
<1>11. Callers
  <2>1. NoMed \in [info : Addr \cup {NULL}, stack : Addr \cup {NULL}, code : Addr \cup {NULL}]
    BY DEF NoMed
  <2>2. loaded \in [{KERNEL, CMD} -> Addr \cup {NULL}] /\ loaded[CMD] = NULL /\ loaded[KERNEL] = NULL
    BY <1>0
  <2>3. /\ med \in [Med -> [info : Addr \cup {NULL}, stack : Addr \cup {NULL},
                            code : Addr \cup {NULL}]]
        /\ \A m \in Med \ alive : med[m] = NoMed
    <3> HIDE DEF NoMed
    <3> QED BY <1>0, <2>1
  <2> QED BY <1>0, <1>3, <2>2, <2>3 DEF Callers
<1> QED BY <1>0, <1>1, <1>5, <1>6, <1>7, <1>8, <1>9, <1>10, <1>11 DEF HInv, Core

LEMMA StartKeeps ==
  ASSUME NoWrap, HInv, thread_init
  PROVE  Step /\ Callers'
<1> USE Consts
<1>k. PICK force \in {TRUE, FALSE} : thread_init =>
        Ask(internalMalloc(heap, InfoSize, NULL, force), InfoSize)
  BY DEF thread_init
<1> DEFINE r == internalMalloc(heap, InfoSize, NULL, force)
<1>0. /\ alive = {} /\ alive' = {KERNEL, CMD} /\ loaded' = loaded /\ med' = med
      /\ heap' = r.h /\ asked' = Put(asked, r.b, InfoSize)
      /\ Callers
  BY <1>k DEF thread_init, Ask, Asked, HInv
<1>1. /\ Step
      /\ \/ r.b = NULL /\ heap' = heap
         \/ r.b \in Addr /\ Grown(heap', heap, r.b) /\ heap'.pid[r.b] = NULL
      /\ \A x \in Allocated(heap) : x \in Allocated(heap') /\ heap'.pid[x] = heap.pid[x]
  <2>1. InfoSize \in Nat /\ InfoSize + SizeQuant + HDR <= 2^Width
    BY Sizes
  <2>2. OwnerFor(NULL, force) = NULL /\ NULL \in Pid \cup {NULL}
    BY DEF OwnerFor
  <2>3. r = internalMalloc(heap, InfoSize, NULL, force)
    OBVIOUS
  <2> DEFINE c == NULL
  <2>4. /\ c \in Pid \cup {NULL} /\ OwnerFor(c, force) \in alive' \cup {NULL}
        /\ r = internalMalloc(heap, InfoSize, c, force)
        /\ heap' = r.h /\ asked' = Put(asked, r.b, InfoSize)
    BY <1>0, <2>2, <2>3
  <2> HIDE DEF r, c
  <2>5. /\ Step
        /\ \/ r.b = NULL /\ heap' = heap
           \/ r.b \in Addr /\ Grown(heap', heap, r.b) /\ heap'.pid[r.b] = OwnerFor(c, force)
        /\ \A x \in Allocated(heap) : x \in Allocated(heap') /\ heap'.pid[x] = heap.pid[x]
    BY <2>1, <2>4, GetStep
  <2> QED BY <2>2, <2>5 DEF c
<1> HIDE DEF r
<1>2. \A x \in Allocated(heap') : heap'.pid[x] \in {KERNEL, CMD} \cup {NULL}
  BY <1>0, <1>1 DEF Step, Callers
<1>3. Mine = {}
  BY <1>0 DEF Mine, Callers
<1>4. Med \cap alive' = {} /\ Med \ alive' = Med \ alive
  BY <1>0
<1> QED BY <1>0, <1>1, <1>2, <1>3, <1>4 DEF Callers

\* malloc and kmalloc.
LEMMA MallocKeeps ==
  ASSUME NoWrap, HInv, NEW c \in Pid, NEW n \in Requests, malloc(c, n) \/ kmalloc(c, n)
  PROVE  Step /\ Callers'
<1> USE Consts
<1>1. PICK force \in {TRUE, FALSE} :
        /\ c \in alive /\ UNCHANGED <<alive, loaded, med>>
        /\ Ask(internalMalloc(heap, n, c, force), n)
  BY DEF malloc, kmalloc
<1> DEFINE r == internalMalloc(heap, n, c, force)
<1>2. heap' = r.h /\ asked' = Put(asked, r.b, n)
  BY <1>1 DEF Ask, Asked
<1>3. Step /\ \A x \in Allocated(heap) : x \in Allocated(heap')
  <2>1. n \in Nat /\ n + SizeQuant + HDR <= 2^Width
    BY Sizes
  <2>2. OwnerFor(c, force) \in alive' \cup {NULL}
    BY <1>1 DEF OwnerFor, HInv, Callers
  <2>3. r = internalMalloc(heap, n, c, force)
    OBVIOUS
  <2> HIDE DEF r
  <2> QED BY <1>2, <2>1, <2>2, <2>3, GetStep
<1> QED BY <1>1, <1>3, CallersKeep

\* free and kfree.
LEMMA FreeKeeps ==
  ASSUME HInv, NEW c \in Pid, NEW b \in Addr, Free(c, b) \/ Kfree(c, b)
  PROVE  Step /\ Callers'
<1> USE Consts
<1>0. /\ c \in alive /\ b \in Private /\ b \in Allocated(heap) /\ b # NULL
      /\ UNCHANGED <<alive, loaded, med>>
  BY DEF Free, Kfree, Private
<1>1. CASE heap' = heap /\ asked' = asked
  <2>1. Step
    BY <1>1 DEF Step, HInv
  <2> QED BY <1>0, <1>1, <2>1, CallersKeep
<1>2. ASSUME NEW force, heap.pid[b] \in {c, KERNEL},
             heap' = internalFree(thread_listRm(heap, b, c, force), b),
             asked' = [asked EXCEPT ![b] = NULL]
      PROVE  Step /\ Callers'
  <2>1. Step /\ Shrunk(heap', heap, {b})
    BY <1>0, <1>2, GiveStep
  <2>2. \A a \in Allocated(heap) : a \notin Private => a \in Allocated(heap')
    BY <1>0, <2>1 DEF Shrunk
  <2> QED BY <1>0, <2>1, <2>2, CallersKeep
<1>3. \/ heap' = heap /\ asked' = asked
      \/ \E force \in {TRUE, FALSE} :
           /\ heap.pid[b] \in {c, KERNEL} /\ asked' = [asked EXCEPT ![b] = NULL]
           /\ heap' = internalFree(thread_listRm(heap, b, c, force), b)
  <2>1. CASE Free(c, b) /\ MayRm(heap, b, c, FALSE)
    <3>1. heap.pid[b] \in {c, KERNEL}
      BY <2>1 DEF Free, MayRm
    <3> QED BY <1>0, <2>1, <3>1 DEF Free, free
  <2>2. CASE Free(c, b) /\ ~MayRm(heap, b, c, FALSE)
    BY <2>2 DEF Free, free
  <2>3. CASE Kfree(c, b)
    BY <1>0, <2>3 DEF Kfree, kfree
  <2> QED BY <2>1, <2>2, <2>3
<1>4. CASE \E force \in {TRUE, FALSE} :
             /\ heap.pid[b] \in {c, KERNEL} /\ asked' = [asked EXCEPT ![b] = NULL]
             /\ heap' = internalFree(thread_listRm(heap, b, c, force), b)
  <2>1. PICK force \in {TRUE, FALSE} :
             /\ heap.pid[b] \in {c, KERNEL} /\ asked' = [asked EXCEPT ![b] = NULL]
             /\ heap' = internalFree(thread_listRm(heap, b, c, force), b)
    BY <1>4
  <2> QED BY <1>2, <2>1
<1> QED BY <1>1, <1>3, <1>4

\* kfree and, where the caller may, free.
LEMMA KfreeIs ==
  ASSUME NEW h, Core(h), NEW T \in SUBSET Pid, ListsOf(h, T, Allocated(h)),
         NEW b \in Allocated(h), NEW c \in Pid, h.pid[b] \in T, h.pid[b] \in {c, KERNEL}
  PROVE  /\ LET g == kfree(h, b, c)
            IN  Core(g) /\ ListsOf(g, T, Allocated(g)) /\ Shrunk(g, h, {b})
         /\ MayRm(h, b, c, FALSE) =>
              LET g == free(h, b, c)
              IN  Core(g) /\ ListsOf(g, T, Allocated(g)) /\ Shrunk(g, h, {b})
<1>1. b # NULL
  BY Consts DEF Allocated
<1>2. \A force \in {TRUE, FALSE} :
        LET g == internalFree(thread_listRm(h, b, c, force), b)
        IN  Core(g) /\ ListsOf(g, T, Allocated(g)) /\ Shrunk(g, h, {b})
  <2> TAKE force \in {TRUE, FALSE}
  <2> QED BY RmAndFree
<1>3. kfree(h, b, c) = internalFree(thread_listRm(h, b, c, TRUE), b)
  BY <1>1 DEF kfree
<1>4. MayRm(h, b, c, FALSE) => free(h, b, c) = internalFree(thread_listRm(h, b, c, FALSE), b)
  BY <1>1 DEF free
<1>5. LET g == internalFree(thread_listRm(h, b, c, TRUE), b)
      IN  Core(g) /\ ListsOf(g, T, Allocated(g)) /\ Shrunk(g, h, {b})
  BY <1>2, Zenon
<1>6. LET g == internalFree(thread_listRm(h, b, c, FALSE), b)
      IN  Core(g) /\ ListsOf(g, T, Allocated(g)) /\ Shrunk(g, h, {b})
  BY <1>2, Zenon
<1>7. LET g == kfree(h, b, c)
      IN  Core(g) /\ ListsOf(g, T, Allocated(g)) /\ Shrunk(g, h, {b})
  BY <1>3, <1>5, Zenon
<1>8. MayRm(h, b, c, FALSE) =>
        LET g == free(h, b, c)
        IN  Core(g) /\ ListsOf(g, T, Allocated(g)) /\ Shrunk(g, h, {b})
  BY <1>4, <1>6, Zenon
<1> QED BY <1>7, <1>8

LEMMA ReallocKeeps ==
  ASSUME NoWrap, HInv, NEW c \in Pid, NEW b \in Addr, NEW n \in Requests, Realloc(c, b, n)
  PROVE  Step /\ Callers'
<1>k. PICK force \in {TRUE, FALSE} : force = FALSE
  OBVIOUS
<1> DEFINE h == heap
           r == internalMalloc(h, n, c, force)
<1>0. /\ c \in alive /\ b \in Private /\ b \in Allocated(h) /\ h.pid[b] = c
      /\ UNCHANGED <<alive, loaded, med>>
      /\ r.b = NULL => heap' = h /\ asked' = asked
      /\ r.b # NULL => heap' = free(r.h, b, c) /\ asked' = [asked EXCEPT ![b] = NULL, ![r.b] = n]
      /\ Core(h) /\ ListsOf(h, Pid, Allocated(h)) /\ asked \in [Addr -> Nat \cup {NULL}]
      /\ h.pid \in [Addr -> Pid \cup {NULL}]
  BY <1>k DEF Realloc, Private, HInv, Core, Shape
<1>1. CASE r.b = NULL
  <2>1. heap' = heap /\ asked' = asked
    BY <1>0, <1>1
  <2>2. Step
    BY <2>1 DEF Step, HInv
  <2> QED BY <1>0, <2>1, <2>2, CallersKeep
<1>2. CASE r.b # NULL
  <2>1. n \in Nat /\ n + SizeQuant + HDR <= 2^Width
    BY Sizes
  <2>2. /\ r.b \in Addr /\ Core(r.h) /\ Grown(r.h, h, r.b)
        /\ Extent(r.h, r.b) >= n + HDR
        /\ r.h.pid = [h.pid EXCEPT ![r.b] = OwnerFor(c, force)]
        /\ ListsOf(r.h, Pid, Allocated(r.h))
    <3>1. Core(h) /\ ListsOf(h, Pid, Allocated(h)) /\ c \in Pid \cup {NULL}
      BY <1>0
    <3> HIDE DEF h
    <3> QED BY <1>2, <2>1, <3>1, Malloc
  <2> DEFINE j == r.h
             x0 == r.b
  <2>3. /\ b \in Allocated(j) /\ b # x0 /\ j.pid[b] = c /\ c # NULL
        /\ Allocated(j) = Allocated(h) \cup {x0} /\ x0 \notin Allocated(h)
        /\ j.pid[x0] = OwnerFor(c, force)
        /\ \A x \in Allocated(h) : j.size[x] = h.size[x] /\ j.pid[x] = h.pid[x]
    <3>1. /\ Grown(j, h, x0) /\ x0 \in Addr /\ j.pid = [h.pid EXCEPT ![x0] = OwnerFor(c, force)]
          /\ \A x \in Allocated(h) : x \in Addr
      BY <2>2 DEF Allocated
    <3> HIDE DEF h, r, j, x0
    <3> QED BY <1>0, <3>1, Consts DEF Grown
  <2>4. heap' = free(j, b, c) /\ asked' = [asked EXCEPT ![b] = NULL, ![x0] = n]
    BY <1>0, <1>2
  <2>5. Core(j) /\ ListsOf(j, Pid, Allocated(j)) /\ x0 \in Addr /\ Extent(j, x0) >= n + HDR
    BY <2>2
  <2> HIDE DEF h, r, j, x0
  <2>6. MayRm(j, b, c, FALSE)
    BY <2>3 DEF MayRm
  <2>7. Core(heap') /\ ListsOf(heap', Pid, Allocated(heap')) /\ Shrunk(heap', j, {b})
    <3>1. Pid \in SUBSET Pid /\ j.pid[b] \in Pid /\ j.pid[b] \in {c, KERNEL}
      BY <2>3
    <3> QED BY <2>3, <2>4, <2>5, <2>6, <3>1, KfreeIs
  <2>8. Allocated(heap') = (Allocated(h) \ {b}) \cup {x0}
    BY <2>3, <2>7 DEF Shrunk
  <2>9. /\ asked' \in [Addr -> Nat \cup {NULL}] /\ asked'[x0] = n
        /\ \A x \in Addr : x # x0 => asked'[x] \in {asked[x], NULL}
    BY <1>0, <2>1, <2>4, <2>5
  <2>10. Step
    <3> SUFFICES ASSUME NEW x \in Allocated(heap')
                 PROVE  IF x \in Allocated(heap)
                        THEN /\ heap'.size[x] = heap.size[x] /\ heap'.pid[x] = heap.pid[x]
                             /\ asked'[x] \in {asked[x], NULL}
                        ELSE /\ asked'[x] # NULL => Extent(heap', x) >= asked'[x] + HDR
                             /\ heap'.pid[x] \in alive' \cup {NULL}
      BY <2>7, <2>9 DEF Step
    <3>1. heap'.size[x] = j.size[x] /\ heap'.pid[x] = j.pid[x] /\ x \in Addr
      BY <2>7 DEF Shrunk, Allocated
    <3>2. CASE x = x0
      <4>1. Extent(heap', x) = Extent(j, x)
        BY <3>1 DEF Extent
      <4>2. heap'.pid[x] \in alive'
        BY <1>0, <2>3, <3>1, <3>2 DEF OwnerFor, HInv, Callers
      <4> QED BY <2>3, <2>5, <2>9, <3>2, <4>1, <4>2 DEF h
    <3>3. CASE x # x0
      BY <2>3, <2>8, <2>9, <3>1, <3>3 DEF h
    <3> QED BY <3>2, <3>3
  <2>11. \A a \in Allocated(heap) : a \notin Private => a \in Allocated(heap')
    BY <1>0, <2>8 DEF h
  <2> QED BY <1>0, <2>10, <2>11, CallersKeep
<1> QED BY <1>1, <1>2

LEMMA LoadKeeps ==
  ASSUME NoWrap, KernelLoads, HInv, NEW c \in {KERNEL, CMD}, LoadCode(c)
  PROVE  Step /\ Callers'
<1> USE Consts
<1>k. PICK force \in {TRUE, FALSE} : force = FALSE
  OBVIOUS
<1> DEFINE r == internalMalloc(heap, CodeSize, c, force)
<1>0. /\ c = KERNEL /\ KERNEL \in alive /\ loaded[KERNEL] = NULL
      /\ heap' = r.h /\ asked' = Put(asked, r.b, CodeSize)
      /\ loaded' = [loaded EXCEPT ![KERNEL] = r.b] /\ alive' = alive /\ med' = med
      /\ Callers
  BY <1>k DEF LoadCode, KernelLoads, HInv, Ask, Asked
<1>1. /\ Step
      /\ \/ r.b = NULL /\ heap' = heap
         \/ r.b \in Addr /\ Grown(heap', heap, r.b) /\ heap'.pid[r.b] = KERNEL
      /\ \A x \in Allocated(heap) : x \in Allocated(heap') /\ heap'.pid[x] = heap.pid[x]
  <2>1. CodeSize \in Nat /\ CodeSize + SizeQuant + HDR <= 2^Width
    BY Sizes
  <2>2. OwnerFor(c, force) = KERNEL /\ KERNEL # NULL
    BY <1>0 DEF OwnerFor
  <2>3. /\ OwnerFor(c, force) \in alive' \cup {NULL} /\ c \in Pid \cup {NULL}
        /\ r = internalMalloc(heap, CodeSize, c, force)
        /\ heap' = r.h /\ asked' = Put(asked, r.b, CodeSize)
    BY <1>0, <2>2
  <2> HIDE DEF r
  <2>4. /\ Step
        /\ \/ r.b = NULL /\ heap' = heap
           \/ r.b \in Addr /\ Grown(heap', heap, r.b) /\ heap'.pid[r.b] = OwnerFor(c, force)
        /\ \A x \in Allocated(heap) : x \in Allocated(heap') /\ heap'.pid[x] = heap.pid[x]
    BY <2>1, <2>3, GetStep
  <2> QED BY <2>2, <2>4
<1> HIDE DEF r
<1>2. \A x \in Allocated(heap') : heap'.pid[x] \in alive \cup {NULL}
  BY <1>0, <1>1 DEF Step, Callers
<1>3. Mine \subseteq Mine' /\ (r.b # NULL => r.b \in Mine' /\ r.b \notin Mine)
  <2>1. Mine \subseteq Mine'
    BY <1>1 DEF Mine
  <2>2. r.b # NULL => r.b \in Mine' /\ r.b \notin Mine
    BY <1>1 DEF Mine, Grown
  <2> QED BY <2>1, <2>2
<1>4. /\ loaded' \in [{KERNEL, CMD} -> Addr \cup {NULL}] /\ loaded'[CMD] = NULL
      /\ loaded'[KERNEL] = r.b
  BY <1>0, <1>1 DEF Callers, KERNEL, CMD
<1>5. \A m \in Med \cap alive : Bufs(m) \subseteq Mine' \ {r.b}
  <2> SUFFICES ASSUME NEW m \in Med \cap alive PROVE Bufs(m) \subseteq Mine' \ {r.b}
    OBVIOUS
  <2>1. Bufs(m) \subseteq Mine \ {loaded[KERNEL]} /\ Mine \subseteq Addr
    BY <1>0 DEF Callers, Mine, Allocated
  <2> QED BY <1>0, <1>3, <2>1
<1>6. \A m \in Med : Bufs(m)' = Bufs(m)
  BY <1>0 DEF Bufs
<1> QED BY <1>0, <1>1, <1>2, <1>3, <1>4, <1>5, <1>6 DEF Callers

\* A MED that cannot be started: its code is dropped.
LEMMA CodeDropped ==
  ASSUME HInv, Step, alive' = alive, med' = med, loaded[KERNEL] # NULL,
         loaded' = [loaded EXCEPT ![KERNEL] = NULL],
         Allocated(heap') = Allocated(heap) \ {loaded[KERNEL]}
  PROVE  Callers'
<1> USE Consts
<1>1. Callers
  BY DEF HInv
<1>2. \A a \in Allocated(heap') : heap'.pid[a] \in alive \cup {NULL}
  BY <1>1 DEF Step, Callers
<1>3. /\ loaded' \in [{KERNEL, CMD} -> Addr \cup {NULL}] /\ loaded'[CMD] = NULL
      /\ loaded'[KERNEL] = NULL
  BY <1>1 DEF Callers, KERNEL, CMD
<1>4. Mine \ {loaded[KERNEL]} \subseteq Mine'
  BY DEF Step, Mine
<1>5. NULL \notin Mine
  BY DEF Mine, Allocated
<1>6. \A m \in Med \cap alive : Bufs(m) \subseteq Mine' \ {NULL}
  <2> SUFFICES ASSUME NEW m \in Med \cap alive PROVE Bufs(m) \subseteq Mine' \ {NULL}
    OBVIOUS
  <2>1. Bufs(m) \subseteq Mine \ {loaded[KERNEL]}
    BY <1>1 DEF Callers
  <2> QED BY <1>4, <1>5, <2>1
<1>7. \A m \in Med : Bufs(m)' = Bufs(m)
  BY DEF Bufs
<1> QED BY <1>1, <1>2, <1>3, <1>6, <1>7 DEF Callers

\* The code of the MED that is to be started.
LEMMA CodeIs ==
  ASSUME HInv, KernelLoads, NEW c \in {KERNEL, CMD}, thread_startMed(c)
  PROVE  /\ c = KERNEL /\ KERNEL \in alive /\ loaded[KERNEL] # NULL
         /\ loaded[KERNEL] \in Allocated(heap) /\ heap.pid[loaded[KERNEL]] = KERNEL
         /\ loaded' = [loaded EXCEPT ![KERNEL] = NULL]
<1>1. c = KERNEL /\ loaded[KERNEL] # NULL /\ loaded' = [loaded EXCEPT ![KERNEL] = NULL]
  BY DEF thread_startMed, KernelLoads
<1>2. loaded[KERNEL] \in Allocated(heap) /\ heap.pid[loaded[KERNEL]] = KERNEL
  BY <1>1 DEF HInv, Callers, Mine
<1>3. KERNEL \in alive
  BY <1>2, Consts DEF HInv, Callers
<1> QED BY <1>1, <1>2, <1>3

\* No memory for the struct: the code is freed.
LEMMA StartNoInfo ==
  ASSUME HInv, KernelLoads, NEW c \in {KERNEL, CMD}, thread_startMed(c),
         heap' = kfree(heap, loaded[c], c), asked' = [asked EXCEPT ![loaded[c]] = NULL],
         UNCHANGED <<alive, med>>
  PROVE  Step /\ Callers'
<1> USE Consts
<1> DEFINE b == loaded[c]
<1>1. /\ c = KERNEL /\ b \in Allocated(heap) /\ b # NULL /\ heap.pid[b] \in {c, KERNEL}
      /\ c \in Pid /\ loaded' = [loaded EXCEPT ![KERNEL] = NULL] /\ b = loaded[KERNEL]
  BY CodeIs
<1>2. asked' = [asked EXCEPT ![b] = NULL] /\ heap' = kfree(heap, b, c)
  OBVIOUS
<1> HIDE DEF b
<1>3. \E force \in {TRUE, FALSE} : heap' = internalFree(thread_listRm(heap, b, c, force), b)
  BY <1>1, <1>2 DEF kfree
<1>4. PICK force \in {TRUE, FALSE} : heap' = internalFree(thread_listRm(heap, b, c, force), b)
  BY <1>3
<1>5. Step /\ Shrunk(heap', heap, {b})
  BY <1>1, <1>2, <1>4, GiveStep
<1> QED BY <1>1, <1>5, CodeDropped DEF Shrunk

\* A block for the kernel from any heap.
KernelGot(g, h, b, n) ==
  /\ b \in Addr /\ Core(g) /\ Grown(g, h, b) /\ Extent(g, b) >= n + HDR
  /\ g.pid[b] = KERNEL /\ ListsOf(g, Pid, Allocated(g))
  /\ \A x \in Allocated(h) : g.pid[x] = h.pid[x]

LEMMA GotIs ==
  ASSUME NoWrap, NEW n \in {InfoSize, StackSize}, NEW force,
         NEW h, Core(h), ListsOf(h, Pid, Allocated(h)), NEW c \in Pid, OwnerFor(c, force) = KERNEL,
         internalMalloc(h, n, c, force).b # NULL
  PROVE  KernelGot(internalMalloc(h, n, c, force).h, h, internalMalloc(h, n, c, force).b, n)
<1> USE Consts
<1> DEFINE r == internalMalloc(h, n, c, force)
<1>1. n \in Nat /\ n + SizeQuant + HDR <= 2^Width
  BY Sizes
<1>2. c \in Pid \cup {NULL}
  OBVIOUS
<1>3. \/ r.b = NULL /\ r.h = h
      \/ /\ r.b \in Addr /\ Core(r.h) /\ Grown(r.h, h, r.b)
         /\ Extent(r.h, r.b) >= n + HDR
         /\ r.h.pid = [h.pid EXCEPT ![r.b] = OwnerFor(c, force)]
         /\ ListsOf(r.h, Pid, Allocated(r.h))
  BY <1>1, <1>2, Malloc
<1>4. r.b # NULL /\ h.pid \in [Addr -> Pid \cup {NULL}] 
  BY DEF Core, Shape
<1> HIDE DEF r
<1>5. r.h.pid = [h.pid EXCEPT ![r.b] = KERNEL] /\ r.b \in Addr /\ Grown(r.h, h, r.b)
  BY <1>3, <1>4
<1>6. r.h.pid[r.b] = KERNEL /\ \A x \in Allocated(h) : r.h.pid[x] = h.pid[x]
  BY <1>4, <1>5 DEF Grown, Allocated
<1>7. KernelGot(r.h, h, r.b, n)
  BY <1>3, <1>4, <1>6 DEF KernelGot
<1> QED BY <1>7 DEF r

\* The struct but no saved stack: both are given back.
LEMMA StartNoStack ==
  ASSUME HInv, KernelLoads, NEW c \in {KERNEL, CMD}, thread_startMed(c),
         NEW j, NEW x0, KernelGot(j, heap, x0, InfoSize),
         heap' = kfree(free(j, x0, c), loaded[c], c),
         asked' = [asked EXCEPT ![loaded[c]] = NULL,
                     ![x0] = IF MayRm(j, x0, c, FALSE) THEN @ ELSE InfoSize],
         UNCHANGED <<alive, med>>
  PROVE  Step /\ Callers'
<1> USE Consts
<1> DEFINE b == loaded[c]
           g == free(j, x0, c)
<1>1. /\ c = KERNEL /\ b \in Allocated(heap) /\ b # NULL /\ heap.pid[b] = KERNEL
      /\ c \in Pid /\ loaded' = [loaded EXCEPT ![KERNEL] = NULL] /\ b = loaded[KERNEL]
      /\ Pid \in SUBSET Pid
  BY CodeIs
<1>2. heap' = kfree(g, b, c)
      /\ asked' = [asked EXCEPT ![b] = NULL, ![x0] = IF MayRm(j, x0, c, FALSE) THEN @ ELSE InfoSize]
  OBVIOUS
<1> HIDE DEF b
<1>3. /\ MayRm(j, x0, c, FALSE) /\ j.pid[x0] = KERNEL /\ Core(j) /\ ListsOf(j, Pid, Allocated(j))
      /\ x0 \in Allocated(j) /\ x0 \notin Allocated(heap) /\ Allocated(j) = Allocated(heap) \cup {x0}
      /\ x0 \in Addr /\ b \in Addr
      /\ \A x \in Allocated(heap) : j.pid[x] = heap.pid[x] /\ j.size[x] = heap.size[x]
  BY <1>1 DEF KernelGot, Grown, MayRm, Allocated
<1>4. Core(g) /\ ListsOf(g, Pid, Allocated(g)) /\ Shrunk(g, j, {x0})
  <2>1. j.pid[x0] \in Pid /\ j.pid[x0] \in {c, KERNEL}
    BY <1>3
  <2> QED BY <1>1, <1>3, <2>1, KfreeIs
<1> HIDE DEF g
<1>5. /\ Allocated(g) = Allocated(heap)
      /\ \A x \in Allocated(heap) : g.pid[x] = heap.pid[x] /\ g.size[x] = heap.size[x]
  BY <1>3, <1>4 DEF Shrunk
<1>6. Core(heap') /\ ListsOf(heap', Pid, Allocated(heap')) /\ Shrunk(heap', g, {b})
  <2>1. /\ Core(g) /\ ListsOf(g, Pid, Allocated(g)) /\ Pid \in SUBSET Pid /\ c \in Pid
        /\ b \in Allocated(g) /\ g.pid[b] \in Pid /\ g.pid[b] \in {c, KERNEL}
    BY <1>1, <1>4, <1>5
  <2> DEFINE k == kfree(g, b, c)
  <2>2. Core(k) /\ ListsOf(k, Pid, Allocated(k)) /\ Shrunk(k, g, {b})
    BY <2>1, KfreeIs
  <2> QED BY <1>2, <2>2
<1>7. Allocated(heap') = Allocated(heap) \ {b}
  BY <1>5, <1>6 DEF Shrunk
<1>8. asked' \in [Addr -> Nat \cup {NULL}] /\ \A x \in Addr : asked'[x] \in {asked[x], NULL}
  <2>1. asked \in [Addr -> Nat \cup {NULL}]
    BY DEF HInv
  <2> QED BY <1>2, <1>3, <2>1
<1>9. \A x \in Allocated(heap') : x \in Addr /\ x \in Allocated(heap)
  BY <1>7 DEF Allocated
<1>10. Step
  BY <1>5, <1>6, <1>8, <1>9 DEF Step, Shrunk
<1> QED BY <1>1, <1>7, <1>10, CodeDropped

\* The thread starts.
LEMMA StartBoth ==
  ASSUME HInv, KernelLoads, NEW c \in {KERNEL, CMD}, thread_startMed(c),
         NEW j, NEW x0, KernelGot(j, heap, x0, InfoSize), InfoSize \in Nat, StackSize \in Nat,
         NEW y0, KernelGot(heap', j, y0, StackSize), NEW m \in Med \ alive,
         asked' = [asked EXCEPT ![x0] = InfoSize, ![y0] = StackSize],
         alive' = alive \cup {m},
         med' = [med EXCEPT ![m] = [info |-> x0, stack |-> y0, code |-> loaded[c]]]
  PROVE  Step /\ Callers'
<1> USE Consts
<1> DEFINE b == loaded[c]
<1>1. /\ c = KERNEL /\ b \in Allocated(heap) /\ b # NULL /\ heap.pid[b] = KERNEL
      /\ loaded' = [loaded EXCEPT ![KERNEL] = NULL] /\ b = loaded[KERNEL] /\ KERNEL \in alive
  BY CodeIs
<1>2. med' = [med EXCEPT ![m] = [info |-> x0, stack |-> y0, code |-> b]]
  OBVIOUS
<1> HIDE DEF b
<1>3. /\ x0 \in Addr /\ y0 \in Addr /\ b \in Addr /\ x0 # y0
      /\ x0 \notin Allocated(heap) /\ y0 \notin Allocated(heap) /\ b # x0 /\ b # y0
      /\ Allocated(heap') = Allocated(heap) \cup {x0, y0}
      /\ heap'.pid[x0] = KERNEL /\ heap'.pid[y0] = KERNEL
      /\ heap'.size[x0] = j.size[x0] /\ Extent(j, x0) >= InfoSize + HDR
      /\ Extent(heap', y0) >= StackSize + HDR
      /\ Core(heap') /\ ListsOf(heap', Pid, Allocated(heap'))
      /\ \A x \in Allocated(heap) :
           x \in Addr /\ heap'.pid[x] = heap.pid[x] /\ heap'.size[x] = heap.size[x]
  BY <1>1 DEF KernelGot, Grown, Allocated
<1>4. /\ asked' \in [Addr -> Nat \cup {NULL}] /\ asked'[x0] = InfoSize /\ asked'[y0] = StackSize
      /\ \A x \in Allocated(heap) : asked'[x] = asked[x]
  <2>1. asked \in [Addr -> Nat \cup {NULL}]
    BY DEF HInv
  <2> QED BY <1>3, <2>1
<1>5. Extent(heap', x0) >= InfoSize + HDR
  BY <1>3 DEF Extent
<1>6. Step
  BY <1>1, <1>3, <1>4, <1>5 DEF Step
<1>7. Callers
  BY DEF HInv
<1>8. alive' \subseteq Pid /\ {KERNEL, CMD} \subseteq alive'
      /\ \A a \in Allocated(heap') : heap'.pid[a] \in alive' \cup {NULL}
  BY <1>1, <1>3, <1>7 DEF Callers
<1>9. /\ loaded' \in [{KERNEL, CMD} -> Addr \cup {NULL}] /\ loaded'[CMD] = NULL
      /\ loaded'[KERNEL] = NULL
  BY <1>1, <1>7 DEF Callers, KERNEL, CMD
<1>10. Mine' = Mine \cup {x0, y0}
  BY <1>3 DEF Mine
<1>11. /\ b \in Mine /\ x0 \notin Mine /\ y0 \notin Mine /\ NULL \notin Mine'
  BY <1>1, <1>3 DEF Mine, Allocated
<1>12. /\ med' \in [Med -> [info : Addr \cup {NULL}, stack : Addr \cup {NULL},
                            code : Addr \cup {NULL}]]
       /\ med'[m].info = x0 /\ med'[m].stack = y0 /\ med'[m].code = b
       /\ \A o \in Med \ {m} : med'[o] = med[o]
  BY <1>2, <1>3, <1>7 DEF Callers
<1>13. Bufs(m)' = {x0, y0, b} /\ \A o \in Med \ {m} : Bufs(o)' = Bufs(o)
  BY <1>12 DEF Bufs
<1>14. \A o \in Med \cap alive : o # m /\ Bufs(o) \subseteq Mine \ {b}
  BY <1>1, <1>7 DEF Callers
<1>15. ASSUME NEW o \in Med \cap alive'
       PROVE  /\ Bufs(o)' \subseteq Mine' \ {NULL}
              /\ med'[o].info # med'[o].stack /\ med'[o].info # med'[o].code
              /\ med'[o].stack # med'[o].code
              /\ \A q \in (Med \cap alive') \ {o} : Bufs(o)' \cap Bufs(q)' = {}
  <2>1. CASE o = m
    <3>1. ASSUME NEW q \in (Med \cap alive') \ {o} PROVE Bufs(o)' \cap Bufs(q)' = {}
      <4>1. q \in Med \cap alive /\ q # m
        BY <2>1
      <4>2. Bufs(q)' = Bufs(q) /\ Bufs(q) \subseteq Mine \ {b}
        BY <1>13, <1>14, <4>1
      <4> QED BY <1>11, <1>13, <2>1, <4>2
    <3> QED BY <1>1, <1>3, <1>10, <1>11, <1>12, <1>13, <2>1, <3>1
  <2>2. CASE o # m
    <3>1. o \in Med \cap alive
      BY <2>2
    <3>2. Bufs(o)' = Bufs(o) /\ med'[o] = med[o] /\ Bufs(o) \subseteq Mine \ {b}
      BY <1>12, <1>13, <1>14, <2>2
    <3>3. ASSUME NEW q \in (Med \cap alive') \ {o} PROVE Bufs(o)' \cap Bufs(q)' = {}
      <4>1. CASE q = m
        BY <1>11, <1>13, <3>2, <4>1
      <4>2. CASE q # m
        <5>1. q \in (Med \cap alive) \ {o} /\ Bufs(q)' = Bufs(q)
          BY <1>13, <4>2
        <5> QED BY <1>7, <3>1, <3>2, <5>1 DEF Callers
      <4> QED BY <4>1, <4>2
    <3>4. /\ med[o].info # med[o].stack /\ med[o].info # med[o].code
          /\ med[o].stack # med[o].code
      BY <1>7, <3>1 DEF Callers
    <3>5. Bufs(o)' \subseteq Mine' \ {NULL}
      BY <1>10, <1>11, <3>2
    <3> QED BY <3>2, <3>3, <3>4, <3>5
  <2> QED BY <2>1, <2>2
<1>16. \A o \in Med \ alive' : med'[o] = NoMed
  BY <1>7, <1>12 DEF Callers
<1> QED BY <1>6, <1>8, <1>9, <1>12, <1>15, <1>16 DEF Callers

LEMMA StartMedKeeps ==
  ASSUME NoWrap, KernelLoads, HInv, NEW c \in {KERNEL, CMD}, thread_startMed(c)
  PROVE  Step /\ Callers'
<1> USE Consts
<1>k. PICK force \in {TRUE, FALSE} : force = TRUE
  OBVIOUS
<1> DEFINE i == internalMalloc(heap, InfoSize, c, force)
           k == internalMalloc(i.h, StackSize, c, force)
<1>1. c = KERNEL /\ c \in Pid /\ OwnerFor(c, force) = KERNEL
  BY CodeIs DEF OwnerFor
<1>2. Core(heap) /\ ListsOf(heap, Pid, Allocated(heap))
  BY DEF HInv
<1>3. i.b # NULL => KernelGot(i.h, heap, i.b, InfoSize)
  BY <1>1, <1>2, GotIs
<1>4. InfoSize \in Nat /\ StackSize \in Nat
  BY Sizes
<1>5. i.b # NULL /\ k.b # NULL => KernelGot(k.h, i.h, k.b, StackSize)
  <2> SUFFICES ASSUME i.b # NULL, k.b # NULL PROVE KernelGot(k.h, i.h, k.b, StackSize)
    OBVIOUS
  <2> DEFINE j == i.h
  <2>1. Core(j) /\ ListsOf(j, Pid, Allocated(j))
    BY <1>3 DEF KernelGot
  <2>2. internalMalloc(j, StackSize, c, force).b # NULL
    OBVIOUS
  <2> HIDE DEF i, j
  <2> QED BY <1>1, <2>1, <2>2, GotIs DEF j
<1>6. \/ /\ i.b # NULL /\ k.b # NULL /\ heap' = k.h
         /\ asked' = [asked EXCEPT ![i.b] = InfoSize, ![k.b] = StackSize]
         /\ \E m \in Med \ alive :
              /\ alive' = alive \cup {m}
              /\ med' = [med EXCEPT ![m] = [info |-> i.b, stack |-> k.b, code |-> loaded[c]]]
      \/ /\ i.b # NULL /\ heap' = kfree(free(i.h, i.b, c), loaded[c], c)
         /\ asked' = [asked EXCEPT ![loaded[c]] = NULL,
                        ![i.b] = IF MayRm(i.h, i.b, c, FALSE) THEN @ ELSE InfoSize]
         /\ UNCHANGED <<alive, med>>
      \/ /\ heap' = kfree(heap, loaded[c], c) /\ asked' = [asked EXCEPT ![loaded[c]] = NULL]
         /\ UNCHANGED <<alive, med>>
  BY <1>k DEF thread_startMed
<1> HIDE DEF i, k
<1>7. CASE /\ i.b # NULL /\ k.b # NULL /\ heap' = k.h
           /\ asked' = [asked EXCEPT ![i.b] = InfoSize, ![k.b] = StackSize]
           /\ \E m \in Med \ alive :
                /\ alive' = alive \cup {m}
                /\ med' = [med EXCEPT ![m] = [info |-> i.b, stack |-> k.b, code |-> loaded[c]]]
  <2>1. PICK m \in Med \ alive :
          /\ alive' = alive \cup {m}
          /\ med' = [med EXCEPT ![m] = [info |-> i.b, stack |-> k.b, code |-> loaded[c]]]
    BY <1>7
  <2>2. KernelGot(i.h, heap, i.b, InfoSize) /\ KernelGot(heap', i.h, k.b, StackSize)
    BY <1>3, <1>5, <1>7
  <2> QED BY <1>4, <1>7, <2>1, <2>2, StartBoth
<1>8. CASE /\ i.b # NULL /\ heap' = kfree(free(i.h, i.b, c), loaded[c], c)
           /\ asked' = [asked EXCEPT ![loaded[c]] = NULL,
                          ![i.b] = IF MayRm(i.h, i.b, c, FALSE) THEN @ ELSE InfoSize]
           /\ UNCHANGED <<alive, med>>
  BY <1>3, <1>8, StartNoStack
<1>9. CASE /\ heap' = kfree(heap, loaded[c], c) /\ asked' = [asked EXCEPT ![loaded[c]] = NULL]
           /\ UNCHANGED <<alive, med>>
  BY <1>9, StartNoInfo
<1> QED BY <1>6, <1>7, <1>8, <1>9

\* thread_doKill: all that the MED owns, then its three buffers.
LEMMA KillKeeps ==
  ASSUME HInv, NEW c \in Pid, NEW m \in Med, thread_doKill(m, c)
  PROVE  Step /\ Callers'
<1> USE Consts
<1> DEFINE h1 == thread_listFree(heap, m)
           h2 == kfree(h1, med[m].stack, c)
           h3 == kfree(h2, med[m].code, c)
           h4 == kfree(h3, med[m].info, c)
           T == Pid \ {m}
           Own == OwnedIn(heap, Allocated(heap), m)
           s == med[m].stack
           d == med[m].code
           i == med[m].info
<1>1. /\ m \in alive /\ c \in alive \ {m}
      /\ heap' = [h4 EXCEPT !.head[m] = NULL]
      /\ asked' = [a \in Addr |-> IF h4.size[a] < 0 THEN asked[a] ELSE NULL]
      /\ alive' = alive \ {m} /\ med' = [med EXCEPT ![m] = NoMed] /\ loaded' = loaded
  BY DEF thread_doKill
<1>2. /\ Core(heap) /\ ListsOf(heap, Pid, Allocated(heap)) /\ Callers
      /\ asked \in [Addr -> Nat \cup {NULL}]
  BY DEF HInv
<1>3. /\ s \in Allocated(heap) /\ d \in Allocated(heap) /\ i \in Allocated(heap)
      /\ heap.pid[s] = KERNEL /\ heap.pid[d] = KERNEL /\ heap.pid[i] = KERNEL
      /\ s # d /\ s # i /\ d # i
  <2>1. Bufs(m) \subseteq Mine /\ i # s /\ i # d /\ s # d
    BY <1>1, <1>2 DEF Callers
  <2> QED BY <2>1 DEF Bufs, Mine
<1>4. Core(h1) /\ ListsOf(h1, T, Allocated(h1)) /\ Shrunk(h1, heap, Own)
  <2> DEFINE h == heap
  <2>1. Core(h) /\ ListsOf(h, Pid, Allocated(h)) /\ m \in Pid
    BY <1>2
  <2> HIDE DEF h
  <2>2. LET g == thread_listFree(h, m)
        IN  Core(g) /\ ListsOf(g, Pid \ {m}, Allocated(g))
            /\ Shrunk(g, h, OwnedIn(h, Allocated(h), m))
    BY <2>1, ListFree
  <2> QED BY <2>2 DEF h
<1>5. T \in SUBSET Pid /\ KERNEL \in T /\ KERNEL # m
  OBVIOUS
<1>6. s \notin Own /\ d \notin Own /\ i \notin Own
  BY <1>3, <1>5 DEF OwnedIn
<1>d. h2 = kfree(h1, s, c) /\ h3 = kfree(h2, d, c) /\ h4 = kfree(h3, i, c)
  OBVIOUS
<1> HIDE DEF h1, h2, h3, h4, T, Own, s, d, i
<1>7. Core(h2) /\ ListsOf(h2, T, Allocated(h2)) /\ Shrunk(h2, h1, {s})
  <2>1. s \in Allocated(h1) /\ h1.pid[s] \in T /\ h1.pid[s] \in {c, KERNEL}
    BY <1>3, <1>4, <1>5, <1>6 DEF Shrunk
  <2> QED BY <1>d, <1>4, <1>5, <2>1, KfreeIs
<1>8. Core(h3) /\ ListsOf(h3, T, Allocated(h3)) /\ Shrunk(h3, h2, {d})
  <2>1. d \in Allocated(h2) /\ h2.pid[d] \in T /\ h2.pid[d] \in {c, KERNEL}
    BY <1>3, <1>4, <1>5, <1>6, <1>7 DEF Shrunk
  <2> QED BY <1>d, <1>5, <1>7, <2>1, KfreeIs
<1>9. Core(h4) /\ ListsOf(h4, T, Allocated(h4)) /\ Shrunk(h4, h3, {i})
  <2>1. i \in Allocated(h3) /\ h3.pid[i] \in T /\ h3.pid[i] \in {c, KERNEL}
    BY <1>3, <1>4, <1>5, <1>6, <1>7, <1>8 DEF Shrunk
  <2> QED BY <1>d, <1>5, <1>8, <2>1, KfreeIs
<1>10. /\ Allocated(h4) = Allocated(heap) \ (Own \cup {s, d, i})
       /\ \A x \in Allocated(h4) : h4.size[x] = heap.size[x] /\ h4.pid[x] = heap.pid[x]
  BY <1>4, <1>7, <1>8, <1>9 DEF Shrunk
<1>11. Shape(h4) /\ h4.head \in [Pid -> Addr \cup {NULL}]
  BY <1>9 DEF Core, Shape
<1>12. /\ Shape(heap') /\ SameBlocks(heap', h4) /\ SameFree(heap', h4) /\ heap'.total = h4.total
       /\ heap'.pid = h4.pid /\ heap'.lnxt = h4.lnxt /\ heap'.lprev = h4.lprev
       /\ heap'.head[m] = NULL /\ \A t \in T : heap'.head[t] = h4.head[t]
  <2> DEFINE H == [h4.head EXCEPT ![m] = NULL]
  <2>1. H \in [Pid -> Addr \cup {NULL}] /\ H[m] = NULL /\ \A t \in T : H[t] = h4.head[t]
    BY <1>11 DEF T
  <2>2. heap' = [h4 EXCEPT !.head = H]
    BY <1>1, <1>11 DEF Shape
  <2> HIDE DEF H
  <2> QED BY <1>11, <2>1, <2>2 DEF Shape, SameBlocks, SameFree
<1>13. Core(heap') /\ Allocated(heap') = Allocated(h4)
  BY <1>9, <1>12, CoreSame
<1>14. \A x \in Allocated(heap') : /\ x \in Addr /\ x \in Allocated(heap) /\ heap'.pid[x] # m
                                   /\ heap'.size[x] = heap.size[x] /\ heap'.pid[x] = heap.pid[x]
  BY <1>10, <1>12, <1>13 DEF Own, OwnedIn, Allocated, SameBlocks
<1>15. ListsOf(heap', Pid, Allocated(heap'))
  <2> SUFFICES ASSUME NEW t \in Pid
               PROVE  Linked(heap'.lnxt, heap'.lprev, heap'.head[t],
                             OwnedIn(heap', Allocated(heap'), t))
    BY DEF ListsOf
  <2>1. CASE t = m
    <3>1. OwnedIn(heap', Allocated(heap'), t) = {} /\ heap'.head[t] = NULL
      BY <1>12, <1>14, <2>1 DEF OwnedIn
    <3> QED BY <3>1, LinkedNone
  <2>2. CASE t # m
    <3>1. t \in T /\ OwnedIn(heap', Allocated(heap'), t) = OwnedIn(h4, Allocated(h4), t)
      BY <1>12, <1>13, <2>2 DEF T, OwnedIn
    <3>2. Linked(h4.lnxt, h4.lprev, h4.head[t], OwnedIn(h4, Allocated(h4), t))
      BY <1>9, <3>1 DEF ListsOf
    <3> QED BY <1>12, <3>1, <3>2
  <2> QED BY <2>1, <2>2
<1>16. /\ asked' \in [Addr -> Nat \cup {NULL}] /\ \A x \in Addr : asked'[x] \in {asked[x], NULL}
  BY <1>1, <1>2
<1>17. Step
  BY <1>13, <1>14, <1>15, <1>16 DEF Step
<1>18. alive' \subseteq Pid /\ {KERNEL, CMD} \subseteq alive'
       /\ \A a \in Allocated(heap') : heap'.pid[a] \in alive' \cup {NULL}
  <2>1. alive \subseteq Pid /\ {KERNEL, CMD} \subseteq alive
        /\ \A a \in Allocated(heap) : heap.pid[a] \in alive \cup {NULL}
    BY <1>1, <1>2 DEF Callers
  <2>2. KERNEL # m /\ CMD # m
    OBVIOUS
  <2>3. \A a \in Allocated(heap') : heap'.pid[a] \in alive' \cup {NULL}
    BY <1>1, <1>14, <2>1
  <2> QED BY <1>1, <2>1, <2>2, <2>3
<1>19. Own \cap Mine = {} /\ {s, d, i} = Bufs(m)
  BY <1>5 DEF Own, OwnedIn, Mine, Bufs, s, d, i
<1>20. Mine \ Bufs(m) \subseteq Mine'
  BY <1>10, <1>12, <1>13, <1>19 DEF Mine
<1>21. /\ med' \in [Med -> [info : Addr \cup {NULL}, stack : Addr \cup {NULL},
                            code : Addr \cup {NULL}]]
       /\ med'[m] = NoMed /\ \A o \in Med \ {m} : med'[o] = med[o] /\ Bufs(o)' = Bufs(o)
  <2>1. NoMed \in [info : Addr \cup {NULL}, stack : Addr \cup {NULL}, code : Addr \cup {NULL}]
    BY DEF NoMed
  <2>2. /\ med' \in [Med -> [info : Addr \cup {NULL}, stack : Addr \cup {NULL},
                             code : Addr \cup {NULL}]]
        /\ med'[m] = NoMed /\ \A o \in Med \ {m} : med'[o] = med[o]
    BY <1>1, <1>2, <2>1 DEF Callers
  <2> QED BY <2>2 DEF Bufs
<1>22. \A o \in Med \ alive' : med'[o] = NoMed
  BY <1>1, <1>2, <1>21 DEF Callers
<1>23. loaded' = loaded /\ (loaded[KERNEL] # NULL => loaded[KERNEL] \in Mine')
  <2>1. loaded[KERNEL] # NULL => loaded[KERNEL] \in Mine \ Bufs(m)
    BY <1>1, <1>2 DEF Callers
  <2> QED BY <1>1, <1>20, <2>1
<1>24. ASSUME NEW o \in Med \cap alive'
       PROVE  /\ Bufs(o)' \subseteq Mine' \ {loaded[KERNEL]}
              /\ med'[o].info # med'[o].stack /\ med'[o].info # med'[o].code
              /\ med'[o].stack # med'[o].code
              /\ \A q \in (Med \cap alive') \ {o} : Bufs(o)' \cap Bufs(q)' = {}
  <2>1. o \in Med \cap alive /\ o # m /\ med'[o] = med[o] /\ Bufs(o)' = Bufs(o)
    BY <1>1, <1>21
  <2>2. /\ med[o].info # med[o].stack /\ med[o].info # med[o].code
        /\ med[o].stack # med[o].code /\ Bufs(o) \subseteq Mine \ {loaded[KERNEL]}
        /\ Bufs(o) \cap Bufs(m) = {}
    BY <1>1, <1>2, <2>1 DEF Callers
  <2>3. \A q \in (Med \cap alive') \ {o} : Bufs(o)' \cap Bufs(q)' = {}
    <3> SUFFICES ASSUME NEW q \in (Med \cap alive') \ {o} PROVE Bufs(o)' \cap Bufs(q)' = {}
      OBVIOUS
    <3>1. q \in (Med \cap alive) \ {o} /\ Bufs(q)' = Bufs(q)
      BY <1>1, <1>21
    <3> QED BY <1>2, <2>1, <3>1 DEF Callers
  <2> QED BY <1>20, <2>1, <2>2, <2>3
<1>25. loaded \in [{KERNEL, CMD} -> Addr \cup {NULL}] /\ loaded[CMD] = NULL
  BY <1>2 DEF Callers
<1> QED BY <1>17, <1>18, <1>21, <1>22, <1>23, <1>24, <1>25 DEF Callers

LEMMA NextHInv ==
  ASSUME NoWrap, KernelLoads, HInv, [Next]_vars
  PROVE  HInv' /\ Step
<1>1. CASE thread_init
  BY <1>1, StartKeeps, Keeps
<1>2. CASE \E c \in Pid : \E n \in Requests : malloc(c, n) \/ kmalloc(c, n)
  BY <1>2, MallocKeeps, Keeps
<1>3. CASE \E c \in Pid : \E b \in Addr : Free(c, b) \/ Kfree(c, b)
  BY <1>3, FreeKeeps, Keeps
<1>4. CASE \E c \in Pid : \E b \in Addr, n \in Requests : Realloc(c, b, n)
  BY <1>4, ReallocKeeps, Keeps
<1>5. CASE \E c \in Pid : \E m \in Med : thread_doKill(m, c)
  BY <1>5, KillKeeps, Keeps
<1>6. CASE \E c \in {KERNEL, CMD} : LoadCode(c)
  BY <1>6, LoadKeeps, Keeps
<1>7. CASE \E c \in {KERNEL, CMD} : thread_startMed(c)
  BY <1>7, StartMedKeeps, Keeps
<1>8. CASE UNCHANGED vars
  <2>1. /\ heap' = heap /\ alive' = alive /\ loaded' = loaded /\ med' = med /\ asked' = asked
    BY <1>8 DEF vars
  <2>2. Step
    BY <2>1 DEF Step, HInv
  <2>3. Mine' = Mine /\ \A m \in Med : Bufs(m)' = Bufs(m)
    BY <2>1 DEF Mine, Bufs
  <2>4. Callers'
    BY <2>1, <2>3 DEF HInv, Callers
  <2> QED BY <2>2, <2>4, Keeps
<1> QED BY <1>1, <1>2, <1>3, <1>4, <1>5, <1>6, <1>7, <1>8 DEF Next

-----------------------------------------------------------------------------
(* What the invariant gives. *)

\* A block is no larger than the pool, and no more is in use than there is.
LEMMA HeapTyped ==
  ASSUME HInv
  PROVE  TypeOK
<1> USE Consts
<1>1. Core(heap) /\ Shape(heap)
  BY DEF HInv, Core
<1>2. \A a \in Addr : heap.size[a] \in -PoolSize..PoolSize
  <2> SUFFICES ASSUME NEW a \in Addr PROVE heap.size[a] \in -PoolSize..PoolSize
    OBVIOUS
  <2>1. heap.size[a] \in Int
    BY <1>1 DEF Shape
  <2>2. CASE heap.size[a] = 0
    BY <2>2
  <2>3. CASE heap.size[a] # 0
    <3>1. a \in Blocks(heap)
      BY <2>3 DEF Blocks
    <3>2. Extent(heap, a) <= PoolSize
      BY <1>1, <3>1, TileEnds DEF Core
    <3> QED BY <2>1, <3>2 DEF Extent
  <2> QED BY <2>2, <2>3
<1>3. heap.total \in 0..PoolSize
  <2>1. IsFiniteSet(Addr) /\ Cardinality(Addr) = PoolSize
    BY FS_Interval DEF Addr
  <2>2. BytesUsed(heap) \subseteq Addr
    <3> SUFFICES ASSUME NEW a \in Allocated(heap), NEW x \in a..(End(heap, a) - 1) PROVE x \in Addr
      BY DEF BytesUsed
    <3>1. a \in Blocks(heap) /\ a \in Addr /\ heap.size[a] \in Int
      BY <1>1 DEF Allocated, Blocks, Shape
    <3>2. End(heap, a) <= PoolSize /\ End(heap, a) \in Nat
      BY <1>1, <3>1, TileEnds DEF Core
    <3> HIDE DEF End
    <3> QED BY <3>1, <3>2 DEF Addr
  <2>3. Cardinality(BytesUsed(heap)) \in 0..PoolSize
    <3>1. /\ IsFiniteSet(BytesUsed(heap))
          /\ Cardinality(BytesUsed(heap)) <= Cardinality(Addr)
      BY <2>1, <2>2, FS_Subset
    <3>2. Cardinality(BytesUsed(heap)) \in Nat
      BY <3>1, FS_CardinalityType
    <3> QED BY <2>1, <3>1, <3>2
  <2> QED BY <1>1, <2>3 DEF Core
<1>4. heap \in HeapType
  <2>1. heap.size \in [Addr -> -PoolSize..PoolSize]
    BY <1>1, <1>2 DEF Shape
  <2> QED BY <1>1, <1>3, <2>1 DEF HeapType, Shape
<1> QED BY <1>4 DEF TypeOK, HInv, Callers

\* The lists as the walks of their links.
LEMMA ListsWalk ==
  ASSUME HInv
  PROVE  FreeListExact /\ OwnersListed
<1> USE Consts
<1>1. Core(heap) /\ ListsOf(heap, Pid, Allocated(heap)) /\ Callers
  BY DEF HInv
<1>2. FreeListExact
  <2>1. Linked(heap.fnxt, heap.fprev, heap.first, FreeBlocks(heap))
    BY <1>1 DEF Core, FreeSet
  <2> QED BY <2>1, WalkLinked DEF FreeListExact, FreeList
<1>3. ASSUME NEW t \in Pid
      PROVE  LET l == OwnedBy(heap, t)
             IN  /\ {l[i] : i \in DOMAIN l} = {a \in Allocated(heap) : heap.pid[a] = t}
                 /\ t \notin alive => l = <<>>
  <2>1. Linked(heap.lnxt, heap.lprev, heap.head[t], OwnedIn(heap, Allocated(heap), t))
    BY <1>1 DEF ListsOf
  <2>2. OwnedIn(heap, Allocated(heap), t) = {a \in Allocated(heap) : heap.pid[a] = t}
    BY DEF OwnedIn
  <2>3. t \notin alive => OwnedIn(heap, Allocated(heap), t) = {}
    BY <1>1 DEF Callers, OwnedIn
  <2> DEFINE S == OwnedIn(heap, Allocated(heap), t)
             w == Walk(heap.lnxt, heap.head[t])
  <2>4. {w[i] : i \in DOMAIN w} = S /\ (S = {} => w = <<>>)
    <3>1. Linked(heap.lnxt, heap.lprev, heap.head[t], S)
      BY <2>1
    <3> HIDE DEF S
    <3> QED BY <3>1, WalkLinked
  <2> HIDE DEF w
  <2>5. /\ {w[i] : i \in DOMAIN w} = {a \in Allocated(heap) : heap.pid[a] = t}
        /\ t \notin alive => w = <<>>
    BY <2>2, <2>3, <2>4
  <2> QED BY <2>5 DEF OwnedBy, w
<1> QED BY <1>2, <1>3 DEF OwnersListed

-----------------------------------------------------------------------------
(* The theorems. *)

LEMMA HeapInv ==
  ASSUME NoWrap, KernelLoads
  PROVE  Spec => []HInv
<1>1. Init => HInv
  BY InitHInv
<1>2. HInv /\ [Next]_vars => HInv'
  BY NextHInv
<1> QED BY <1>1, <1>2, PTL DEF Spec

\* Every link of the allocator (malloc.c) and of the lists in thread.c is an
\* address of the pool or NULL, and no size exceeds the pool.
THEOREM HeapTypeCorrect ==
  ASSUME NoWrap, KernelLoads
  PROVE  Spec => []TypeOK
<1>1. HInv => TypeOK
  BY HeapTyped
<1> QED BY <1>1, HeapInv, PTL

\* internalMalloc splits and internalFree merges so that the blocks always tile the
\* pool, no two free ones are neighbours, and totalloc is the sum of those in use.
THEOREM TilesHold ==
  ASSUME NoWrap, KernelLoads
  PROVE  Spec => []BlocksTile
<1>1. HInv => BlocksTile
  BY DEF HInv, Core, BlocksTile
<1> QED BY <1>1, HeapInv, PTL

\* The free list that malloc searches holds exactly the free blocks.
THEOREM FreeListHolds ==
  ASSUME NoWrap, KernelLoads
  PROVE  Spec => []FreeListExact
<1>1. HInv => FreeListExact
  BY ListsWalk
<1> QED BY <1>1, HeapInv, PTL

\* Whatever a thread has from malloc is on the list that thread_listFree walks when
\* it is killed, and a thread that is gone owns nothing.
THEOREM OwnersHold ==
  ASSUME NoWrap, KernelLoads
  PROVE  Spec => []OwnersListed
<1>1. HInv => OwnersListed
  BY ListsWalk
<1> QED BY <1>1, HeapInv, PTL

\* malloc hands out a block with room for the request and its header.
THEOREM BuffersBigEnough ==
  ASSUME NoWrap, KernelLoads
  PROVE  Spec => []BigEnough
<1>1. HInv => BigEnough
  BY DEF HInv
<1> QED BY <1>1, HeapInv, PTL

\* No call moves, resizes or gives away a buffer that stays in use.
THEOREM BuffersNeverMove ==
  ASSUME NoWrap, KernelLoads
  PROVE  Spec => BuffersStay
<1> DEFINE Stays == \A a \in Addr : heap.size[a] < 0 /\ heap'.size[a] < 0 /\ asked'[a] # NULL =>
                      /\ heap'.size[a] = heap.size[a]
                      /\ heap'.pid[a] = heap.pid[a]
                      /\ asked'[a] = asked[a]
<1>1. HInv /\ [Next]_vars => Stays
  BY NextHInv, StepStays
<1>2. HInv /\ [Next]_vars => [Stays]_vars
  BY <1>1
<1> QED BY <1>2, HeapInv, PTL DEF Spec, BuffersStay

=============================================================================
