------------------------------ MODULE FatProofs ------------------------------
(***************************************************************************)
(* The files of a volume of any size, with a cache of any size and any     *)
(* number of names: no two share a cluster, what was closed survives when  *)
(* the power goes between two writes, and no cluster is lost.              *)
(*                                                                         *)
(* The chain of a file is a sequence of clusters, ch[f], and ent[f] is the *)
(* directory entry a closed file ends with; both are ghosts that the       *)
(* invariant says exist.  What the disk will hold once the pending writes  *)
(* are made is never computed: Lands says what the last write to a place   *)
(* leaves there, Steady that no moment before or after differs.            *)
(***************************************************************************)
EXTENDS Fat, FiniteSetTheorems, SequenceTheorems, WellFoundedInduction, TLAPS

(***************************************************************************)
(* Numbers and loops.                                                      *)
(***************************************************************************)
LEMMA Consts ==
  /\ NClusters \in Nat \ {0} /\ ClustersPerSector \in Nat \ {0}
  /\ CacheSize \in Nat \ {0} /\ MAX_OPEN \in Nat \ {0}
  /\ MaxSize \in Nat /\ MaxCrashes \in Nat
BY TableAssumption, VolumeAssumption

\* A nonempty set of numbers has a least one.
LEMMA LeastNumber ==
  ASSUME NEW A \in SUBSET Nat, A # {}
  PROVE  \E m \in A : \A k \in A : m <= k
<1> DEFINE R == {ss \in Nat \X Nat : ss[1] < ss[2]}
<1>1. IsWellFoundedOn(R, Nat)
  BY NatLessThanWellFounded DEF OpToRel
<1>2. PICK m \in A : \A y \in A : ~(<<y, m>> \in R)
  <2> HIDE DEF R
  <2> QED BY <1>1, WFMin
<1>3. ASSUME NEW k \in A PROVE m <= k
  <2>1. ~(<<k, m>> \in R) /\ k \in Nat /\ m \in Nat
    BY <1>2
  <2> QED BY <2>1
<1> QED BY <1>3

\* What holds of 0 and passes from each number to the next holds up to n.
LEMMA UpTo ==
  ASSUME NEW n \in Nat, NEW S, 0 \in S, \A i \in 1..n : i - 1 \in S => i \in S
  PROVE  \A i \in 0..n : i \in S
<1> DEFINE Bad == {i \in 0..n : i \notin S}
<1> SUFFICES ASSUME Bad # {} PROVE FALSE
  OBVIOUS
<1>1. PICK m \in Bad : \A k \in Bad : m <= k
  <2>1. Bad \in SUBSET Nat
    OBVIOUS
  <2> HIDE DEF Bad
  <2> QED BY <2>1, LeastNumber
<1>2. m \in 1..n /\ m - 1 \in 0..n /\ ~(m <= m - 1) /\ m \notin S
  OBVIOUS
<1>3. m - 1 \in S
  BY <1>1, <1>2
<1> QED BY <1>2, <1>3

\* A loop of n steps on S, the i-th being g[i], is a function.
IsLoop(f, n, q, g) == f = [i \in 0..n |-> IF i = 0 THEN q ELSE g[i][f[i - 1]]]

LEMMA LoopExists ==
  ASSUME NEW S, NEW q \in S, NEW n \in Nat, NEW g, \A i \in 1..n, x \in S : g[i][x] \in S
  PROVE  \E f \in [0..n -> S] : IsLoop(f, n, q, g)
<1> DEFINE Made(m) == \E f \in [0..m -> S] :
                        \A i \in 0..m : f[i] = IF i = 0 THEN q ELSE g[i][f[i - 1]]
           Good == {m \in 0..n : Made(m)}
<1>1. 0 \in Good
  <2> DEFINE e == [i \in 0..0 |-> q]
  <2>1. e \in [0..0 -> S] /\ \A i \in 0..0 : e[i] = IF i = 0 THEN q ELSE g[i][e[i - 1]]
    OBVIOUS
  <2> HIDE DEF e
  <2> QED BY <2>1
<1>2. ASSUME NEW m \in 1..n, m - 1 \in Good PROVE m \in Good
  <2>1. PICK f \in [0..(m - 1) -> S] :
          \A i \in 0..(m - 1) : f[i] = IF i = 0 THEN q ELSE g[i][f[i - 1]]
    BY <1>2
  <2> DEFINE h == [i \in 0..m |-> IF i = 0 THEN q ELSE g[i][f[i - 1]]]
  <2>2. h \in [0..m -> S]
    BY <2>1
  <2>3. \A i \in 0..m : h[i] = IF i = 0 THEN q ELSE g[i][h[i - 1]]
    BY <2>1
  <2> HIDE DEF h
  <2> QED BY <2>2, <2>3
<1>3. n \in Good
  <2> HIDE DEF Good
  <2>1. \A i \in 0..n : i \in Good
    BY <1>1, <1>2, UpTo
  <2> QED BY <2>1
<1>4. PICK f \in [0..n -> S] : \A i \in 0..n : f[i] = IF i = 0 THEN q ELSE g[i][f[i - 1]]
  BY <1>3
<1> QED BY <1>4 DEF IsLoop

(***************************************************************************)
(* Chains.                                                                 *)
(***************************************************************************)
FirstIn(s)  == IF s = <<>> THEN 0 ELSE s[1]
After(s, i) == IF i < Len(s) THEN s[i + 1] ELSE EOF_MARK
On(s)       == {s[i] : i \in 1..Len(s)}

\* s spells a chain of the table.
IsChain(fat, s) ==
  /\ s \in Seq(Clusters)
  /\ \A i, j \in 1..Len(s) : s[i] = s[j] => i = j
  /\ \A i \in 1..Len(s) : fat[s[i]] = After(s, i)

\* What follows the first k clusters of s, and those k.
Beyond(s, k) == [i \in 1..(Len(s) - k) |-> s[i + k]]
Within(s, k) == [i \in 1..k |-> s[i]]
OnPast(s, k) == {s[i] : i \in (k + 1)..Len(s)}
OnUpTo(s, k) == {s[i] : i \in 1..k}

LEMMA SeqOfClusters ==
  ASSUME NEW s \in Seq(Clusters)
  PROVE  /\ Len(s) \in Nat /\ \A i \in 1..Len(s) : s[i] \in Clusters
         /\ s = <<>> <=> Len(s) = 0
         /\ \A i \in 1..Len(s) : s[i] \in Nat /\ s[i] # 0 /\ s[i] # EOF_MARK /\ s[i] # FREE
         /\ FirstIn(s) \in Nat /\ (FirstIn(s) = 0 <=> s = <<>>)
<1>1. Len(s) \in Nat /\ (\A i \in 1..Len(s) : s[i] \in Clusters) /\ (s = <<>> <=> Len(s) = 0)
  OBVIOUS
<1>2. \A c \in Clusters : c \in Nat /\ c # 0 /\ c # EOF_MARK /\ c # FREE
  BY Consts DEF Clusters, EOF_MARK, FREE
<1>3. s # <<>> => 1 \in 1..Len(s)
  BY <1>1
<1> QED BY <1>1, <1>2, <1>3 DEF FirstIn

\* A chain is not longer than the volume, and it has as many clusters as places.
LEMMA ChainFits ==
  ASSUME NEW fat, NEW s, IsChain(fat, s)
  PROVE  /\ IsFiniteSet(On(s)) /\ Cardinality(On(s)) = Len(s) /\ Len(s) <= NClusters
         /\ On(s) \subseteq Clusters
<1>0. s \in Seq(Clusters) /\ \A i, j \in 1..Len(s) : s[i] = s[j] => i = j
  BY DEF IsChain
<1>1. Len(s) \in Nat /\ (\A i \in 1..Len(s) : s[i] \in Clusters) /\ On(s) \subseteq Clusters
  BY <1>0, SeqOfClusters DEF On
<1> DEFINE g == [i \in 1..Len(s) |-> s[i]]
<1>2. IsFiniteSet(1..Len(s)) /\ Cardinality(1..Len(s)) = Len(s)
  BY <1>1, FS_Interval
<1>3. IsFiniteSet(Clusters) /\ Cardinality(Clusters) = NClusters
  BY Consts, FS_Interval DEF Clusters
<1>4. g \in Bijection(1..Len(s), On(s))
  BY <1>0 DEF On, Bijection, Injection, Surjection, IsInjective
<1>5. ExistsBijection(1..Len(s), On(s))
  <2> HIDE DEF g
  <2> QED BY <1>4 DEF ExistsBijection
<1>6. IsFiniteSet(On(s)) /\ Cardinality(On(s)) = Len(s)
  BY <1>2, <1>5, FS_Bijection
<1>7. Cardinality(On(s)) <= Cardinality(Clusters)
  BY <1>1, <1>3, FS_Subset
<1> QED BY <1>1, <1>3, <1>6, <1>7

\* The next cluster is the next of the sequence.
LEMMA NextOnChain ==
  ASSUME NEW fat, NEW s, IsChain(fat, s)
  PROVE  /\ \A i \in 1..Len(s) :
              getNextCluster(fat, s[i]) = IF i < Len(s) THEN s[i + 1] ELSE 0
         /\ getNextCluster(fat, 0) = 0
<1>1. s \in Seq(Clusters) /\ \A i \in 1..Len(s) : fat[s[i]] = After(s, i)
  BY DEF IsChain
<1>2. 0 \notin Clusters
  BY Consts DEF Clusters
<1>3. ASSUME NEW i \in 1..Len(s)
      PROVE  getNextCluster(fat, s[i]) = IF i < Len(s) THEN s[i + 1] ELSE 0
  <2>1. s[i] \in Clusters /\ Len(s) \in Nat /\ fat[s[i]] = After(s, i)
    BY <1>1, SeqOfClusters
  <2>2. CASE i < Len(s)
    <3>1. i + 1 \in 1..Len(s)
      BY <2>1, <2>2
    <3>2. s[i + 1] # EOF_MARK
      BY <1>1, <3>1, SeqOfClusters
    <3> QED BY <2>1, <2>2, <3>2 DEF After, getNextCluster
  <2>3. CASE ~(i < Len(s))
    BY <2>1, <2>3 DEF After, getNextCluster
  <2> QED BY <2>2, <2>3
<1> QED BY <1>2, <1>3 DEF getNextCluster

\* ChainAt gives the places of the sequence, then 0 (fat_getNextCluster).
LEMMA ChainAtIs ==
  ASSUME NEW fat, NEW s, IsChain(fat, s)
  PROVE  ChainAt(fat, FirstIn(s)) = [n \in 0..NClusters |-> IF n < Len(s) THEN s[n + 1] ELSE 0]
<1> USE Consts
<1> DEFINE first == FirstIn(s)
           Turn(f, n) == IF n = 0 THEN first ELSE getNextCluster(fat, f[n - 1])
           w == [n \in 0..NClusters |-> IF n < Len(s) THEN s[n + 1] ELSE 0]
           at == CHOOSE f : f = [n \in 0..NClusters |-> Turn(f, n)]
<1>0. Len(s) \in Nat /\ (s = <<>> <=> Len(s) = 0)
  BY SeqOfClusters DEF IsChain
<1>1. w = [n \in 0..NClusters |-> Turn(w, n)]
  <2> SUFFICES ASSUME NEW n \in 0..NClusters PROVE w[n] = Turn(w, n)
    BY Zenon
  <2>1. CASE n = 0
    BY <2>1, <1>0 DEF FirstIn
  <2>2. CASE n # 0 /\ n <= Len(s)
    <3>1. n - 1 \in 0..NClusters /\ n \in 1..Len(s) /\ n - 1 < Len(s)
      BY <1>0, <2>2
    <3>2. w[n - 1] = s[n]
      BY <3>1
    <3>3. getNextCluster(fat, s[n]) = IF n < Len(s) THEN s[n + 1] ELSE 0
      BY <3>1, NextOnChain
    <3> QED BY <2>2, <3>2, <3>3
  <2>3. CASE n > Len(s)
    <3>1. n - 1 \in 0..NClusters /\ ~(n - 1 < Len(s)) /\ ~(n < Len(s)) /\ n # 0
      BY <1>0, <2>3
    <3>2. w[n - 1] = 0 /\ w[n] = 0
      BY <3>1
    <3> QED BY <3>1, <3>2, NextOnChain
  <2> QED BY <1>0, <2>1, <2>2, <2>3
<1>2. at = [n \in 0..NClusters |-> Turn(at, n)]
  <2> HIDE DEF w
  <2> QED BY <1>1
<1>3. at = ChainAt(fat, FirstIn(s))
  BY DEF ChainAt
<1> HIDE DEF at
<1> DEFINE Same == {n \in 0..NClusters : at[n] = w[n]}
<1>4. 0 \in Same
  <2>1. at[0] = first /\ w[0] = first
    <3> HIDE DEF w
    <3> QED BY <1>1, <1>2
  <2> HIDE DEF w, first
  <2> QED BY <2>1
<1>5. ASSUME NEW n \in 1..NClusters, n - 1 \in Same PROVE n \in Same
  <2> HIDE DEF w
  <2>1. n \in 0..NClusters /\ n # 0 /\ at[n - 1] = w[n - 1]
    BY <1>5
  <2>2. at[n] = Turn(at, n) /\ w[n] = Turn(w, n)
    <3> HIDE DEF Turn, Same
    <3> QED BY <1>1, <1>2, <2>1
  <2> QED BY <2>1, <2>2
<1>6. \A n \in 0..NClusters : n \in Same
  <2> HIDE DEF Same
  <2> QED BY <1>4, <1>5, UpTo
<1>7. at = w
  <2> HIDE DEF first
  <2> QED BY <1>2, <1>6
<1> QED BY <1>3, <1>7

LEMMA ChainOfIs ==
  ASSUME NEW fat, NEW s, IsChain(fat, s)
  PROVE  ChainOf(fat, FirstIn(s)) = On(s)
<1> DEFINE at == ChainAt(fat, FirstIn(s))
<1>1. at = [n \in 0..NClusters |-> IF n < Len(s) THEN s[n + 1] ELSE 0]
  BY ChainAtIs
<1>2. Len(s) \in Nat /\ Len(s) <= NClusters /\ \A i \in 1..Len(s) : s[i] # 0
  BY ChainFits, SeqOfClusters DEF IsChain
<1>3. ChainOf(fat, FirstIn(s)) = {at[n] : n \in 0..(NClusters - 1)} \ {0}
  BY DEF ChainOf
<1> HIDE DEF at
<1>4. \A n \in 0..(NClusters - 1) : at[n] = IF n < Len(s) THEN s[n + 1] ELSE 0
  BY <1>1, Consts
<1>5. ASSUME NEW i \in 1..Len(s) PROVE s[i] \in {at[n] : n \in 0..(NClusters - 1)} \ {0}
  <2>1. i - 1 \in 0..(NClusters - 1) /\ at[i - 1] = s[i]
    BY <1>2, <1>4, Consts
  <2> QED BY <1>2, <2>1
<1>6. ASSUME NEW n \in 0..(NClusters - 1), at[n] # 0 PROVE at[n] \in On(s)
  <2>1. n + 1 \in 1..Len(s) /\ at[n] = s[n + 1]
    BY <1>2, <1>4, <1>6, Consts
  <2> QED BY <2>1 DEF On
<1> QED BY <1>3, <1>5, <1>6 DEF On

\* The rest of a chain is a chain.
LEMMA BeyondChain ==
  ASSUME NEW fat, NEW s, IsChain(fat, s), NEW k \in 0..Len(s)
  PROVE  /\ IsChain(fat, Beyond(s, k)) /\ Len(Beyond(s, k)) = Len(s) - k
         /\ \A i \in 1..(Len(s) - k) : Beyond(s, k)[i] = s[i + k]
         /\ FirstIn(Beyond(s, k)) = IF k < Len(s) THEN s[k + 1] ELSE 0
         /\ On(Beyond(s, k)) = OnPast(s, k)
<1> DEFINE t == Beyond(s, k)
<1>0. s \in Seq(Clusters) /\ Len(s) \in Nat /\ \A i \in 1..Len(s) : s[i] \in Clusters
  BY SeqOfClusters DEF IsChain
<1>1. t \in [1..(Len(s) - k) -> Clusters] /\ \A i \in 1..(Len(s) - k) : t[i] = s[i + k]
  BY <1>0 DEF Beyond
<1>2. t \in Seq(Clusters) /\ Len(t) = Len(s) - k
  BY <1>0, <1>1, SeqDef, LenProperties
<1> HIDE DEF t
<1>3. \A i, j \in 1..Len(t) : t[i] = t[j] => i = j
  <2> SUFFICES ASSUME NEW i \in 1..Len(t), NEW j \in 1..Len(t), t[i] = t[j] PROVE i = j
    OBVIOUS
  <2>1. s[i + k] = s[j + k] /\ i + k \in 1..Len(s) /\ j + k \in 1..Len(s)
    BY <1>0, <1>1, <1>2
  <2>2. i + k = j + k
    BY <2>1 DEF IsChain
  <2> QED BY <1>0, <2>2
<1>4. ASSUME NEW i \in 1..Len(t) PROVE fat[t[i]] = After(t, i)
  <2>1. t[i] = s[i + k] /\ i + k \in 1..Len(s)
    BY <1>0, <1>1, <1>2
  <2>2. fat[s[i + k]] = After(s, i + k)
    BY <2>1 DEF IsChain
  <2>3. CASE i < Len(t)
    <3>1. i + k < Len(s) /\ i + 1 \in 1..(Len(s) - k) /\ i + 1 + k = i + k + 1
      BY <1>0, <1>2, <2>3
    <3> QED BY <1>1, <2>1, <2>2, <2>3, <3>1 DEF After
  <2>4. CASE ~(i < Len(t))
    <3>1. ~(i + k < Len(s))
      BY <1>0, <1>2, <2>4
    <3> QED BY <2>1, <2>2, <2>4, <3>1 DEF After
  <2> QED BY <2>3, <2>4
<1>5. FirstIn(t) = IF k < Len(s) THEN s[k + 1] ELSE 0
  <2>1. CASE k < Len(s)
    <3>1. 1 \in 1..(Len(s) - k) /\ t # <<>>
      BY <1>0, <1>2, <2>1
    <3>2. t[1] = s[1 + k] /\ 1 + k = k + 1
      BY <1>1, <3>1
    <3> QED BY <2>1, <3>1, <3>2 DEF FirstIn
  <2>2. CASE ~(k < Len(s))
    <3>1. t = <<>>
      BY <1>0, <1>2, <2>2
    <3> QED BY <2>2, <3>1 DEF FirstIn
  <2> QED BY <2>1, <2>2
<1>6. On(t) = OnPast(s, k)
  <2>1. ASSUME NEW i \in 1..Len(t) PROVE t[i] \in {s[j] : j \in (k + 1)..Len(s)}
    <3>1. i + k \in (k + 1)..Len(s) /\ t[i] = s[i + k]
      BY <1>0, <1>1, <1>2
    <3> QED BY <3>1
  <2>2. ASSUME NEW j \in (k + 1)..Len(s) PROVE s[j] \in On(t)
    <3>1. j - k \in 1..Len(t) /\ (j - k) + k = j
      BY <1>0, <1>2
    <3>2. t[j - k] = s[j]
      BY <1>1, <1>2, <3>1
    <3> QED BY <3>1, <3>2 DEF On
  <2> QED BY <2>1, <2>2 DEF On, OnPast
<1> QED BY <1>1, <1>2, <1>3, <1>4, <1>5, <1>6 DEF t, IsChain

(***************************************************************************)
(* Writes.  l is a place of the disk: the entry of a cluster, a directory  *)
(* entry, or the count of free clusters.                                   *)
(***************************************************************************)
FatAt(c)  == [on |-> "fat", at |-> c]
DentAt(f) == [on |-> "dent", at |-> f]
InfoAt    == [on |-> "info", at |-> 0]
Places    == {FatAt(c) : c \in Clusters} \cup {DentAt(f) : f \in Files} \cup {InfoAt}

InSector(s) == {c \in Clusters : FatSector(c) = s}
FatWrite  == UNION {[on : {"fat"}, sector : {s}, image : [InSector(s) -> Entry]] : s \in Nat}
DentEntry == {Absent} \cup [first : Nat, size : Nat]
DentWrite == [on : {"dent"}, file : Files, entry : DentEntry]
InfoWrite == [on : {"info"}, nextfree : Nat, freecount : Nat]
Write     == FatWrite \cup DentWrite \cup InfoWrite
Disk      == [fat : Table, nextfree : Nat, freecount : Nat, dent : [Files -> DentEntry]]

\* The write w is to l; what it puts there; what is there now.
Hits(w, l) ==
  /\ w.on = l.on
  /\ l.on = "fat" => w.sector = FatSector(l.at)
  /\ l.on = "dent" => w.file = l.at
Val(w, l) ==
  IF l.on = "fat" THEN w.image[l.at] ELSE IF l.on = "dent" THEN w.entry ELSE w.freecount
Now(d, l) ==
  IF l.on = "fat" THEN d.fat[l.at] ELSE IF l.on = "dent" THEN d.dent[l.at] ELSE d.freecount

\* Once the writes of out are made, v is at l; it is there all the time.
Lands(d, out, l, v) ==
  \/ Now(d, l) = v /\ \A i \in 1..Len(out) : ~Hits(out[i], l)
  \/ \E i \in 1..Len(out) :
       /\ Hits(out[i], l) /\ Val(out[i], l) = v
       /\ \A j \in (i + 1)..Len(out) : ~Hits(out[j], l)
Steady(d, out, l, v) ==
  Now(d, l) = v /\ \A i \in 1..Len(out) : Hits(out[i], l) => Val(out[i], l) = v

\* The disk after the write w.
MadeOn(d, w) ==
  IF w.on = "fat"
  THEN [d EXCEPT !.fat = [c \in Clusters |->
                            IF FatSector(c) = w.sector THEN w.image[c] ELSE @[c]]]
  ELSE IF w.on = "dent" THEN [d EXCEPT !.dent[w.file] = w.entry]
  ELSE [d EXCEPT !.nextfree = w.nextfree, !.freecount = w.freecount]

LEMMA LastWrite ==
  ASSUME NEW S, NEW out \in Seq(S), NEW w, NEW d, NEW l, NEW v
  PROVE  /\ ~Hits(w, l) => /\ Lands(d, out, l, v) => Lands(d, Append(out, w), l, v)
                           /\ Steady(d, out, l, v) => Steady(d, Append(out, w), l, v)
         /\ Hits(w, l) /\ Val(w, l) = v =>
              /\ Lands(d, Append(out, w), l, v)
              /\ Steady(d, out, l, v) => Steady(d, Append(out, w), l, v)
<1> DEFINE n == Len(out)
           more == Append(out, w)
<1>1. /\ n \in Nat /\ Len(more) = n + 1 /\ more[n + 1] = w
      /\ \A i \in 1..n : more[i] = out[i]
  OBVIOUS
<1>2. \A i \in 1..(n + 1) : i \in 1..n \/ i = n + 1
  BY <1>1
<1> HIDE DEF more, n
<1>3. ~Hits(w, l) /\ Lands(d, out, l, v) => Lands(d, more, l, v)
  <2> SUFFICES ASSUME ~Hits(w, l), Lands(d, out, l, v) PROVE Lands(d, more, l, v)
    OBVIOUS
  <2>1. CASE Now(d, l) = v /\ \A i \in 1..n : ~Hits(out[i], l)
    <3>1. \A i \in 1..(n + 1) : ~Hits(more[i], l)
      BY <1>1, <1>2, <2>1
    <3> QED BY <1>1, <2>1, <3>1 DEF Lands
  <2>2. CASE \E i \in 1..n : /\ Hits(out[i], l) /\ Val(out[i], l) = v
                             /\ \A j \in (i + 1)..n : ~Hits(out[j], l)
    <3>1. PICK i \in 1..n : /\ Hits(out[i], l) /\ Val(out[i], l) = v
                            /\ \A j \in (i + 1)..n : ~Hits(out[j], l)
      BY <2>2
    <3>2. i \in 1..(n + 1) /\ \A j \in (i + 1)..(n + 1) : j \in (i + 1)..n \/ j = n + 1
      BY <1>1
    <3>3. \A j \in (i + 1)..(n + 1) : ~Hits(more[j], l)
      <4> SUFFICES ASSUME NEW j \in (i + 1)..(n + 1) PROVE ~Hits(more[j], l)
        OBVIOUS
      <4>1. CASE j = n + 1
        BY <1>1, <4>1
      <4>2. CASE j # n + 1
        <5>1. j \in (i + 1)..n /\ j \in 1..n
          BY <1>1, <3>2, <4>2
        <5> QED BY <1>1, <3>1, <5>1
      <4> QED BY <4>1, <4>2
    <3> QED BY <1>1, <3>1, <3>2, <3>3 DEF Lands
  <2> QED BY <2>1, <2>2 DEF Lands, n
<1>4. Hits(w, l) /\ Val(w, l) = v => Lands(d, more, l, v)
  <2>1. n + 1 \in 1..Len(more) /\ (n + 1 + 1)..Len(more) = {}
    BY <1>1
  <2> QED BY <1>1, <2>1 DEF Lands
<1>5. (Hits(w, l) => Val(w, l) = v) /\ Steady(d, out, l, v) => Steady(d, more, l, v)
  BY <1>1, <1>2 DEF Steady, n
<1> QED BY <1>3, <1>4, <1>5 DEF more

LEMMA NoWrites ==
  ASSUME NEW d, NEW l, NEW v
  PROVE  /\ Lands(d, <<>>, l, v) <=> Now(d, l) = v
         /\ Steady(d, <<>>, l, v) <=> Now(d, l) = v
BY DEF Lands, Steady

\* What is there all the time is there in the end.
LEMMA SteadyLands ==
  ASSUME NEW S, NEW out \in Seq(S), NEW d, NEW l, NEW v, Steady(d, out, l, v)
  PROVE  Lands(d, out, l, v)
<1> DEFINE n == Len(out)
           W == {i \in 1..n : Hits(out[i], l)}
           A == {n - i : i \in W}
<1>0. n \in Nat
  OBVIOUS
<1>1. CASE W = {}
  BY <1>1 DEF Lands, Steady
<1>2. CASE W # {}
  <2>1. A \in SUBSET Nat /\ A # {}
    BY <1>0, <1>2
  <2>2. PICK m \in A : \A k \in A : m <= k
    <3> HIDE DEF A
    <3> QED BY <2>1, LeastNumber
  <2>3. PICK i \in W : m = n - i
    BY <2>2
  <2>4. ASSUME NEW j \in (i + 1)..n, Hits(out[j], l) PROVE FALSE
    <3>1. j \in W /\ n - j \in A
      BY <1>0, <2>3, <2>4
    <3>2. m <= n - j
      BY <2>2, <3>1
    <3> QED BY <1>0, <2>3, <3>2
  <2> QED BY <2>3, <2>4 DEF Lands, Steady
<1> QED BY <1>1, <1>2

\* A write puts on the disk what it holds.
LEMMA MadeIs ==
  ASSUME NEW d \in Disk, NEW w \in Write, NEW l \in Places
  PROVE  /\ MadeOn(d, w) \in Disk
         /\ Now(MadeOn(d, w), l) = IF Hits(w, l) THEN Val(w, l) ELSE Now(d, l)
<1>0. /\ d.fat \in Table /\ d.nextfree \in Nat /\ d.freecount \in Nat
      /\ d.dent \in [Files -> DentEntry]
      /\ d = [fat |-> d.fat, nextfree |-> d.nextfree, freecount |-> d.freecount, dent |-> d.dent]
  BY DEF Disk
<1>1. CASE w \in FatWrite
  <2>1. PICK s \in Nat : w \in [on : {"fat"}, sector : {s}, image : [InSector(s) -> Entry]]
    BY <1>1 DEF FatWrite
  <2>2. w.on = "fat" /\ w.sector = s /\ w.image \in [InSector(s) -> Entry]
    BY <2>1
  <2> DEFINE fat == [c \in Clusters |-> IF FatSector(c) = w.sector THEN w.image[c] ELSE d.fat[c]]
  <2>3. MadeOn(d, w) = [d EXCEPT !.fat = fat]
    BY <2>2 DEF MadeOn
  <2>4. fat \in Table
    BY <1>0, <2>2 DEF Table, InSector
  <2>5. \A c \in Clusters : fat[c] = IF FatSector(c) = w.sector THEN w.image[c] ELSE d.fat[c]
    OBVIOUS
  <2> HIDE DEF fat
  <2>6. /\ MadeOn(d, w) = [fat |-> fat, nextfree |-> d.nextfree, freecount |-> d.freecount,
                           dent |-> d.dent]
    BY <1>0, <2>3
  <2> QED BY <1>0, <2>2, <2>4, <2>5, <2>6 DEF Disk, Places, Hits, Val, Now, FatAt, DentAt, InfoAt
<1>2. CASE w \in DentWrite
  <2>1. w.on = "dent" /\ w.file \in Files /\ w.entry \in DentEntry
    BY <1>2 DEF DentWrite
  <2> DEFINE dent == [d.dent EXCEPT ![w.file] = w.entry]
  <2>2. MadeOn(d, w) = [fat |-> d.fat, nextfree |-> d.nextfree, freecount |-> d.freecount,
                        dent |-> dent]
    BY <1>0, <2>1 DEF MadeOn
  <2>3. dent \in [Files -> DentEntry] /\ dent[w.file] = w.entry
        /\ \A f \in Files \ {w.file} : dent[f] = d.dent[f]
    BY <1>0, <2>1
  <2> HIDE DEF dent
  <2> QED BY <1>0, <2>1, <2>2, <2>3 DEF Disk, Places, Hits, Val, Now, FatAt, DentAt, InfoAt
<1>3. CASE w \in InfoWrite
  <2>1. w.on = "info" /\ w.nextfree \in Nat /\ w.freecount \in Nat
    BY <1>3 DEF InfoWrite
  <2>2. MadeOn(d, w) = [fat |-> d.fat, nextfree |-> w.nextfree, freecount |-> w.freecount,
                        dent |-> d.dent]
    BY <1>0, <2>1 DEF MadeOn
  <2> QED BY <1>0, <2>1, <2>2 DEF Disk, Places, Hits, Val, Now, FatAt, DentAt, InfoAt
<1> QED BY <1>1, <1>2, <1>3 DEF Write

\* Making the first of the writes changes neither what they leave in the end
\* nor what is there all the time.
LEMMA WriteMade ==
  ASSUME NEW d \in Disk, NEW out \in Seq(Write), out # <<>>, NEW l \in Places, NEW v
  PROVE  /\ Lands(d, out, l, v) => Lands(MadeOn(d, Head(out)), Tail(out), l, v)
         /\ Steady(d, out, l, v) => Steady(MadeOn(d, Head(out)), Tail(out), l, v)
<1> DEFINE n == Len(out)
           rest == Tail(out)
           e == MadeOn(d, Head(out))
<1>1. /\ n \in Nat \ {0} /\ Len(rest) = n - 1 /\ Head(out) = out[1] /\ out[1] \in Write
      /\ \A i \in 1..(n - 1) : rest[i] = out[i + 1]
  OBVIOUS
<1>2. Now(e, l) = IF Hits(out[1], l) THEN Val(out[1], l) ELSE Now(d, l)
  BY <1>1, MadeIs
<1> HIDE DEF rest, n, e
<1>3. ASSUME Steady(d, out, l, v) PROVE Steady(e, rest, l, v)
  <2>1. Now(d, l) = v /\ \A i \in 1..n : Hits(out[i], l) => Val(out[i], l) = v
    BY <1>3 DEF Steady, n
  <2>2. ASSUME NEW i \in 1..(n - 1), Hits(rest[i], l) PROVE Val(rest[i], l) = v
    <3>1. i + 1 \in 1..n /\ rest[i] = out[i + 1]
      BY <1>1
    <3> QED BY <2>1, <2>2, <3>1
  <2>3. 1 \in 1..n
    BY <1>1
  <2> QED BY <1>1, <1>2, <2>1, <2>2, <2>3 DEF Steady
<1>4. ASSUME Lands(d, out, l, v) PROVE Lands(e, rest, l, v)
  <2>0. 1 \in 1..n
    BY <1>1
  <2>1. CASE Now(d, l) = v /\ \A i \in 1..n : ~Hits(out[i], l)
    <3>1. ASSUME NEW i \in 1..(n - 1) PROVE ~Hits(rest[i], l)
      <4>1. i + 1 \in 1..n /\ rest[i] = out[i + 1]
        BY <1>1
      <4> QED BY <2>1, <4>1
    <3> QED BY <1>1, <1>2, <2>0, <2>1, <3>1 DEF Lands
  <2>2. CASE \E i \in 1..n : /\ Hits(out[i], l) /\ Val(out[i], l) = v
                             /\ \A j \in (i + 1)..n : ~Hits(out[j], l)
    <3>1. PICK i \in 1..n : /\ Hits(out[i], l) /\ Val(out[i], l) = v
                            /\ \A j \in (i + 1)..n : ~Hits(out[j], l)
      BY <2>2
    <3>2. ASSUME NEW j \in 1..(n - 1), j >= i PROVE ~Hits(rest[j], l)
      <4>1. j + 1 \in (i + 1)..n /\ rest[j] = out[j + 1]
        BY <1>1, <3>2
      <4> QED BY <3>1, <4>1
    <3>3. CASE i = 1
      <4>1. \A j \in 1..Len(rest) : ~Hits(rest[j], l)
        BY <1>1, <3>2, <3>3
      <4>2. Now(e, l) = v
        BY <1>2, <3>1, <3>3
      <4> QED BY <4>1, <4>2 DEF Lands
    <3>4. CASE i # 1
      <4>1. i - 1 \in 1..(n - 1) /\ rest[i - 1] = out[i] /\ i - 1 + 1 = i
        BY <1>1, <3>4
      <4>2. \A j \in (i - 1 + 1)..(n - 1) : j \in 1..(n - 1) /\ j >= i
        BY <1>1
      <4>3. \A j \in (i - 1 + 1)..Len(rest) : ~Hits(rest[j], l)
        BY <1>1, <3>2, <4>2
      <4> QED BY <1>1, <3>1, <4>1, <4>3 DEF Lands
    <3> QED BY <3>3, <3>4
  <2> QED BY <1>4, <2>1, <2>2 DEF Lands, n
<1> QED BY <1>3, <1>4 DEF rest, e

(***************************************************************************)
(* The table and its cache.  q, b and r: vol, cache and the writes so far. *)
(***************************************************************************)
Vol   == [fat : Table, nextfree : Nat, freecount : Nat]
Cache == [line : [Lines -> Nat \cup {NONE}], dirty : SUBSET Nat]
Memory == [vol : Vol, cache : Cache, out : Seq(Write)]

\* freecount is the number of free clusters.
Counted(v) == v.freecount = Cardinality(FreeClusters(v.fat))

\* A dirty sector is in its line; what is not in a dirty sector is, or will
\* be, on the disk.
Sound(d, q) ==
  /\ q \in Memory
  /\ \A s \in q.cache.dirty : q.cache.line[s % CacheSize] = s
  /\ \A c \in Clusters : FatSector(c) \notin q.cache.dirty
                           => Lands(d, q.out, FatAt(c), q.vol.fat[c])

\* The write w leaves the directory and the entries of K as fat has them.
Agrees(w, fat, K) ==
  /\ w.on # "dent"
  /\ w.on = "fat" => \A c \in K : FatSector(c) = w.sector => w.image[c] = fat[c]

\* From b to q nothing happens to the clusters of K, and only the table and
\* fsinfo are written.
Leads(b, q, K) ==
  /\ Len(b.out) <= Len(q.out)
  /\ \A i \in 1..Len(b.out) : q.out[i] = b.out[i]
  /\ \A i \in (Len(b.out) + 1)..Len(q.out) : Agrees(q.out[i], b.vol.fat, K)
  /\ \A c \in K : q.vol.fat[c] = b.vol.fat[c]
  /\ Counted(b.vol) => Counted(q.vol)

LEMMA SectorIs ==
  /\ \A c \in Nat : FatSector(c) \in Nat
  /\ \A s \in Nat : s % CacheSize \in Lines
BY Consts DEF FatSector, Lines

LEMMA EntryIs ==
  /\ FREE \in Entry /\ EOF_MARK \in Entry /\ Clusters \subseteq Entry /\ Entry \subseteq Nat
  /\ Clusters \subseteq Nat /\ 0 \notin Clusters /\ EOF_MARK # FREE /\ EOF_MARK # 0 /\ FREE = 0
  /\ IsFiniteSet(Clusters)
  /\ \A c \in Clusters : c # FREE /\ c # EOF_MARK
<1>1. IsFiniteSet(Clusters)
  BY Consts, FS_Interval DEF Clusters
<1> QED BY <1>1, Consts DEF Entry, EOF_MARK, FREE, Clusters

LEMMA MemoryIs ==
  ASSUME NEW q \in Memory
  PROVE  /\ q.vol \in Vol /\ q.vol.fat \in Table /\ q.vol.nextfree \in Nat /\ q.vol.freecount \in Nat
         /\ q.cache.line \in [Lines -> Nat \cup {NONE}] /\ q.cache.dirty \in SUBSET Nat
         /\ q.out \in Seq(Write) /\ Len(q.out) \in Nat
BY DEF Memory, Vol, Cache

\* What a record with two fields changed is.
LEMMA VolWith ==
  ASSUME NEW v \in Vol, NEW f, NEW n
  PROVE  [v EXCEPT !.fat = f, !.freecount = n] = [fat |-> f, nextfree |-> v.nextfree, freecount |-> n]
<1> DEFINE u == [v EXCEPT !.fat = f]
<1>1. u \in [fat : {f}, nextfree : Nat, freecount : Nat] /\ u.nextfree = v.nextfree
  BY DEF Vol
<1> HIDE DEF u
<1>2. [u EXCEPT !.freecount = n] = [fat |-> f, nextfree |-> v.nextfree, freecount |-> n]
  BY <1>1
<1> QED BY <1>2 DEF u

LEMMA MemoryWith ==
  ASSUME NEW q \in Memory, NEW x, NEW o
  PROVE  [q EXCEPT !.cache.dirty = x, !.out = o]
           = [vol |-> q.vol, cache |-> [line |-> q.cache.line, dirty |-> x], out |-> o]
<1> DEFINE c == [line |-> q.cache.line, dirty |-> x]
           u == [q EXCEPT !.cache.dirty = x]
<1>1. u = [q EXCEPT !.cache = c]
  BY DEF Memory, Cache
<1>2. u \in [vol : Vol, cache : {c}, out : Seq(Write)] /\ u.vol = q.vol
  BY <1>1 DEF Memory
<1> HIDE DEF u, c
<1>3. [u EXCEPT !.out = o] = [vol |-> q.vol, cache |-> c, out |-> o]
  BY <1>2
<1> QED BY <1>3 DEF u, c

\* fat_updateFatEntry: the entry, and the count of the free ones.
LEMMA EntryUpdated ==
  ASSUME NEW v \in Vol, NEW c \in Clusters, NEW e \in Entry
  PROVE  /\ updateFatEntry(v, c, e) \in Vol
         /\ updateFatEntry(v, c, e).fat = [v.fat EXCEPT ![c] = e]
         /\ updateFatEntry(v, c, e).nextfree = v.nextfree
         /\ Counted(v) => Counted(updateFatEntry(v, c, e))
<1> DEFINE u == updateFatEntry(v, c, e)
           F == FreeClusters(v.fat)
           G == FreeClusters([v.fat EXCEPT ![c] = e])
           n == IF e # FREE /\ v.fat[c] = FREE /\ v.freecount > 0 THEN v.freecount - 1
                ELSE IF e = FREE /\ v.fat[c] # FREE THEN v.freecount + 1
                ELSE v.freecount
<1>1. /\ v.fat \in Table /\ v.nextfree \in Nat /\ v.freecount \in Nat
      /\ v = [fat |-> v.fat, nextfree |-> v.nextfree, freecount |-> v.freecount]
  BY DEF Vol
<1>2. u = [fat |-> [v.fat EXCEPT ![c] = e], nextfree |-> v.nextfree, freecount |-> n]
  <2> DEFINE f == [v.fat EXCEPT ![c] = e]
  <2>1. u = [v EXCEPT !.fat = f, !.freecount = n]
    BY DEF updateFatEntry, Vol
  <2> HIDE DEF f, n, u
  <2>2. u = [fat |-> f, nextfree |-> v.nextfree, freecount |-> n]
    BY <2>1, VolWith
  <2> QED BY <2>2 DEF f
<1>3. [v.fat EXCEPT ![c] = e] \in Table /\ n \in Nat
  BY <1>1 DEF Table
<1>4. G = IF e = FREE THEN F \cup {c} ELSE F \ {c}
  BY <1>1, <1>3 DEF FreeClusters, Table
<1>5. c \in F <=> v.fat[c] = FREE
  BY DEF FreeClusters
<1>6. IsFiniteSet(F)
  BY EntryIs, FS_Subset DEF FreeClusters
<1>7. /\ Cardinality(F) \in Nat
      /\ Cardinality(F \cup {c}) = IF c \in F THEN Cardinality(F) ELSE Cardinality(F) + 1
      /\ Cardinality(F \ {c}) = IF c \in F THEN Cardinality(F) - 1 ELSE Cardinality(F)
  BY <1>6, FS_CardinalityType, FS_AddElement, FS_RemoveElement
<1>8. c \in F => Cardinality(F) > 0
  BY <1>6, <1>7, FS_EmptySet
<1>9. v.freecount = Cardinality(F) => n = Cardinality(G)
  <2> HIDE DEF F, G
  <2>1. CASE e = FREE
    BY <2>1, <1>4, <1>5, <1>7, EntryIs
  <2>2. CASE e # FREE
    BY <2>2, <1>4, <1>5, <1>7, <1>8, EntryIs
  <2> QED BY <2>1, <2>2
<1> HIDE DEF n
<1> QED BY <1>1, <1>2, <1>3, <1>9 DEF Vol, Counted

\* The relation composes.
LEMMA LeadsOn ==
  ASSUME NEW a \in Memory, NEW b \in Memory, NEW q \in Memory, NEW K, NEW J,
         Leads(a, b, J), K \subseteq J, Leads(b, q, K)
  PROVE  Leads(a, q, K)
<1>1. Len(a.out) \in Nat /\ Len(b.out) \in Nat /\ Len(q.out) \in Nat
  BY MemoryIs
<1>2. Len(a.out) <= Len(q.out) /\ \A i \in 1..Len(a.out) : q.out[i] = a.out[i]
  <2> SUFFICES ASSUME NEW i \in 1..Len(a.out) PROVE q.out[i] = a.out[i]
    BY <1>1 DEF Leads
  <2>1. i \in 1..Len(b.out)
    BY <1>1 DEF Leads
  <2> QED BY <2>1 DEF Leads
<1>3. \A c \in K : q.vol.fat[c] = b.vol.fat[c] /\ b.vol.fat[c] = a.vol.fat[c]
  BY DEF Leads
<1>4. ASSUME NEW i \in (Len(a.out) + 1)..Len(q.out) PROVE Agrees(q.out[i], a.vol.fat, K)
  <2>1. CASE i \in (Len(a.out) + 1)..Len(b.out)
    <3>1. Agrees(b.out[i], a.vol.fat, J)
      BY <2>1 DEF Leads
    <3>2. i \in 1..Len(b.out)
      BY <1>1, <2>1
    <3>3. q.out[i] = b.out[i]
      BY <3>2 DEF Leads
    <3> QED BY <3>1, <3>3 DEF Agrees
  <2>2. CASE i \in (Len(b.out) + 1)..Len(q.out)
    <3>1. Agrees(q.out[i], b.vol.fat, K)
      BY <2>2 DEF Leads
    <3> QED BY <1>3, <3>1 DEF Agrees
  <2> QED BY <1>1, <2>1, <2>2
<1>5. Counted(a.vol) => Counted(q.vol)
  BY DEF Leads
<1> QED BY <1>2, <1>3, <1>4, <1>5 DEF Leads

LEMMA LeadsSelf ==
  ASSUME NEW q \in Memory, NEW K
  PROVE  Leads(q, q, K)
<1>1. Len(q.out) \in Nat
  BY MemoryIs
<1> QED BY <1>1 DEF Leads

\* Fewer clusters are asked for.
LEMMA LeadsLess ==
  ASSUME NEW a, NEW b, NEW K, NEW J, Leads(a, b, J), K \subseteq J
  PROVE  Leads(a, b, K)
BY DEF Leads, Agrees

\* fat_flushFatSector
LEMMA SectorFlushed ==
  ASSUME NEW d, NEW q, Sound(d, q), NEW s \in Nat
  PROVE  LET r == flushFatSector(q, s)
         IN  /\ Sound(d, r) /\ Leads(q, r, Clusters)
             /\ r.vol = q.vol /\ r.cache.line = q.cache.line
             /\ r.cache.dirty \subseteq q.cache.dirty /\ s \notin r.cache.dirty
<1> DEFINE r == flushFatSector(q, s)
           w == [on |-> "fat", sector |-> s, image |-> SectorImage(q.vol.fat, s)]
<1>0. q \in Memory
  BY DEF Sound
<1>1. r = [vol |-> q.vol, out |-> Append(q.out, w),
           cache |-> [line |-> q.cache.line, dirty |-> q.cache.dirty \ {s}]]
  <2> DEFINE x == q.cache.dirty \ {s}
             o == Append(q.out, w)
  <2>1. r = [q EXCEPT !.cache.dirty = x, !.out = o]
    BY <1>0 DEF flushFatSector, Memory, Cache
  <2> HIDE DEF x, o, r
  <2>2. r = [vol |-> q.vol, cache |-> [line |-> q.cache.line, dirty |-> x], out |-> o]
    BY <1>0, <2>1, MemoryWith
  <2> QED BY <2>2 DEF x, o
<1>2. w \in Write
  <2>1. SectorImage(q.vol.fat, s) \in [InSector(s) -> Entry]
    BY <1>0, MemoryIs DEF SectorImage, InSector, Table
  <2>2. w \in [on : {"fat"}, sector : {s}, image : [InSector(s) -> Entry]]
    BY <2>1
  <2> HIDE DEF w
  <2> QED BY <2>2 DEF Write, FatWrite
<1>3. /\ w.on = "fat" /\ w.sector = s
      /\ \A c \in Clusters : FatSector(c) = s => w.image[c] = q.vol.fat[c]
  BY DEF SectorImage
<1> HIDE DEF w
<1>4. /\ Append(q.out, w) \in Seq(Write) /\ Len(Append(q.out, w)) = Len(q.out) + 1
      /\ Append(q.out, w)[Len(q.out) + 1] = w
      /\ \A i \in 1..Len(q.out) : Append(q.out, w)[i] = q.out[i]
  <2>1. q.out \in Seq(Write)
    BY <1>0 DEF Memory
  <2> QED BY <1>2, <2>1
<1>5. /\ r.vol = q.vol /\ r.out = Append(q.out, w) /\ r.cache.line = q.cache.line
      /\ r.cache.dirty = q.cache.dirty \ {s}
  BY <1>1
<1>6. r \in Memory
  BY <1>0, <1>1, <1>4, MemoryIs DEF Memory, Cache
<1> HIDE DEF r
<1>7. \A t \in r.cache.dirty : r.cache.line[t % CacheSize] = t
  BY <1>5 DEF Sound
<1>8. ASSUME NEW c \in Clusters, FatSector(c) \notin r.cache.dirty
      PROVE  Lands(d, r.out, FatAt(c), r.vol.fat[c])
  <2>0. q.out \in Seq(Write)
    BY <1>0 DEF Memory
  <2>1. CASE FatSector(c) = s
    <3>1. Hits(w, FatAt(c)) /\ Val(w, FatAt(c)) = q.vol.fat[c]
      BY <1>3, <2>1 DEF Hits, Val, FatAt
    <3> QED BY <1>5, <2>0, <3>1, LastWrite
  <2>2. CASE FatSector(c) # s
    <3>1. ~Hits(w, FatAt(c))
      BY <1>3, <2>2 DEF Hits, FatAt
    <3>2. Lands(d, q.out, FatAt(c), q.vol.fat[c])
      BY <1>5, <1>8, <2>2 DEF Sound
    <3> QED BY <1>5, <2>0, <3>1, <3>2, LastWrite
  <2> QED BY <2>1, <2>2
<1>9. Leads(q, r, Clusters)
  <2>1. Agrees(w, q.vol.fat, Clusters)
    BY <1>3 DEF Agrees
  <2>2. Len(q.out) \in Nat
    BY <1>0, MemoryIs
  <2>3. \A i \in (Len(q.out) + 1)..Len(r.out) : r.out[i] = w
    BY <1>4, <1>5, <2>2
  <2> QED BY <1>4, <1>5, <2>1, <2>2, <2>3 DEF Leads
<1> QED BY <1>5, <1>6, <1>7, <1>8, <1>9 DEF Sound, r

\* fat_cacheFatSector
LEMMA SectorCached ==
  ASSUME NEW d, NEW q, Sound(d, q), NEW s \in Nat, NEW change
  PROVE  LET r == cacheFatSector(q, s, change)
         IN  /\ Sound(d, r) /\ Leads(q, r, Clusters)
             /\ r.vol = q.vol /\ (change => s \in r.cache.dirty)
<1> DEFINE r == cacheFatSector(q, s, change)
           l == s % CacheSize
           old == q.cache.line[l]
           a == IF old # s /\ old \in q.cache.dirty THEN flushFatSector(q, old) ELSE q
<1>0. q \in Memory /\ l \in Lines
  BY SectorIs DEF Sound
<1>1. /\ Sound(d, a) /\ Leads(q, a, Clusters) /\ a.vol = q.vol /\ a.cache.line = q.cache.line
      /\ a.cache.dirty \subseteq q.cache.dirty /\ (old # s => old \notin a.cache.dirty)
  <2>1. CASE old # s /\ old \in q.cache.dirty
    <3>1. old \in Nat
      BY <1>0, <2>1, MemoryIs
    <3> QED BY <2>1, <3>1, SectorFlushed
  <2>2. CASE ~(old # s /\ old \in q.cache.dirty)
    BY <1>0, <2>2, LeadsSelf
  <2> QED BY <2>1, <2>2
<1>2. r = [a EXCEPT !.cache.line[l] = s, !.cache.dirty = IF change THEN @ \cup {s} ELSE @]
  BY DEF cacheFatSector
<1> HIDE DEF a, r, l
<1>3. a \in Memory
  BY <1>1 DEF Sound
<1> DEFINE dirty == IF change THEN a.cache.dirty \cup {s} ELSE a.cache.dirty
<1>4. r = [vol |-> a.vol, out |-> a.out,
           cache |-> [line |-> [a.cache.line EXCEPT ![l] = s], dirty |-> dirty]]
  BY <1>2, <1>3 DEF Memory, Cache
<1>5. /\ r.vol = a.vol /\ r.out = a.out /\ r.cache.line = [a.cache.line EXCEPT ![l] = s]
      /\ r.cache.dirty = dirty
  BY <1>4
<1>6. dirty \in SUBSET Nat /\ [a.cache.line EXCEPT ![l] = s] \in [Lines -> Nat \cup {NONE}]
      /\ a.cache.dirty \subseteq dirty /\ (change => s \in dirty)
      /\ \A t \in dirty : t \in a.cache.dirty \/ t = s
  BY <1>3, MemoryIs
<1> HIDE DEF dirty
<1>7. r \in Memory
  BY <1>3, <1>4, <1>6, MemoryIs DEF Memory, Cache
<1>8. ASSUME NEW t \in r.cache.dirty PROVE r.cache.line[t % CacheSize] = t
  <2>1. CASE t = s
    BY <1>0, <1>3, <1>5, <2>1, MemoryIs DEF l
  <2>2. CASE t # s
    <3>1. t \in a.cache.dirty /\ a.cache.line[t % CacheSize] = t
      BY <1>1, <1>5, <1>6, <2>2 DEF Sound
    <3>2. t % CacheSize # l
      BY <1>1, <2>2, <3>1
    <3>3. t % CacheSize \in Lines
      BY <1>3, <3>1, MemoryIs, SectorIs
    <3> QED BY <1>3, <1>5, <3>1, <3>2, <3>3, MemoryIs
  <2> QED BY <2>1, <2>2
<1>9. ASSUME NEW c \in Clusters, FatSector(c) \notin r.cache.dirty
      PROVE  Lands(d, r.out, FatAt(c), r.vol.fat[c])
  BY <1>1, <1>5, <1>6, <1>9 DEF Sound
<1>10. Leads(q, r, Clusters)
  BY <1>1, <1>5 DEF Leads
<1> QED BY <1>1, <1>5, <1>6, <1>7, <1>8, <1>9, <1>10 DEF Sound, r

\* An entry is read.
LEMMA EntryRead ==
  ASSUME NEW d, NEW q, Sound(d, q), NEW c \in Nat
  PROVE  LET r == ReadEntry(q, c)
         IN  Sound(d, r) /\ Leads(q, r, Clusters) /\ r.vol = q.vol
<1>1. FatSector(c) \in Nat
  BY SectorIs
<1> QED BY <1>1, SectorCached DEF ReadEntry

LEMMA MemoryVol ==
  ASSUME NEW q \in Memory, NEW v \in Vol
  PROVE  LET r == [q EXCEPT !.vol = v]
         IN  r \in Memory /\ r.vol = v /\ r.cache = q.cache /\ r.out = q.out
BY DEF Memory

\* An entry is changed: no other is, in memory or on the disk.
LEMMA EntryChanged ==
  ASSUME NEW d, NEW q, Sound(d, q), NEW c \in Clusters, NEW e \in Entry
  PROVE  LET r == Update(q, c, e)
         IN  /\ Sound(d, r) /\ Leads(q, r, Clusters \ {c})
             /\ r.vol.fat[c] = e
<1> DEFINE s == FatSector(c)
           a == cacheFatSector(q, s, TRUE)
           v == updateFatEntry(a.vol, c, e)
           r == Update(q, c, e)
<1>0. s \in Nat /\ q \in Memory
  BY SectorIs, EntryIs DEF Sound
<1>1. Sound(d, a) /\ Leads(q, a, Clusters) /\ a.vol = q.vol /\ s \in a.cache.dirty
  BY <1>0, SectorCached
<1>2. r = [a EXCEPT !.vol = v]
  BY DEF Update
<1> HIDE DEF a, r, s
<1>3. a \in Memory /\ a.vol \in Vol /\ a.vol.fat \in Table
  BY <1>1, MemoryIs DEF Sound
<1>4. /\ v \in Vol /\ v.fat = [a.vol.fat EXCEPT ![c] = e] /\ (Counted(a.vol) => Counted(v))
  BY <1>3, EntryUpdated
<1> HIDE DEF v
<1>5. r \in Memory /\ r.vol = v /\ r.cache = a.cache /\ r.out = a.out
  BY <1>2, <1>3, <1>4, MemoryVol
<1>6. ASSUME NEW k \in Clusters, FatSector(k) \notin r.cache.dirty
      PROVE  Lands(d, r.out, FatAt(k), r.vol.fat[k])
  <2>1. k # c
    BY <1>1, <1>5, <1>6 DEF s
  <2>2. v.fat[k] = a.vol.fat[k]
    BY <1>3, <1>4, <2>1 DEF Table
  <2> QED BY <1>1, <1>5, <1>6, <2>2 DEF Sound
<1>7. Sound(d, r)
  BY <1>1, <1>5, <1>6 DEF Sound
<1>8. Leads(q, r, Clusters \ {c})
  <2>1. \A k \in Clusters \ {c} : v.fat[k] = q.vol.fat[k]
    BY <1>1, <1>3, <1>4 DEF Table
  <2>2. Leads(q, a, Clusters \ {c})
    BY <1>1, LeadsLess
  <2> QED BY <1>1, <1>4, <1>5, <2>1, <2>2 DEF Leads
<1>9. v.fat[c] = e
  BY <1>3, <1>4 DEF Table
<1> QED BY <1>5, <1>7, <1>8, <1>9 DEF r

\* What a call can come to from q without touching K.
Reach(d, q, K) == {x \in Memory : Sound(d, x) /\ Leads(q, x, K)}

LEMMA ReachSelf ==
  ASSUME NEW d, NEW q, Sound(d, q), NEW K
  PROVE  q \in Reach(d, q, K)
BY LeadsSelf DEF Reach, Sound

LEMMA ReachOn ==
  ASSUME NEW d, NEW q \in Memory, NEW K, NEW x \in Reach(d, q, K),
         NEW J, K \subseteq J, NEW y, Sound(d, y), Leads(x, y, J)
  PROVE  y \in Reach(d, q, K)
<1>1. x \in Memory /\ y \in Memory /\ Leads(q, x, K)
  BY DEF Reach, Sound
<1>2. Leads(x, y, K)
  BY LeadsLess
<1>3. Leads(q, y, K)
  BY <1>1, <1>2, LeadsOn
<1> QED BY <1>1, <1>3 DEF Reach

\* fat_findFreeCluster finds a free cluster when there is one.
LEMMA FreeFound ==
  ASSUME NEW fat \in Table, NEW start \in Nat
  PROVE  /\ FreeClusters(fat) = {} => findFreeCluster(fat, start) = 0
         /\ FreeClusters(fat) # {} => findFreeCluster(fat, start) \in FreeClusters(fat)
<1> DEFINE F == FreeClusters(fat)
           A == {SearchRank(start, c) : c \in F}
<1>1. ASSUME NEW c \in Nat PROVE SearchRank(start, c) \in Nat
  <2> DEFINE i == (FatSector(c) - FatSector(start)) % FatSize
             offset == IF i = 0 THEN start % ClustersPerSector ELSE 0
             p == i * ClustersPerSector
             m == (c - offset) % ClustersPerSector
  <2>1. FatSector(c) \in Nat /\ FatSector(start) \in Nat /\ FatSector(NClusters + 1) \in Nat
    BY SectorIs, Consts
  <2>2. FatSize \in Nat \ {0}
    BY <2>1 DEF FatSize
  <2>3. i \in Nat
    BY <2>1, <2>2
  <2>4. offset \in Nat
    BY Consts
  <2> HIDE DEF i, offset
  <2>5. p \in Nat
    BY <2>3, Consts
  <2>6. m \in Nat
    BY <2>4, Consts
  <2> HIDE DEF p, m
  <2>7. p + m \in Nat
    BY <2>5, <2>6
  <2> QED BY <2>7 DEF SearchRank, i, offset, p, m
<1>2. CASE F # {}
  <2>1. F \subseteq Nat
    BY EntryIs DEF FreeClusters
  <2>2. A \in SUBSET Nat /\ A # {}
    BY <1>1, <1>2, <2>1
  <2>3. PICK m \in A : \A k \in A : m <= k
    <3> HIDE DEF A
    <3> QED BY <2>2, LeastNumber
  <2>4. \E c \in F : \A e \in F : SearchRank(start, c) <= SearchRank(start, e)
    BY <2>3
  <2> HIDE DEF F
  <2>5. (CHOOSE c \in F : \A e \in F : SearchRank(start, c) <= SearchRank(start, e)) \in F
    BY <2>4
  <2> QED BY <1>2, <2>5 DEF F, findFreeCluster
<1>3. CASE F = {}
  BY <1>3 DEF findFreeCluster
<1> QED BY <1>2, <1>3

\* The sectors that the search reads.
LEMMA Searched ==
  ASSUME NEW d, NEW q, Sound(d, q), NEW start \in Nat
  PROVE  LET r == Search(q, start)
         IN  Sound(d, r) /\ Leads(q, r, Clusters) /\ r.vol.fat = q.vol.fat
<1> DEFINE found == findFreeCluster(q.vol.fat, start)
           n == IF found = 0 THEN FatSize
                ELSE ((FatSector(found) - FatSector(start)) % FatSize) + 1
           sector(i) == (FatSector(start) + i - 1) % FatSize
           S == {x \in Reach(d, q, Clusters) : x.vol = q.vol}
           Turn(f, i) == IF i = 0 THEN q ELSE cacheFatSector(f[i - 1], sector(i), FALSE)
           at == CHOOSE f : f = [i \in 0..n |-> Turn(f, i)]
           g == [i \in 1..n |-> [x \in S |-> cacheFatSector(x, sector(i), FALSE)]]
           r == Search(q, start)
<1>0. q \in Memory /\ q.vol.fat \in Table
  BY MemoryIs DEF Sound
<1>1. found \in Nat /\ FatSector(start) \in Nat
  BY <1>0, FreeFound, EntryIs, SectorIs DEF FreeClusters
<1>2. FatSize \in Nat \ {0}
  BY SectorIs, Consts DEF FatSize
<1>3. n \in Nat
  <2>1. FatSector(found) \in Nat
    BY <1>1, SectorIs
  <2> HIDE DEF found
  <2> QED BY <1>1, <1>2, <2>1
<1>4. \A i \in 1..n : sector(i) \in Nat
  <2> HIDE DEF n
  <2> QED BY <1>1, <1>2, <1>3
<1>5. r = [at[n] EXCEPT !.vol.nextfree = IF found = 0 THEN @ ELSE found]
  BY DEF Search
<1> HIDE DEF n, found, sector, r
<1>6. q \in S
  BY ReachSelf
<1>7. \A i \in 1..n, x \in S : cacheFatSector(x, sector(i), FALSE) \in S
  <2> SUFFICES ASSUME NEW i \in 1..n, NEW x \in S
               PROVE  cacheFatSector(x, sector(i), FALSE) \in S
    OBVIOUS
  <2> DEFINE y == cacheFatSector(x, sector(i), FALSE)
  <2>1. x \in Reach(d, q, Clusters) /\ Sound(d, x) /\ x.vol = q.vol
    BY DEF Reach
  <2>2. Sound(d, y) /\ Leads(x, y, Clusters) /\ y.vol = x.vol
    <3> PICK s, c : s = sector(i) /\ c = FALSE
      OBVIOUS
    <3>1. Sound(d, x) /\ s \in Nat
      BY <1>4, <2>1
    <3>2. LET z == cacheFatSector(x, s, c)
          IN  Sound(d, z) /\ Leads(x, z, Clusters) /\ z.vol = x.vol
      BY ONLY <3>1, SectorCached
    <3> QED BY <3>2 DEF y
  <2> HIDE DEF y
  <2>3. y \in Reach(d, q, Clusters)
    BY <1>0, <2>1, <2>2, ReachOn
  <2> QED BY <2>1, <2>2, <2>3 DEF y
<1> HIDE DEF S
<1>8. \A i \in 1..n, x \in S : g[i][x] = cacheFatSector(x, sector(i), FALSE)
  BY Zenon
<1> HIDE DEF g
<1>9. PICK f \in [0..n -> S] : IsLoop(f, n, q, g)
  <2>1. \A i \in 1..n, x \in S : g[i][x] \in S
    BY <1>7, <1>8
  <2> QED BY <1>3, <1>6, <2>1, LoopExists, Zenon
<1>10. f = [i \in 0..n |-> Turn(f, i)]
  <2> SUFFICES ASSUME NEW i \in 0..n PROVE f[i] = Turn(f, i)
    BY <1>9, Zenon
  <2>1. f[i] = IF i = 0 THEN q ELSE g[i][f[i - 1]]
    BY <1>9 DEF IsLoop
  <2>2. CASE i = 0
    BY <2>1, <2>2
  <2>3. CASE i # 0
    <3>1. i \in 1..n /\ i - 1 \in 0..n
      BY <1>3, <2>3
    <3>2. f[i - 1] \in S
      BY <3>1
    <3>3. g[i][f[i - 1]] = cacheFatSector(f[i - 1], sector(i), FALSE)
      BY <1>8, <3>1, <3>2
    <3> QED BY <2>1, <2>3, <3>3
  <2> QED BY <2>2, <2>3
<1>11. at = [i \in 0..n |-> Turn(at, i)]
  <2> HIDE DEF Turn
  <2> QED BY <1>10
<1> HIDE DEF at
<1> DEFINE G == {i \in 0..n : at[i] \in S}
<1>12. \A i \in 0..n : i \in G
  <2>1. 0 \in G
    BY <1>3, <1>6, <1>11
  <2>2. ASSUME NEW i \in 1..n, i - 1 \in G PROVE i \in G
    <3>1. i \in 0..n /\ i # 0 /\ at[i - 1] \in S
      BY <1>3, <2>2
    <3>2. at[i] = cacheFatSector(at[i - 1], sector(i), FALSE)
      BY <1>11, <3>1
    <3> QED BY <1>7, <3>1, <3>2
  <2> HIDE DEF G
  <2> QED BY <1>3, <2>1, <2>2, UpTo
<1> DEFINE a == at[n]
<1>13. a \in Memory /\ Sound(d, a) /\ Leads(q, a, Clusters) /\ a.vol = q.vol
  <2>1. n \in 0..n
    BY <1>3
  <2>2. a \in S
    BY <1>12, <2>1
  <2> HIDE DEF a
  <2> QED BY <2>2 DEF S, Reach
<1> HIDE DEF a
<1> DEFINE v == [a.vol EXCEPT !.nextfree = IF found = 0 THEN @ ELSE found]
<1>14. r = [a EXCEPT !.vol = v]
  BY <1>5 DEF a
<1>15. v \in Vol /\ v.fat = q.vol.fat /\ v.freecount = q.vol.freecount
  <2>1. a.vol \in Vol
    BY <1>13, MemoryIs
  <2> QED BY <1>1, <1>13, <2>1 DEF Vol
<1> HIDE DEF v
<1>16. r \in Memory /\ r.vol = v /\ r.cache = a.cache /\ r.out = a.out
  BY <1>13, <1>14, <1>15, MemoryVol
<1>17. Sound(d, r)
  BY <1>13, <1>15, <1>16 DEF Sound
<1>18. Leads(q, r, Clusters)
  BY <1>13, <1>15, <1>16 DEF Leads, Counted
<1> QED BY <1>15, <1>16, <1>17, <1>18 DEF r

\* The clusters of a chain are freed, no other is touched (fat_truncate,
\* fat_fileRemove).
LEMMA ChainFreed ==
  ASSUME NEW d, NEW q, Sound(d, q), NEW s, IsChain(q.vol.fat, s)
  PROVE  LET r == FreeChain(q, FirstIn(s))
         IN  r \in Reach(d, q, Clusters \ On(s)) /\ \A c \in On(s) : r.vol.fat[c] = FREE
<1> DEFINE S == Reach(d, q, Clusters \ On(s))
           at == ChainAt(q.vol.fat, FirstIn(s))
           Step(x, i) == IF at[i - 1] = 0 THEN x
                         ELSE Update(ReadEntry(x, at[i - 1]), at[i - 1], FREE)
           Turn(f, i) == IF i = 0 THEN q
                         ELSE IF at[i - 1] = 0 THEN f[i - 1]
                         ELSE Update(ReadEntry(f[i - 1], at[i - 1]), at[i - 1], FREE)
           st == CHOOSE f : f = [i \in 0..NClusters |-> Turn(f, i)]
           g == [i \in 1..NClusters |-> [x \in S |-> Step(x, i)]]
           r == FreeChain(q, FirstIn(s))
<1>0. q \in Memory /\ NClusters \in Nat \ {0}
  BY Consts DEF Sound
<1>1. /\ s \in Seq(Clusters) /\ Len(s) \in Nat /\ Len(s) <= NClusters /\ On(s) \subseteq Clusters
      /\ \A i \in 1..Len(s) : s[i] \in Clusters /\ s[i] # 0
  BY ChainFits, SeqOfClusters DEF IsChain
<1>2. at = [i \in 0..NClusters |-> IF i < Len(s) THEN s[i + 1] ELSE 0]
  BY ChainAtIs
<1>3. r = st[NClusters]
  BY DEF FreeChain
<1> HIDE DEF at, r
<1>4. ASSUME NEW i \in 1..NClusters
      PROVE  at[i - 1] = IF i <= Len(s) THEN s[i] ELSE 0
  BY <1>0, <1>1, <1>2
<1>5. ASSUME NEW i \in 1..NClusters, NEW x \in S
      PROVE  /\ Step(x, i) \in S
             /\ i <= Len(s) => /\ Step(x, i).vol.fat[s[i]] = FREE
                               /\ \A k \in Clusters \ {s[i]} :
                                    Step(x, i).vol.fat[k] = x.vol.fat[k]
             /\ ~(i <= Len(s)) => Step(x, i) = x
  <2>1. CASE ~(i <= Len(s))
    BY <1>4, <2>1
  <2>2. CASE i <= Len(s)
    <3> DEFINE c == s[i]
               y == ReadEntry(x, c)
               z == Update(y, c, FREE)
    <3>1. i \in 1..Len(s) /\ c \in Clusters /\ c \in On(s) /\ at[i - 1] = c /\ c # 0
      BY <1>1, <1>4, <2>2 DEF On
    <3>2. x \in Memory /\ Sound(d, x)
      BY DEF Reach
    <3> HIDE DEF c
    <3>3. Sound(d, y) /\ Leads(x, y, Clusters) /\ y.vol = x.vol
      BY <3>1, <3>2, EntryIs, EntryRead
    <3> HIDE DEF y
    <3>4. /\ Sound(d, z) /\ Leads(y, z, Clusters \ {c})
          /\ z.vol.fat[c] = FREE
      <4>1. FREE \in Entry
        BY EntryIs
      <4> QED BY <3>1, <3>3, <4>1, EntryChanged
    <3> HIDE DEF z
    <3>5. y \in S
      <4>1. Clusters \ On(s) \subseteq Clusters
        OBVIOUS
      <4> HIDE DEF S
      <4>2. y \in Reach(d, q, Clusters \ On(s))
        BY <1>0, <3>3, <4>1, ReachOn DEF S
      <4> QED BY <4>2 DEF S
    <3>6. z \in S
      <4>1. Clusters \ On(s) \subseteq Clusters \ {c}
        BY <3>1
      <4> HIDE DEF S
      <4>2. z \in Reach(d, q, Clusters \ On(s))
        BY <1>0, <3>4, <3>5, <4>1, ReachOn DEF S
      <4> QED BY <4>2 DEF S
    <3>7. Step(x, i) = z
      BY <3>1 DEF z, y
    <3> HIDE DEF S, Step
    <3>8. \A k \in Clusters \ {c} : z.vol.fat[k] = x.vol.fat[k]
      BY <3>3, <3>4 DEF Leads
    <3> QED BY <2>2, <3>4, <3>6, <3>7, <3>8 DEF c
  <2> QED BY <2>1, <2>2
<1>6. q \in S
  BY ReachSelf
<1> HIDE DEF S
<1>7. \A i \in 1..NClusters, x \in S : g[i][x] = Step(x, i)
  <2> HIDE DEF Step
  <2> QED BY Zenon
<1> HIDE DEF g
<1>8. PICK f \in [0..NClusters -> S] : IsLoop(f, NClusters, q, g)
  <2> HIDE DEF Step
  <2>1. \A i \in 1..NClusters, x \in S : g[i][x] \in S
    BY <1>5, <1>7
  <2>2. NClusters \in Nat
    BY <1>0
  <2> QED BY <1>6, <2>1, <2>2, LoopExists, Zenon
<1>9. f = [i \in 0..NClusters |-> Turn(f, i)]
  <2> SUFFICES ASSUME NEW i \in 0..NClusters PROVE f[i] = Turn(f, i)
    BY <1>8, Zenon
  <2>1. f[i] = IF i = 0 THEN q ELSE g[i][f[i - 1]]
    BY <1>8 DEF IsLoop
  <2>2. CASE i = 0
    BY <2>1, <2>2
  <2>3. CASE i # 0
    <3>1. i \in 1..NClusters /\ i - 1 \in 0..NClusters
      BY <1>0, <2>3
    <3>2. f[i - 1] \in S
      BY <3>1
    <3>3. g[i][f[i - 1]] = Step(f[i - 1], i)
      <4> HIDE DEF Step
      <4> QED BY <1>7, <3>1, <3>2
    <3> QED BY <2>1, <2>3, <3>3
  <2> QED BY <2>2, <2>3
<1>10. st = [i \in 0..NClusters |-> Turn(st, i)]
  <2> HIDE DEF Turn
  <2> QED BY <1>9
<1> HIDE DEF st
<1> DEFINE Freed(x, i) == \A j \in 1..Len(s) : j <= i => x.vol.fat[s[j]] = FREE
           G == {i \in 0..NClusters : st[i] \in S /\ Freed(st[i], i)}
<1>11. \A i \in 0..NClusters : i \in G
  <2>1. 0 \in G
    <3>1. st[0] = q
      BY <1>0, <1>10
    <3> QED BY <1>0, <1>1, <1>6, <3>1
  <2>2. ASSUME NEW i \in 1..NClusters, i - 1 \in G PROVE i \in G
    <3> DEFINE x == st[i - 1]
               y == st[i]
    <3>1. i \in 0..NClusters /\ i # 0 /\ x \in S /\ Freed(x, i - 1)
      BY <1>0, <2>2
    <3>2. y = Step(x, i)
      BY <1>10, <3>1
    <3> HIDE DEF x, y
    <3>3. /\ y \in S /\ (~(i <= Len(s)) => y = x)
          /\ i <= Len(s) => /\ y.vol.fat[s[i]] = FREE
                            /\ \A k \in Clusters \ {s[i]} : y.vol.fat[k] = x.vol.fat[k]
      <4> HIDE DEF Step
      <4> QED BY <1>5, <3>1, <3>2
    <3>4. Freed(y, i)
      <4> SUFFICES ASSUME NEW j \in 1..Len(s), j <= i PROVE y.vol.fat[s[j]] = FREE
        OBVIOUS
      <4>1. CASE i <= Len(s)
        <5>1. s[j] \in Clusters /\ i \in 1..Len(s)
          BY <1>1, <4>1
        <5>2. j # i => x.vol.fat[s[j]] = FREE
          BY <1>1, <3>1
        <5> QED BY <3>3, <4>1, <5>1, <5>2
      <4>2. CASE ~(i <= Len(s))
        <5>1. j <= i - 1
          BY <1>1, <4>2
        <5> QED BY <3>1, <3>3, <4>2, <5>1
      <4> QED BY <4>1, <4>2
    <3> QED BY <3>1, <3>3, <3>4 DEF y
  <2> HIDE DEF G
  <2> QED BY <1>0, <2>1, <2>2, UpTo
<1>12. NClusters \in 0..NClusters
  BY <1>0
<1>13. r \in S /\ Freed(r, NClusters)
  BY <1>3, <1>11, <1>12
<1>14. \A c \in On(s) : r.vol.fat[c] = FREE
  <2> SUFFICES ASSUME NEW j \in 1..Len(s) PROVE r.vol.fat[s[j]] = FREE
    BY DEF On
  <2> HIDE DEF S
  <2>1. j <= NClusters
    BY <1>0, <1>1
  <2> QED BY <1>13, <2>1
<1> QED BY <1>13, <1>14 DEF S, r

\* The first k clusters of a chain, when the last of them is marked.
LEMMA WithinChain ==
  ASSUME NEW fat, NEW s, IsChain(fat, s), NEW k \in 1..Len(s), NEW fat2,
         fat2[s[k]] = EOF_MARK, \A i \in 1..(k - 1) : fat2[s[i]] = fat[s[i]]
  PROVE  /\ IsChain(fat2, Within(s, k)) /\ Len(Within(s, k)) = k
         /\ \A i \in 1..k : Within(s, k)[i] = s[i]
         /\ FirstIn(Within(s, k)) = FirstIn(s)
         /\ On(Within(s, k)) = OnUpTo(s, k)
<1> DEFINE t == Within(s, k)
<1>0. s \in Seq(Clusters) /\ Len(s) \in Nat /\ \A i \in 1..Len(s) : s[i] \in Clusters
  BY SeqOfClusters DEF IsChain
<1>1. t \in [1..k -> Clusters] /\ \A i \in 1..k : t[i] = s[i]
  BY <1>0 DEF Within
<1>2. t \in Seq(Clusters) /\ Len(t) = k
  BY <1>0, <1>1, SeqDef, LenProperties
<1> HIDE DEF t
<1>3. \A i, j \in 1..Len(t) : t[i] = t[j] => i = j
  BY <1>0, <1>1, <1>2 DEF IsChain
<1>4. ASSUME NEW i \in 1..Len(t) PROVE fat2[t[i]] = After(t, i)
  <2>1. t[i] = s[i] /\ i \in 1..Len(s)
    BY <1>0, <1>1, <1>2
  <2>2. CASE i < k
    <3>1. i \in 1..(k - 1) /\ i + 1 \in 1..k /\ i < Len(s)
      BY <1>0, <1>2, <2>2
    <3>2. fat[s[i]] = s[i + 1]
      BY <2>1, <3>1 DEF IsChain, After
    <3> QED BY <1>1, <1>2, <2>1, <2>2, <3>1, <3>2 DEF After
  <2>3. CASE ~(i < k)
    <3>1. i = k
      BY <1>0, <1>2, <2>3
    <3> QED BY <1>2, <2>1, <2>3, <3>1 DEF After
  <2> QED BY <2>2, <2>3
<1>5. FirstIn(t) = FirstIn(s)
  <2>1. 1 \in 1..k /\ t # <<>> /\ s # <<>>
    BY <1>0, <1>2
  <2> QED BY <1>1, <2>1 DEF FirstIn
<1>6. On(t) = OnUpTo(s, k)
  BY <1>1, <1>2 DEF On, OnUpTo
<1> QED BY <1>1, <1>2, <1>3, <1>4, <1>5, <1>6 DEF t, IsChain

\* fat_truncate of a file without clusters, and after the k-th cluster.
LEMMA TruncatedEmpty ==
  ASSUME NEW d, NEW q, Sound(d, q)
  PROVE  LET r == truncate(q, 0) IN r \in Reach(d, q, Clusters)
<1> DEFINE a == ReadEntry(q, 0)
           r == FreeChain(a, 0)
<1>1. Sound(d, a) /\ Leads(q, a, Clusters) /\ a.vol = q.vol
  BY EntryRead
<1>2. getNextCluster(q.vol.fat, 0) = 0
  BY EntryIs DEF getNextCluster
<1> HIDE DEF a
<1>3. IsChain(a.vol.fat, <<>>) /\ FirstIn(<<>>) = 0 /\ On(<<>>) = {}
  BY DEF IsChain, FirstIn, On
<1>4. r \in Reach(d, a, Clusters \ On(<<>>))
  <2>1. FreeChain(a, FirstIn(<<>>)) \in Reach(d, a, Clusters \ On(<<>>))
    BY <1>1, <1>3, ChainFreed
  <2> QED BY <1>3, <2>1
<1>5. truncate(q, 0) = r
  BY <1>2 DEF truncate, a
<1> HIDE DEF r
<1>6. q \in Memory /\ a \in Memory /\ Sound(d, r) /\ Leads(a, r, Clusters)
  BY <1>1, <1>3, <1>4 DEF Reach, Sound
<1>7. a \in Reach(d, q, Clusters)
  BY <1>1, <1>6 DEF Reach
<1> QED BY <1>5, <1>6, <1>7, ReachOn

LEMMA Truncated ==
  ASSUME NEW d, NEW q, Sound(d, q), NEW s, IsChain(q.vol.fat, s), NEW k \in 1..Len(s)
  PROVE  LET r == truncate(q, s[k])
         IN  /\ r \in Reach(d, q, Clusters \ On(s)) /\ IsChain(r.vol.fat, Within(s, k))
             /\ \A c \in On(s) : r.vol.fat[c] # FREE => c \in On(Within(s, k))
<1> DEFINE last == s[k]
           t == Beyond(s, k)
           a == ReadEntry(q, last)
           b == FreeChain(a, FirstIn(t))
           r == Update(b, last, EOF_MARK)
<1>0. /\ s \in Seq(Clusters) /\ Len(s) \in Nat /\ \A i \in 1..Len(s) : s[i] \in Clusters /\ s[i] # 0
      /\ k \in 0..Len(s)
  BY SeqOfClusters DEF IsChain
<1>1. last \in Clusters /\ last # 0 /\ last \in On(s) /\ last \in Nat
  BY <1>0, EntryIs DEF On
<1>2. Sound(d, a) /\ Leads(q, a, Clusters) /\ a.vol = q.vol
  BY <1>1, EntryRead
<1>3. /\ IsChain(a.vol.fat, t) /\ On(t) = OnPast(s, k)
      /\ getNextCluster(q.vol.fat, last) = FirstIn(t)
  <2>0. k \in 0..Len(s)
    BY <1>0
  <2> HIDE DEF t
  <2>1. /\ IsChain(q.vol.fat, t) /\ On(t) = OnPast(s, k)
        /\ FirstIn(t) = IF k < Len(s) THEN s[k + 1] ELSE 0
    BY <2>0, BeyondChain DEF t
  <2>2. getNextCluster(q.vol.fat, last) = IF k < Len(s) THEN s[k + 1] ELSE 0
    BY NextOnChain
  <2> HIDE DEF a, t
  <2> QED BY <1>2, <2>1, <2>2
<1>4. truncate(q, last) = r
  BY <1>1, <1>3 DEF truncate
<1> HIDE DEF a, t
<1>5. b \in Reach(d, a, Clusters \ On(t)) /\ \A c \in On(t) : b.vol.fat[c] = FREE
  <2>1. IsChain(a.vol.fat, t)
    BY <1>3
  <2>2. Sound(d, a)
    BY <1>2
  <2> QED BY <2>1, <2>2, ChainFreed
<1> HIDE DEF b, last
<1>6. b \in Memory /\ Sound(d, b) /\ Leads(a, b, Clusters \ On(t))
  BY <1>5 DEF Reach
<1>7. /\ Sound(d, r) /\ Leads(b, r, Clusters \ {last})
      /\ r.vol.fat[last] = EOF_MARK
  <2>1. EOF_MARK \in Entry
    BY EntryIs
  <2> QED BY <1>1, <1>6, <2>1, EntryChanged
<1> HIDE DEF r
<1>8. On(t) \subseteq On(s) /\ q \in Memory /\ a \in Memory /\ b.vol.fat \in Table
  <2>1. \A i \in (k + 1)..Len(s) : i \in 1..Len(s)
    BY <1>0
  <2>2. On(t) \subseteq On(s)
    BY <1>3, <2>1 DEF On, OnPast
  <2> QED BY <1>2, <1>6, <2>2, MemoryIs DEF Sound
<1>9. r \in Reach(d, q, Clusters \ On(s))
  <2>1. a \in Reach(d, q, Clusters \ On(s))
    BY <1>2, <1>8, LeadsLess DEF Reach
  <2>2. b \in Reach(d, q, Clusters \ On(s))
    <3>1. Clusters \ On(s) \subseteq Clusters \ On(t)
      BY <1>8
    <3> QED BY <1>6, <1>8, <2>1, <3>1, ReachOn
  <2>3. Clusters \ On(s) \subseteq Clusters \ {last}
    BY <1>1
  <2> QED BY <1>7, <1>8, <2>2, <2>3, ReachOn
<1>10. r.vol.fat[last] = EOF_MARK /\ \A c \in Clusters \ {last} : r.vol.fat[c] = b.vol.fat[c]
  BY <1>7 DEF Leads
<1>11. \A i, j \in 1..Len(s) : s[i] = s[j] => i = j
  BY DEF IsChain
<1>12. \A i \in 1..(k - 1) : r.vol.fat[s[i]] = q.vol.fat[s[i]]
  <2> SUFFICES ASSUME NEW i \in 1..(k - 1) PROVE r.vol.fat[s[i]] = q.vol.fat[s[i]]
    OBVIOUS
  <2>1. i \in 1..Len(s) /\ i # k /\ s[i] \in Clusters /\ s[i] # last
    BY <1>0, <1>11 DEF last
  <2>2. s[i] \notin On(t)
    BY <1>0, <1>3, <1>11, <2>1 DEF OnPast
  <2>3. b.vol.fat[s[i]] = a.vol.fat[s[i]]
    BY <1>6, <2>1, <2>2 DEF Leads
  <2> QED BY <1>2, <1>10, <2>1, <2>3
<1>13. IsChain(r.vol.fat, Within(s, k)) /\ On(Within(s, k)) = OnUpTo(s, k)
  BY <1>10, <1>12, WithinChain DEF last
<1>14. ASSUME NEW c \in On(s), r.vol.fat[c] # FREE PROVE c \in On(Within(s, k))
  <2>1. PICK i \in 1..Len(s) : c = s[i]
    BY DEF On
  <2>2. CASE i <= k
    BY <1>0, <1>13, <2>1, <2>2 DEF OnUpTo
  <2>3. CASE i > k
    <3>1. c \in On(t) /\ c \in Clusters /\ c # last
      BY <1>0, <1>3, <1>11, <2>1, <2>3 DEF last, OnPast
    <3> QED BY <1>5, <1>10, <1>14, <3>1
  <2> QED BY <1>0, <2>2, <2>3
<1> QED BY <1>4, <1>9, <1>13, <1>14 DEF last

LEMMA MemoryOut ==
  ASSUME NEW q \in Memory, NEW w \in Write
  PROVE  LET r == [q EXCEPT !.out = Append(@, w)]
         IN  /\ r \in Memory /\ r.vol = q.vol /\ r.cache = q.cache /\ r.out = Append(q.out, w)
             /\ Len(r.out) = Len(q.out) + 1 /\ r.out[Len(q.out) + 1] = w
             /\ \A i \in 1..Len(q.out) : r.out[i] = q.out[i]
<1> DEFINE o == Append(q.out, w)
<1>1. q.out \in Seq(Write)
  BY DEF Memory
<1>2. /\ o \in Seq(Write) /\ Len(o) = Len(q.out) + 1 /\ o[Len(q.out) + 1] = w
      /\ \A i \in 1..Len(q.out) : o[i] = q.out[i]
  BY <1>1
<1> HIDE DEF o
<1>3. [q EXCEPT !.out = o] \in Memory
  BY <1>2 DEF Memory
<1>4. [q EXCEPT !.out = o].out = o /\ [q EXCEPT !.out = o].vol = q.vol
      /\ [q EXCEPT !.out = o].cache = q.cache
  BY DEF Memory
<1> QED BY <1>2, <1>3, <1>4 DEF o

\* A write that is not to the table.
LEMMA OtherWrite ==
  ASSUME NEW d, NEW q, Sound(d, q), NEW w \in Write, w.on # "fat"
  PROVE  LET r == [q EXCEPT !.out = Append(@, w)] IN Sound(d, r)
<1> DEFINE r == [q EXCEPT !.out = Append(@, w)]
<1>1. q \in Memory /\ q.out \in Seq(Write)
  BY DEF Sound, Memory
<1>2. r \in Memory /\ r.vol = q.vol /\ r.cache = q.cache /\ r.out = Append(q.out, w)
  BY <1>1, MemoryOut
<1> HIDE DEF r
<1>3. ASSUME NEW c \in Clusters, FatSector(c) \notin r.cache.dirty
      PROVE  Lands(d, r.out, FatAt(c), r.vol.fat[c])
  <2>1. ~Hits(w, FatAt(c))
    BY DEF Hits, FatAt
  <2>2. Lands(d, q.out, FatAt(c), q.vol.fat[c])
    BY <1>2, <1>3 DEF Sound
  <2> QED BY <1>1, <1>2, <2>1, <2>2, LastWrite
<1>4. Sound(d, r)
  BY <1>2, <1>3 DEF Sound
<1> QED BY <1>4 DEF r

\* fat_flushFat: nothing is dirty, and the count is written.
LEMMA TableFlushed ==
  ASSUME NEW d, NEW q, Sound(d, q)
  PROVE  LET r == flushFat(q)
         IN  /\ Sound(d, r) /\ Leads(q, r, Clusters) /\ r.vol = q.vol
             /\ r.cache.dirty = {} /\ Lands(d, r.out, InfoAt, q.vol.freecount)
<1> DEFINE S == {x \in Reach(d, q, Clusters) : x.vol = q.vol /\ x.cache.line = q.cache.line}
           Step(x, i) == IF x.cache.line[i - 1] \in x.cache.dirty
                         THEN flushFatSector(x, x.cache.line[i - 1]) ELSE x
           Turn(f, i) == IF i = 0 THEN q
                         ELSE IF f[i - 1].cache.line[i - 1] \in f[i - 1].cache.dirty
                         THEN flushFatSector(f[i - 1], f[i - 1].cache.line[i - 1])
                         ELSE f[i - 1]
           at == CHOOSE f : f = [i \in 0..CacheSize |-> Turn(f, i)]
           g == [i \in 1..CacheSize |-> [x \in S |-> Step(x, i)]]
           a == at[CacheSize]
           w == [on |-> "info", nextfree |-> a.vol.nextfree, freecount |-> a.vol.freecount]
           r == flushFat(q)
<1>0. q \in Memory /\ CacheSize \in Nat \ {0}
  BY Consts DEF Sound
<1>1. r = [a EXCEPT !.out = Append(@, w)]
  BY DEF flushFat
<1> HIDE DEF r
<1>2. ASSUME NEW i \in 1..CacheSize, NEW x \in S
      PROVE  /\ Step(x, i) \in S
             /\ Step(x, i).cache.dirty \subseteq x.cache.dirty
             /\ q.cache.line[i - 1] \notin Step(x, i).cache.dirty
  <2> DEFINE s == x.cache.line[i - 1]
             y == flushFatSector(x, s)
  <2>1. x \in Memory /\ Sound(d, x) /\ x.vol = q.vol /\ s = q.cache.line[i - 1]
        /\ x.cache.line = q.cache.line /\ x \in Reach(d, q, Clusters)
    BY DEF Reach
  <2>2. CASE s \in x.cache.dirty
    <3>1. s \in Nat
      BY <2>1, <2>2, MemoryIs
    <3> HIDE DEF s
    <3>2. /\ Sound(d, y) /\ Leads(x, y, Clusters) /\ y.vol = x.vol
          /\ y.cache.line = x.cache.line
          /\ y.cache.dirty \subseteq x.cache.dirty /\ s \notin y.cache.dirty
      <4>1. Sound(d, x)
        BY <2>1
      <4> QED BY <3>1, <4>1, SectorFlushed
    <3>3. Step(x, i) = y
      BY <2>2 DEF s
    <3> HIDE DEF y, Step
    <3>4. y \in Reach(d, q, Clusters)
      BY <1>0, <2>1, <3>2, ReachOn
    <3> QED BY <2>1, <3>2, <3>3, <3>4
  <2>3. CASE s \notin x.cache.dirty
    BY <2>1, <2>3
  <2> QED BY <2>2, <2>3
<1>3. q \in S
  BY ReachSelf
<1> HIDE DEF S
<1>4. \A i \in 1..CacheSize, x \in S : g[i][x] = Step(x, i)
  <2> HIDE DEF Step
  <2> QED BY Zenon
<1> HIDE DEF g
<1>5. PICK f \in [0..CacheSize -> S] : IsLoop(f, CacheSize, q, g)
  <2> HIDE DEF Step
  <2>1. \A i \in 1..CacheSize, x \in S : g[i][x] \in S
    BY <1>2, <1>4
  <2>2. CacheSize \in Nat
    BY <1>0
  <2> QED BY <1>3, <2>1, <2>2, LoopExists, Zenon
<1>6. f = [i \in 0..CacheSize |-> Turn(f, i)]
  <2> SUFFICES ASSUME NEW i \in 0..CacheSize PROVE f[i] = Turn(f, i)
    BY <1>5, Zenon
  <2>1. f[i] = IF i = 0 THEN q ELSE g[i][f[i - 1]]
    BY <1>5 DEF IsLoop
  <2>2. CASE i = 0
    BY <2>1, <2>2
  <2>3. CASE i # 0
    <3>1. i \in 1..CacheSize /\ i - 1 \in 0..CacheSize
      BY <1>0, <2>3
    <3>2. f[i - 1] \in S
      BY <3>1
    <3>3. g[i][f[i - 1]] = Step(f[i - 1], i)
      <4> HIDE DEF Step
      <4> QED BY <1>4, <3>1, <3>2
    <3> QED BY <2>1, <2>3, <3>3
  <2> QED BY <2>2, <2>3
<1>7. at = [i \in 0..CacheSize |-> Turn(at, i)]
  <2> HIDE DEF Turn
  <2> QED BY <1>6
<1> HIDE DEF at
<1> DEFINE Clean(x, i) == \A l \in Lines : l < i => q.cache.line[l] \notin x.cache.dirty
           G == {i \in 0..CacheSize : at[i] \in S /\ Clean(at[i], i)}
<1>8. \A i \in 0..CacheSize : i \in G
  <2>1. 0 \in G
    <3>1. at[0] = q
      BY <1>0, <1>7
    <3>2. \A l \in Lines : ~(l < 0)
      BY <1>0 DEF Lines
    <3> QED BY <1>0, <1>3, <3>1, <3>2
  <2>2. ASSUME NEW i \in 1..CacheSize, i - 1 \in G PROVE i \in G
    <3> DEFINE x == at[i - 1]
               y == at[i]
    <3>1. i \in 0..CacheSize /\ i # 0 /\ x \in S /\ Clean(x, i - 1)
      BY <1>0, <2>2
    <3>2. y = Step(x, i)
      BY <1>7, <3>1
    <3> HIDE DEF x, y
    <3>3. /\ y \in S /\ y.cache.dirty \subseteq x.cache.dirty
          /\ q.cache.line[i - 1] \notin y.cache.dirty
      <4> HIDE DEF Step
      <4> QED BY <1>2, <3>1, <3>2
    <3>4. \A l \in Lines : l < i => l < i - 1 \/ l = i - 1
      BY <1>0 DEF Lines
    <3>5. Clean(y, i)
      BY <3>1, <3>3, <3>4
    <3> QED BY <3>1, <3>3, <3>5 DEF y
  <2> HIDE DEF G
  <2> QED BY <1>0, <2>1, <2>2, UpTo
<1>9. CacheSize \in 0..CacheSize
  BY <1>0
<1>10. a \in S /\ Clean(a, CacheSize)
  BY <1>8, <1>9
<1> HIDE DEF a
<1>11. /\ a \in Memory /\ Sound(d, a) /\ Leads(q, a, Clusters) /\ a.vol = q.vol
       /\ a.cache.line = q.cache.line
  BY <1>10 DEF S, Reach
<1>12. a.cache.dirty = {}
  <2> SUFFICES ASSUME NEW s \in a.cache.dirty PROVE FALSE
    OBVIOUS
  <2>1. s \in Nat /\ a.cache.line[s % CacheSize] = s
    BY <1>11, MemoryIs DEF Sound
  <2>2. s % CacheSize \in Lines
    BY <2>1, SectorIs
  <2>3. s % CacheSize < CacheSize
    BY <1>0, <2>2 DEF Lines
  <2> QED BY <1>10, <1>11, <2>1, <2>2, <2>3
<1>13. w \in Write /\ w.on = "info" /\ w.freecount = q.vol.freecount
  <2>1. a.vol.nextfree \in Nat /\ a.vol.freecount \in Nat
    BY <1>11, MemoryIs
  <2> QED BY <1>11, <2>1 DEF Write, InfoWrite
<1> HIDE DEF w
<1>14. /\ r \in Memory /\ r.vol = a.vol /\ r.cache = a.cache /\ r.out = Append(a.out, w)
       /\ Len(r.out) = Len(a.out) + 1 /\ r.out[Len(a.out) + 1] = w
       /\ \A i \in 1..Len(a.out) : r.out[i] = a.out[i]
  BY <1>1, <1>11, <1>13, MemoryOut
<1>15. Sound(d, r)
  BY <1>1, <1>11, <1>13, OtherWrite
<1>16. Leads(a, r, Clusters)
  <2>1. Agrees(w, a.vol.fat, Clusters)
    BY <1>13 DEF Agrees
  <2>2. Len(a.out) \in Nat
    BY <1>11, MemoryIs
  <2>3. \A i \in (Len(a.out) + 1)..Len(r.out) : r.out[i] = w
    BY <1>14, <2>2
  <2> QED BY <1>14, <2>1, <2>2, <2>3 DEF Leads
<1>17. Leads(q, r, Clusters)
  BY <1>0, <1>11, <1>14, <1>16, LeadsOn
<1>18. Lands(d, r.out, InfoAt, q.vol.freecount)
  <2>1. Hits(w, InfoAt) /\ Val(w, InfoAt) = q.vol.freecount
    BY <1>13 DEF Hits, Val, InfoAt
  <2>2. a.out \in Seq(Write)
    BY <1>11, MemoryIs
  <2> QED BY <1>14, <2>1, <2>2, LastWrite
<1> QED BY <1>11, <1>12, <1>14, <1>15, <1>17, <1>18 DEF r

\* A free cluster is put behind a chain.
LEMMA ChainGrows ==
  ASSUME NEW fat, NEW s, IsChain(fat, s), NEW new \in Clusters, fat[new] = FREE, NEW fat2,
         fat2[new] = EOF_MARK, s # <<>> => fat2[s[Len(s)]] = new,
         \A i \in 1..(Len(s) - 1) : fat2[s[i]] = fat[s[i]]
  PROVE  /\ IsChain(fat2, Append(s, new)) /\ Len(Append(s, new)) = Len(s) + 1
         /\ Append(s, new)[Len(s) + 1] = new /\ \A i \in 1..Len(s) : Append(s, new)[i] = s[i]
         /\ FirstIn(Append(s, new)) = IF s = <<>> THEN new ELSE FirstIn(s)
         /\ On(Append(s, new)) = On(s) \cup {new}
<1> DEFINE t == Append(s, new)
           n == Len(s)
<1>0. /\ s \in Seq(Clusters) /\ n \in Nat /\ \A i \in 1..n : s[i] \in Clusters
      /\ s = <<>> <=> n = 0
  BY SeqOfClusters DEF IsChain
<1>1. t \in Seq(Clusters) /\ Len(t) = n + 1 /\ t[n + 1] = new /\ \A i \in 1..n : t[i] = s[i]
  BY <1>0
<1> HIDE DEF t
<1>2. ASSUME NEW i \in 1..n PROVE fat[s[i]] # FREE /\ s[i] # new
  <2>1. fat[s[i]] = IF i < n THEN s[i + 1] ELSE EOF_MARK
    BY DEF IsChain, After
  <2>2. i < n => i + 1 \in 1..n
    BY <1>0
  <2>3. i < n => s[i + 1] \in Clusters
    BY <1>0, <2>2
  <2>4. EOF_MARK # FREE /\ \A c \in Clusters : c # FREE
    BY EntryIs
  <2> QED BY <2>1, <2>3, <2>4
<1>3. \A i, j \in 1..Len(t) : t[i] = t[j] => i = j
  <2> SUFFICES ASSUME NEW i \in 1..(n + 1), NEW j \in 1..(n + 1), t[i] = t[j] PROVE i = j
    BY <1>1
  <2>1. \A k \in 1..n, l \in 1..n : s[k] = s[l] => k = l
    BY DEF IsChain
  <2>2. (i \in 1..n \/ i = n + 1) /\ (j \in 1..n \/ j = n + 1)
    BY <1>0
  <2> HIDE DEF n
  <2> QED BY <1>1, <1>2, <2>1, <2>2
<1>4. ASSUME NEW i \in 1..Len(t) PROVE fat2[t[i]] = After(t, i)
  <2>1. CASE i = n + 1
    BY <1>0, <1>1, <2>1 DEF After
  <2>2. CASE i = n /\ n # 0
    <3>1. fat2[s[n]] = new /\ i \in 1..n /\ i < n + 1
      BY <1>0, <2>2
    <3> HIDE DEF n
    <3> QED BY <1>1, <2>2, <3>1 DEF After
  <2>3. CASE i < n
    <3>1. i \in 1..(n - 1) /\ i \in 1..n /\ i + 1 \in 1..n /\ i < n + 1
      BY <1>0, <1>1, <2>3
    <3>2. fat2[s[i]] = s[i + 1]
      BY <2>3, <3>1 DEF IsChain, After
    <3> HIDE DEF n
    <3> QED BY <1>1, <3>1, <3>2 DEF After
  <2> QED BY <1>0, <1>1, <2>1, <2>2, <2>3
<1>5. FirstIn(t) = IF s = <<>> THEN new ELSE FirstIn(s)
  <2>1. t # <<>> /\ (s # <<>> => 1 \in 1..n)
    BY <1>0, <1>1
  <2> QED BY <1>0, <1>1, <2>1 DEF FirstIn
<1>6. On(t) = On(s) \cup {new}
  <2>1. ASSUME NEW i \in 1..(n + 1) PROVE t[i] \in On(s) \cup {new}
    <3>1. i \in 1..n \/ i = n + 1
      BY <1>0
    <3> QED BY <1>1, <3>1 DEF On
  <2>2. new \in On(t)
    <3>1. n + 1 \in 1..(n + 1)
      BY <1>0
    <3> QED BY <1>1, <3>1 DEF On
  <2>3. ASSUME NEW i \in 1..n PROVE s[i] \in On(t)
    <3>1. i \in 1..(n + 1)
      BY <1>0
    <3> QED BY <1>1, <3>1 DEF On
  <2> QED BY <1>1, <2>1, <2>2, <2>3 DEF On
<1> QED BY <1>1, <1>3, <1>4, <1>5, <1>6 DEF IsChain, t

\* fat_nextWriteCluster after the k-th cluster of s: the next one; or a free
\* one, now linked in; or none, and nothing happened.
LEMMA NextWritten ==
  ASSUME NEW d, NEW q, Sound(d, q), NEW s, IsChain(q.vol.fat, s),
         NEW k \in 0..Len(s), k = 0 => s = <<>>,
         NEW o, o.last = IF k = 0 THEN 0 ELSE s[k]
  PROVE  LET w   == NextWrite(q, o)
             new == w.cluster
         IN  \/ /\ k < Len(s) /\ new = s[k + 1]
                /\ w.q \in Reach(d, q, Clusters)
             \/ /\ k = Len(s) /\ new = 0
                /\ w.q \in Reach(d, q, Clusters)
             \/ /\ k = Len(s) /\ new \in Clusters /\ q.vol.fat[new] = FREE
                /\ w.q \in Reach(d, q, Clusters \ (On(s) \cup {new}))
                /\ IsChain(w.q.vol.fat, Append(s, new))
<1> DEFINE fat == q.vol.fat
           last == o.last
           a == IF last = 0 THEN q ELSE ReadEntry(q, last)
           next == getNextCluster(fat, last)
           start == IF last # 0 THEN last + 1 ELSE q.vol.nextfree
           new == findFreeCluster(fat, start)
           b == Search(a, start)
           c == IF last = 0 THEN b ELSE Update(b, last, new)
           e == Update(c, new, EOF_MARK)
           w == NextWrite(q, o)
<1>0. /\ s \in Seq(Clusters) /\ Len(s) \in Nat /\ s = <<>> <=> Len(s) = 0
      /\ \A i \in 1..Len(s) : s[i] \in Clusters /\ s[i] # 0
  BY SeqOfClusters DEF IsChain
<1>1. q \in Memory /\ fat \in Table /\ q.vol.nextfree \in Nat
  BY MemoryIs DEF Sound
<1>2. w = IF next # 0 THEN [q |-> a, cluster |-> next]
          ELSE IF new = 0 THEN [q |-> b, cluster |-> 0]
          ELSE [q |-> e, cluster |-> new]
  BY DEF NextWrite
<1>3. /\ last \in Nat /\ (last = 0 <=> k = 0)
      /\ k # 0 => k \in 1..Len(s) /\ last = s[k] /\ last \in Clusters /\ last \in On(s)
  <2>1. k # 0 => k \in 1..Len(s)
    BY <1>0
  <2> QED BY <1>0, <2>1, EntryIs DEF On
<1>4. next = IF k < Len(s) THEN s[k + 1] ELSE 0
  <2>1. CASE k = 0
    <3>1. last = 0 /\ ~(k < Len(s))
      BY <1>0, <1>3, <2>1
    <3> QED BY <3>1, NextOnChain
  <2>2. CASE k # 0
    BY <1>3, <2>2, NextOnChain
  <2> QED BY <2>1, <2>2
<1> HIDE DEF w, next
<1>5. Sound(d, a) /\ Leads(q, a, Clusters) /\ a.vol = q.vol
  <2>1. CASE last = 0
    BY <1>1, <2>1, LeadsSelf
  <2>2. CASE last # 0
    BY <1>3, <2>2, EntryRead
  <2> QED BY <2>1, <2>2
<1>6. start \in Nat
  BY <1>1, <1>3
<1> HIDE DEF a, start
<1>7. Sound(d, b) /\ Leads(a, b, Clusters) /\ b.vol.fat = fat
  BY <1>5, <1>6, Searched
<1>8. new = 0 \/ new \in FreeClusters(fat)
  BY <1>1, <1>6, FreeFound
<1> HIDE DEF b, new
<1>9. a \in Memory /\ b \in Memory
  BY <1>5, <1>7 DEF Sound
<1>10. a \in Reach(d, q, Clusters) /\ b \in Reach(d, q, Clusters)
  <2>1. a \in Reach(d, q, Clusters)
    BY <1>5, <1>9 DEF Reach
  <2> QED BY <1>1, <1>7, <2>1, ReachOn
<1>11. CASE next # 0
  <2>1. k < Len(s) /\ next = s[k + 1] /\ w.q = a /\ w.cluster = next
    BY <1>2, <1>4, <1>11
  <2> QED BY <1>10, <2>1 DEF w
<1>12. CASE next = 0 /\ new = 0
  <2>1. ~(k < Len(s))
    <3>1. k < Len(s) => k + 1 \in 1..Len(s)
      BY <1>0
    <3> QED BY <1>0, <1>4, <1>12, <3>1
  <2>2. k = Len(s) /\ w.q = b /\ w.cluster = 0
    BY <1>0, <1>2, <1>12, <2>1
  <2> QED BY <1>10, <2>2 DEF w
<1>13. CASE next = 0 /\ new # 0
  <2>1. k = Len(s)
    <3>1. k < Len(s) => k + 1 \in 1..Len(s)
      BY <1>0
    <3> QED BY <1>0, <1>4, <1>13, <3>1
  <2>2. w.q = e /\ w.cluster = new
    BY <1>2, <1>13
  <2>3. new \in Clusters /\ fat[new] = FREE /\ new \in Entry /\ EOF_MARK \in Entry
    BY <1>8, <1>13, EntryIs DEF FreeClusters
  <2>4. ASSUME NEW i \in 1..Len(s) PROVE s[i] # new
    <3>1. fat[s[i]] = IF i < Len(s) THEN s[i + 1] ELSE EOF_MARK
      BY DEF IsChain, After
    <3>2. i < Len(s) => i + 1 \in 1..Len(s)
      BY <1>0
    <3>3. i < Len(s) => s[i + 1] \in Clusters
      BY <1>0, <3>2
    <3>4. EOF_MARK # FREE /\ \A m \in Clusters : m # FREE
      BY EntryIs
    <3> HIDE DEF fat
    <3> QED BY <2>3, <3>1, <3>3, <3>4
  <2>5. /\ Sound(d, c) /\ Leads(b, c, Clusters \ On(s))
        /\ k # 0 => c.vol.fat[last] = new
        /\ \A m \in Clusters \ {last} : c.vol.fat[m] = fat[m]
    <3>1. CASE last = 0
      BY <1>3, <1>7, <1>9, <3>1, LeadsSelf
    <3>2. CASE last # 0
      <4> DEFINE u == Update(b, last, new)
      <4>1. last \in Clusters /\ last \in On(s)
        BY <1>3, <3>2
      <4> HIDE DEF last, fat
      <4>2. Sound(d, u) /\ Leads(b, u, Clusters \ {last}) /\ u.vol.fat[last] = new
        BY <1>7, <2>3, <4>1, EntryChanged
      <4> HIDE DEF u
      <4>3. Leads(b, u, Clusters \ On(s))
        <5>1. Clusters \ On(s) \subseteq Clusters \ {last}
          BY <4>1
        <5> QED BY <4>2, <5>1, LeadsLess
      <4>4. \A m \in Clusters \ {last} : u.vol.fat[m] = fat[m]
        BY <1>7, <4>2 DEF Leads
      <4>5. c = u
        BY <3>2 DEF u
      <4> QED BY <4>2, <4>3, <4>4, <4>5
    <3> QED BY <3>1, <3>2
  <2> HIDE DEF c
  <2>6. Sound(d, e) /\ Leads(c, e, Clusters \ {new}) /\ e.vol.fat[new] = EOF_MARK
    BY <2>3, <2>5, EntryChanged
  <2> HIDE DEF e
  <2>7. e \in Reach(d, q, Clusters \ (On(s) \cup {new}))
    <3> DEFINE K == Clusters \ (On(s) \cup {new})
    <3>1. K \subseteq Clusters /\ K \subseteq Clusters \ On(s) /\ K \subseteq Clusters \ {new}
      OBVIOUS
    <3> HIDE DEF K
    <3>2. b \in Reach(d, q, K)
      BY <1>10, <3>1, LeadsLess DEF Reach
    <3>3. c \in Reach(d, q, K)
      BY <1>1, <2>5, <3>1, <3>2, ReachOn
    <3>4. e \in Reach(d, q, K)
      BY <1>1, <2>6, <3>1, <3>3, ReachOn
    <3> QED BY <3>4 DEF K
  <2>8. \A m \in Clusters \ {new} : e.vol.fat[m] = c.vol.fat[m]
    BY <2>6 DEF Leads
  <2>9. s # <<>> => e.vol.fat[s[Len(s)]] = new
    <3> SUFFICES ASSUME s # <<>> PROVE e.vol.fat[s[Len(s)]] = new
      OBVIOUS
    <3>1. k # 0 /\ k \in 1..Len(s) /\ last = s[k] /\ last \in Clusters
      BY <1>0, <1>3, <2>1
    <3>2. last # new
      BY <2>4, <3>1
    <3> HIDE DEF last
    <3> QED BY <2>1, <2>5, <2>8, <3>1, <3>2
  <2>10. ASSUME NEW i \in 1..(Len(s) - 1) PROVE e.vol.fat[s[i]] = fat[s[i]]
    <3>1. i \in 1..Len(s) /\ k # 0 /\ i # k /\ k \in 1..Len(s)
      BY <1>0, <2>1
    <3>2. s[i] # s[k] /\ s[i] \in Clusters
      BY <1>0, <3>1 DEF IsChain
    <3>3. s[i] # last /\ s[i] # new
      BY <1>3, <2>4, <3>1, <3>2
    <3> HIDE DEF last, fat
    <3> QED BY <2>5, <2>8, <3>2, <3>3
  <2>11. IsChain(e.vol.fat, Append(s, new))
    BY <2>3, <2>6, <2>9, <2>10, ChainGrows
  <2> QED BY <2>1, <2>2, <2>3, <2>7, <2>11 DEF w
<1> QED BY <1>11, <1>12, <1>13

\* fat_seek of the file o to the cluster p of its chain s gives r.
Seeks(d, q, r, o, s, p) ==
  /\ Sound(d, r.q) /\ Leads(q, r.q, Clusters) /\ r.q.vol = q.vol
  /\ p = 0 => r.f = [o EXCEPT !.last = FirstIn(s), !.num = 0, !.fresh = TRUE]
  /\ p # 0 => r.f = [o EXCEPT !.last = s[p], !.num = p - 1, !.fresh = FALSE]

LEMMA Sought ==
  ASSUME NEW d, NEW q, Sound(d, q), NEW s, IsChain(q.vol.fat, s), NEW p \in 0..Len(s),
         NEW o, o.first = FirstIn(s), o.num \in Nat,
         o.num # 0 /\ p - 1 >= o.num => o.num + 1 \in 1..Len(s) /\ o.last = s[o.num + 1]
  PROVE  Seeks(d, q, Seek(q, o, p), o, s, p)
<1> DEFINE near == o.num # 0 /\ p - 1 >= o.num
           k == IF near THEN o.num ELSE 0
           from == IF near THEN o.last ELSE o.first
           n == IF near THEN p - 1 - o.num ELSE p - 1
           at == ChainAt(q.vol.fat, from)
           Turn(f, i) == IF i = 0 THEN q ELSE ReadEntry(f[i - 1], at[i - 1])
           st == CHOOSE f : f = [i \in 0..n |-> Turn(f, i)]
           r == Seek(q, o, p)
<1>0. q \in Memory /\ s \in Seq(Clusters) /\ Len(s) \in Nat /\ Len(s) <= NClusters
      /\ \A i \in 1..Len(s) : s[i] \in Clusters /\ s[i] \in Nat
  BY ChainFits, SeqOfClusters DEF Sound, IsChain
<1>1. r = IF p = 0
          THEN [q |-> q, f |-> [o EXCEPT !.last = o.first, !.num = 0, !.fresh = TRUE]]
          ELSE [q |-> st[n], f |-> [o EXCEPT !.last = at[n], !.num = p - 1, !.fresh = FALSE]]
  BY DEF Seek
<1> HIDE DEF r
<1>2. CASE p = 0
  <2>1. r.q = q /\ r.f = [o EXCEPT !.last = o.first, !.num = 0, !.fresh = TRUE]
    BY <1>1, <1>2
  <2> QED BY <1>0, <1>2, <2>1, LeadsSelf DEF r, Seeks
<1>3. CASE p # 0
  <2>1. r.q = st[n] /\ r.f = [o EXCEPT !.last = at[n], !.num = p - 1, !.fresh = FALSE]
    BY <1>1, <1>3
  <2>2. k \in 0..Len(s) /\ k < Len(s) /\ n = p - 1 - k /\ n \in Nat /\ n <= NClusters
    <3>0. p \in 1..Len(s) /\ NClusters \in Nat
      BY <1>0, <1>3, Consts
    <3>1. CASE near
      <4>1. o.num + 1 \in 1..Len(s) /\ p - 1 >= o.num /\ k = o.num /\ n = p - 1 - o.num
        BY <3>1
      <4> HIDE DEF k, n, near
      <4> QED BY <1>0, <3>0, <4>1
    <3>2. CASE ~near
      <4>1. k = 0 /\ n = p - 1
        BY <3>2
      <4> HIDE DEF k, n, near
      <4> QED BY <1>0, <3>0, <4>1
    <3> QED BY <3>1, <3>2
  <2>3. from = FirstIn(Beyond(s, k))
    <3>1. FirstIn(Beyond(s, k)) = s[k + 1]
      <4> HIDE DEF k
      <4> QED BY <2>2, BeyondChain
    <3>2. CASE near
      BY <3>1, <3>2
    <3>3. CASE ~near
      <4>1. s # <<>> /\ k = 0
        BY <1>0, <1>3, <3>3
      <4> QED BY <3>1, <3>3, <4>1 DEF FirstIn
    <3> QED BY <3>2, <3>3
  <2> HIDE DEF near, from, k, n
  <2>4. /\ IsChain(q.vol.fat, Beyond(s, k)) /\ Len(Beyond(s, k)) = Len(s) - k
        /\ \A i \in 1..(Len(s) - k) : Beyond(s, k)[i] = s[i + k]
    BY <2>2, BeyondChain
  <2>5. at = [i \in 0..NClusters |-> IF i < Len(s) - k THEN Beyond(s, k)[i + 1] ELSE 0]
    <3> DEFINE t == Beyond(s, k)
    <3>1. IsChain(q.vol.fat, t) /\ from = FirstIn(t) /\ Len(t) = Len(s) - k
      BY <2>3, <2>4
    <3> HIDE DEF t
    <3>2. ChainAt(q.vol.fat, FirstIn(t))
            = [i \in 0..NClusters |-> IF i < Len(t) THEN t[i + 1] ELSE 0]
      BY <3>1, ChainAtIs
    <3>3. at = [i \in 0..NClusters |-> IF i < Len(s) - k THEN t[i + 1] ELSE 0]
      BY <3>1, <3>2
    <3> QED BY <3>3 DEF t
  <2> HIDE DEF at
  <2>6. ASSUME NEW i \in 0..n PROVE at[i] = s[i + 1 + k] /\ at[i] \in Nat
    <3>1. /\ i \in 0..NClusters /\ i < Len(s) - k /\ i + 1 \in 1..(Len(s) - k)
          /\ i + 1 + k \in 1..Len(s)
      BY <1>0, <2>2, Consts
    <3>2. at[i] = Beyond(s, k)[i + 1]
      BY <2>5, <3>1
    <3> QED BY <1>0, <2>4, <3>1, <3>2
  <2>7. at[n] = s[p]
    <3>1. n \in 0..n /\ n + 1 + k = p
      BY <2>2
    <3> QED BY <2>6, <3>1
  <2> DEFINE S == {x \in Reach(d, q, Clusters) : x.vol = q.vol}
             g == [i \in 1..n |-> [x \in S |-> ReadEntry(x, at[i - 1])]]
  <2>8. q \in S
    BY ReachSelf
  <2>9. ASSUME NEW i \in 1..n, NEW x \in S PROVE ReadEntry(x, at[i - 1]) \in S
    <3> DEFINE y == ReadEntry(x, at[i - 1])
    <3>1. at[i - 1] \in Nat
      <4>1. i - 1 \in 0..n
        BY <2>2
      <4> QED BY <2>6, <4>1
    <3>2. x \in Reach(d, q, Clusters) /\ Sound(d, x) /\ x.vol = q.vol
      BY DEF Reach
    <3>3. Sound(d, y) /\ Leads(x, y, Clusters) /\ y.vol = x.vol
      BY <3>1, <3>2, EntryRead
    <3> HIDE DEF y
    <3>4. y \in Reach(d, q, Clusters)
      BY <1>0, <3>2, <3>3, ReachOn
    <3> QED BY <3>2, <3>3, <3>4 DEF y
  <2> HIDE DEF S
  <2>10. \A i \in 1..n, x \in S : g[i][x] = ReadEntry(x, at[i - 1])
    BY Zenon
  <2> HIDE DEF g
  <2>11. PICK f \in [0..n -> S] : IsLoop(f, n, q, g)
    <3>1. \A i \in 1..n, x \in S : g[i][x] \in S
      BY <2>9, <2>10
    <3> QED BY <2>2, <2>8, <3>1, LoopExists, Zenon
  <2>12. f = [i \in 0..n |-> Turn(f, i)]
    <3> SUFFICES ASSUME NEW i \in 0..n PROVE f[i] = Turn(f, i)
      BY <2>11, Zenon
    <3>1. f[i] = IF i = 0 THEN q ELSE g[i][f[i - 1]]
      BY <2>11 DEF IsLoop
    <3>2. CASE i = 0
      BY <3>1, <3>2
    <3>3. CASE i # 0
      <4>1. i \in 1..n /\ i - 1 \in 0..n
        BY <2>2, <3>3
      <4>2. f[i - 1] \in S
        BY <4>1
      <4>3. g[i][f[i - 1]] = ReadEntry(f[i - 1], at[i - 1])
        BY <2>10, <4>1, <4>2
      <4> QED BY <3>1, <3>3, <4>3
    <3> QED BY <3>2, <3>3
  <2>13. st = [i \in 0..n |-> Turn(st, i)]
    <3> HIDE DEF Turn
    <3> QED BY <2>12
  <2> HIDE DEF st
  <2> DEFINE G == {i \in 0..n : st[i] \in S}
  <2>14. \A i \in 0..n : i \in G
    <3>1. 0 \in G
      BY <2>2, <2>8, <2>13
    <3>2. ASSUME NEW i \in 1..n, i - 1 \in G PROVE i \in G
      <4>1. i \in 0..n /\ i # 0 /\ st[i - 1] \in S
        BY <2>2, <3>2
      <4>2. st[i] = ReadEntry(st[i - 1], at[i - 1])
        BY <2>13, <4>1
      <4> QED BY <2>9, <4>1, <4>2
    <3> HIDE DEF G
    <3> QED BY <2>2, <3>1, <3>2, UpTo
  <2>15. r.q \in S
    <3>1. n \in 0..n
      BY <2>2
    <3> QED BY <2>1, <2>14, <3>1
  <2>16. Sound(d, r.q) /\ Leads(q, r.q, Clusters) /\ r.q.vol = q.vol
    BY <2>15 DEF S, Reach
  <2> QED BY <1>3, <2>1, <2>7, <2>16 DEF r, Seeks
<1> QED BY <1>2, <1>3

(***************************************************************************)
(* A whole call.  It starts at b with no write made, and ends at q; fs are *)
(* the files it is about, K clusters it must not touch.                    *)
(***************************************************************************)
Spared(w, fat, K, fs) ==
  /\ w.on = "dent" => w.file \in fs
  /\ w.on = "fat" => \A c \in K : FatSector(c) = w.sector => w.image[c] = fat[c]

Spares(b, q, K, fs) ==
  /\ \A i \in 1..Len(q.out) : Spared(q.out[i], b.vol.fat, K, fs)
  /\ \A c \in K : q.vol.fat[c] = b.vol.fat[c]
  /\ Counted(b.vol) => Counted(q.vol)

LEMMA SparesStart ==
  ASSUME NEW b, b.out = <<>>, NEW K, NEW fs
  PROVE  Spares(b, b, K, fs)
BY DEF Spares

LEMMA SparesOn ==
  ASSUME NEW b, NEW q \in Memory, NEW r \in Memory, NEW K, NEW fs,
         Spares(b, q, K, fs), Leads(q, r, K)
  PROVE  Spares(b, r, K, fs)
<1>1. Len(q.out) \in Nat /\ Len(r.out) \in Nat
  BY MemoryIs
<1>2. ASSUME NEW i \in 1..Len(r.out) PROVE Spared(r.out[i], b.vol.fat, K, fs)
  <2>1. CASE i \in 1..Len(q.out)
    BY <2>1 DEF Leads, Spares
  <2>2. CASE i \in (Len(q.out) + 1)..Len(r.out)
    <3>1. Agrees(r.out[i], q.vol.fat, K)
      BY <2>2 DEF Leads
    <3> QED BY <3>1 DEF Agrees, Spared, Spares
  <2> QED BY <1>1, <2>1, <2>2
<1> QED BY <1>2 DEF Leads, Spares

\* The directory entry of one of the files is written, r comes of it.
Puts(d, b, q, r, K, fs, f, e) ==
  /\ Sound(d, r) /\ Spares(b, r, K, fs) /\ r.vol = q.vol
  /\ Lands(d, r.out, DentAt(f), e)
  /\ \A g, v : g # f /\ Lands(d, q.out, DentAt(g), v) => Lands(d, r.out, DentAt(g), v)

LEMMA EntryPut ==
  ASSUME NEW d, NEW b, NEW q, Sound(d, q), NEW K, NEW fs, Spares(b, q, K, fs),
         NEW f \in Files, f \in fs, NEW e \in DentEntry
  PROVE  Puts(d, b, q, PutEntry(q, f, e), K, fs, f, e)
<1> DEFINE w == [on |-> "dent", file |-> f, entry |-> e]
           r == PutEntry(q, f, e)
<1>1. r = [q EXCEPT !.out = Append(@, w)]
  BY DEF PutEntry
<1>2. w \in Write /\ w.on = "dent" /\ w.file = f /\ w.entry = e
  BY DEF Write, DentWrite
<1> HIDE DEF w, r
<1>3. q \in Memory /\ q.out \in Seq(Write) /\ Len(q.out) \in Nat
  BY DEF Sound, Memory
<1>4. /\ r \in Memory /\ r.vol = q.vol /\ r.cache = q.cache /\ r.out = Append(q.out, w)
      /\ Len(r.out) = Len(q.out) + 1 /\ r.out[Len(q.out) + 1] = w
      /\ \A i \in 1..Len(q.out) : r.out[i] = q.out[i]
  BY <1>1, <1>2, <1>3, MemoryOut
<1>5. Sound(d, r)
  BY <1>1, <1>2, OtherWrite
<1>6. Spares(b, r, K, fs)
  <2>1. ASSUME NEW i \in 1..Len(r.out) PROVE Spared(r.out[i], b.vol.fat, K, fs)
    <3>1. i \in 1..Len(q.out) \/ i = Len(q.out) + 1
      BY <1>3, <1>4
    <3>2. Spared(w, b.vol.fat, K, fs)
      BY <1>2 DEF Spared
    <3>3. \A j \in 1..Len(q.out) : Spared(q.out[j], b.vol.fat, K, fs)
      BY DEF Spares
    <3> QED BY <1>4, <3>1, <3>2, <3>3
  <2> QED BY <1>4, <2>1 DEF Spares
<1>7. Lands(d, r.out, DentAt(f), e)
  <2>1. Hits(w, DentAt(f)) /\ Val(w, DentAt(f)) = e
    BY <1>2 DEF Hits, Val, DentAt
  <2> QED BY <1>3, <1>4, <2>1, LastWrite
<1>8. ASSUME NEW g, NEW v, g # f, Lands(d, q.out, DentAt(g), v)
      PROVE  Lands(d, r.out, DentAt(g), v)
  <2>1. ~Hits(w, DentAt(g))
    BY <1>2, <1>8 DEF Hits, DentAt
  <2> QED BY <1>3, <1>4, <1>8, <2>1, LastWrite
<1> QED BY <1>4, <1>5, <1>6, <1>7, <1>8 DEF r, Puts

\* The directory is left alone.
LEMMA DentStays ==
  ASSUME NEW d, NEW q \in Memory, NEW r \in Memory, NEW K, Leads(q, r, K),
         NEW g, NEW v, Lands(d, q.out, DentAt(g), v)
  PROVE  Lands(d, r.out, DentAt(g), v)
<1> DEFINE l == DentAt(g)
<1>1. Len(q.out) \in Nat /\ Len(r.out) \in Nat /\ Len(q.out) <= Len(r.out)
  BY MemoryIs DEF Leads
<1>2. \A i \in 1..Len(q.out) : r.out[i] = q.out[i]
  BY DEF Leads
<1>3. \A i \in (Len(q.out) + 1)..Len(r.out) : ~Hits(r.out[i], l)
  BY DEF Leads, Agrees, Hits, DentAt
<1>4. \A i \in 1..Len(r.out) : i \in 1..Len(q.out) \/ i \in (Len(q.out) + 1)..Len(r.out)
  BY <1>1
<1> HIDE DEF l
<1>5. CASE Now(d, l) = v /\ \A i \in 1..Len(q.out) : ~Hits(q.out[i], l)
  <2>1. \A i \in 1..Len(r.out) : ~Hits(r.out[i], l)
    BY <1>2, <1>3, <1>4, <1>5
  <2> QED BY <1>5, <2>1 DEF Lands, l
<1>6. CASE \E i \in 1..Len(q.out) : /\ Hits(q.out[i], l) /\ Val(q.out[i], l) = v
                                    /\ \A j \in (i + 1)..Len(q.out) : ~Hits(q.out[j], l)
  <2>1. PICK i \in 1..Len(q.out) : /\ Hits(q.out[i], l) /\ Val(q.out[i], l) = v
                                   /\ \A j \in (i + 1)..Len(q.out) : ~Hits(q.out[j], l)
    BY <1>6
  <2>2. ASSUME NEW j \in (i + 1)..Len(r.out) PROVE ~Hits(r.out[j], l)
    <3>1. CASE j \in 1..Len(q.out)
      <4>1. j \in (i + 1)..Len(q.out)
        BY <1>1, <3>1
      <4> QED BY <1>2, <2>1, <3>1, <4>1
    <3>2. CASE j \notin 1..Len(q.out)
      <4>1. j \in (Len(q.out) + 1)..Len(r.out)
        BY <1>1, <3>2
      <4> QED BY <1>3, <4>1
    <3> QED BY <3>1, <3>2
  <2>3. i \in 1..Len(r.out) /\ r.out[i] = q.out[i]
    BY <1>1, <1>2
  <2> QED BY <2>1, <2>2, <2>3 DEF Lands, l
<1> QED BY <1>5, <1>6 DEF Lands, l

\* fat_flushFat at the end of a call, r comes of it.
Flushes(d, b, q, r, K, fs) ==
  /\ Sound(d, r) /\ Spares(b, r, K, fs) /\ r.vol = q.vol /\ r.cache.dirty = {}
  /\ Lands(d, r.out, InfoAt, r.vol.freecount)
  /\ \A g, v : Lands(d, q.out, DentAt(g), v) => Lands(d, r.out, DentAt(g), v)

LEMMA CallFlushed ==
  ASSUME NEW d, NEW b, NEW q, Sound(d, q), NEW K, K \subseteq Clusters, NEW fs,
         Spares(b, q, K, fs)
  PROVE  Flushes(d, b, q, flushFat(q), K, fs)
<1> DEFINE r == flushFat(q)
<1>1. /\ Sound(d, r) /\ Leads(q, r, Clusters) /\ r.vol = q.vol
      /\ r.cache.dirty = {} /\ Lands(d, r.out, InfoAt, q.vol.freecount)
  BY TableFlushed
<1> HIDE DEF r
<1>2. q \in Memory /\ r \in Memory
  BY <1>1 DEF Sound
<1>3. Leads(q, r, K)
  BY <1>1, LeadsLess
<1>4. Spares(b, r, K, fs)
  BY <1>2, <1>3, SparesOn
<1>5. \A g, v : Lands(d, q.out, DentAt(g), v) => Lands(d, r.out, DentAt(g), v)
  BY <1>2, <1>3, DentStays
<1> QED BY <1>1, <1>4, <1>5 DEF r, Flushes

\* What a call spares is there all the time.
LEMMA SparedSteady ==
  ASSUME NEW d, NEW b, NEW q, NEW K, NEW fs, Spares(b, q, K, fs)
  PROVE  /\ \A g, e : g \notin fs /\ Now(d, DentAt(g)) = e => Steady(d, q.out, DentAt(g), e)
         /\ \A c \in K : Now(d, FatAt(c)) = b.vol.fat[c]
                           => Steady(d, q.out, FatAt(c), b.vol.fat[c])
<1>1. \A i \in 1..Len(q.out) : Spared(q.out[i], b.vol.fat, K, fs)
  BY DEF Spares
<1>2. ASSUME NEW g, NEW i \in 1..Len(q.out), g \notin fs, Hits(q.out[i], DentAt(g)) PROVE FALSE
  <2>1. q.out[i].on = "dent" /\ q.out[i].file = g
    BY <1>2 DEF Hits, DentAt
  <2> QED BY <1>1, <1>2, <2>1 DEF Spared
<1>3. ASSUME NEW c \in K, NEW i \in 1..Len(q.out), Hits(q.out[i], FatAt(c))
      PROVE  Val(q.out[i], FatAt(c)) = b.vol.fat[c]
  <2>1. q.out[i].on = "fat" /\ q.out[i].sector = FatSector(c)
    BY <1>3 DEF Hits, FatAt
  <2>2. q.out[i].image[c] = b.vol.fat[c]
    BY <1>1, <2>1 DEF Spared
  <2> QED BY <2>2 DEF Val, FatAt
<1> QED BY <1>2, <1>3 DEF Steady

LEMMA ChainSame ==
  ASSUME NEW fat, NEW s, IsChain(fat, s), NEW fat2, \A c \in On(s) : fat2[c] = fat[c]
  PROVE  IsChain(fat2, s)
<1>1. \A i \in 1..Len(s) : s[i] \in On(s)
  BY DEF On
<1> QED BY <1>1 DEF IsChain

(***************************************************************************)
(* The invariant.  s is the chain of the file f, n what the tree knows of  *)
(* it, e the directory entry it ends with.                                 *)
(***************************************************************************)
OpenRec ==
  [mode : {"closed", "rw", "trunc"}, first : Nat, last : Nat, num : Nat,
   fresh : BOOLEAN, pos : Nat]
NodeRec == [known : BOOLEAN, loc : Nat, size : Nat, moved : BOOLEAN, open : OpenRec]

KnownAt(n, fat, s) == IsChain(fat, s) /\ n.loc = FirstIn(s) /\ n.size \in 0..Len(s)

\* The position is in the cluster last, whose number is num, or at its end.
OpenAt(n, s) ==
  LET o == n.open
  IN  /\ n.known /\ ~n.moved /\ o.first = FirstIn(s)
      /\ IF o.fresh THEN o.pos = 0 /\ o.num = 0 /\ o.last = FirstIn(s)
         ELSE /\ o.pos \in 1..Len(s) /\ o.last = s[o.pos]
              /\ o.num + 1 = o.pos \/ (o.num = o.pos /\ n.size <= o.pos)

ClosedAt(n, s, e) ==
  /\ ~n.known => e = Absent /\ s = <<>>
  /\ n.known => e.first = n.loc /\ e.size \in 0..Len(s) /\ (~n.moved => e.size = n.size)

\* The entry and the chain are on the disk in the end; all the time.
Left(d, out, fat, f, s, e) ==
  /\ Lands(d, out, DentAt(f), e)
  /\ \A c \in On(s) : Lands(d, out, FatAt(c), fat[c])
Kept(d, out, fat, f, s, e) ==
  /\ Steady(d, out, DentAt(f), e)
  /\ \A c \in On(s) : Steady(d, out, FatAt(c), fat[c])

FileOK(f, s, e) ==
  /\ KnownAt(node[f], vol.fat, s)
  /\ IsOpen(f) => OpenAt(node[f], s)
  /\ ~IsOpen(f) => /\ ClosedAt(node[f], s, e) /\ Left(disk, writes, vol.fat, f, s, e)
                   /\ f \notin busy => Kept(disk, writes, vol.fat, f, s, e)

Meet(s, t) == On(s) \cap On(t) # {}

Fits(ch, ent) ==
  /\ ch \in [Files -> Seq(Clusters)] /\ ent \in [Files -> DentEntry]
  /\ \A f \in Files \ damaged : FileOK(f, ch[f], ent[f])
  /\ \A f, g \in Files \ damaged : f # g => ~Meet(ch[f], ch[g])
  /\ crashes = 0 => /\ damaged = {} /\ Counted(vol)
                    /\ \A c \in Clusters : vol.fat[c] # FREE => \E f \in Files : c \in On(ch[f])

Mem == [vol |-> vol, cache |-> cache, out |-> writes]

TypeInv ==
  /\ node \in [Files -> NodeRec] /\ disk \in Disk
  /\ busy \subseteq Files /\ damaged \subseteq Files /\ crashes \in Nat

Rest ==
  /\ Sound(disk, Mem)
  /\ Idle => busy = {}
  /\ OpenFiles = {} => cache.dirty = {} /\ Lands(disk, writes, InfoAt, vol.freecount)
  /\ \A f \in damaged : Known(f) /\ ~IsOpen(f)

Inv == TypeInv /\ Rest /\ \E ch, ent : Fits(ch, ent)

LEMMA Remembered ==
  ASSUME NEW v, NEW k, NEW o, [vol |-> v, cache |-> k, out |-> o] \in Memory
  PROVE  v \in Vol /\ v.fat \in Table /\ v.nextfree \in Nat /\ v.freecount \in Nat
         /\ k \in Cache /\ o \in Seq(Write)
<1>1. v \in Vol /\ k \in Cache /\ o \in Seq(Write)
  BY DEF Memory
<1> QED BY <1>1 DEF Vol

LEMMA MemoryEta ==
  ASSUME NEW q \in Memory
  PROVE  [vol |-> q.vol, cache |-> q.cache, out |-> q.out] = q
BY DEF Memory

\* A file that a call is not about is as it was.
LEMMA OtherFile ==
  ASSUME NEW d, NEW b, NEW q \in Memory, NEW K, NEW fs, Spares(b, q, K, fs),
         NEW g, g \notin fs, NEW s, On(s) \subseteq K, NEW e
  PROVE  /\ IsChain(b.vol.fat, s) => IsChain(q.vol.fat, s)
         /\ Left(d, <<>>, b.vol.fat, g, s, e) =>
              Left(d, q.out, q.vol.fat, g, s, e) /\ Kept(d, q.out, q.vol.fat, g, s, e)
<1>0. q.out \in Seq(Write)
  BY MemoryIs
<1>1. \A c \in On(s) : q.vol.fat[c] = b.vol.fat[c]
  BY DEF Spares
<1>2. IsChain(b.vol.fat, s) => IsChain(q.vol.fat, s)
  BY <1>1, ChainSame
<1>3. ASSUME Left(d, <<>>, b.vol.fat, g, s, e)
      PROVE  Kept(d, q.out, q.vol.fat, g, s, e)
  <2>1. Now(d, DentAt(g)) = e /\ \A c \in On(s) : Now(d, FatAt(c)) = b.vol.fat[c]
    BY <1>3, NoWrites DEF Left
  <2>2. Steady(d, q.out, DentAt(g), e)
    BY <2>1, SparedSteady
  <2>3. \A c \in On(s) : Steady(d, q.out, FatAt(c), b.vol.fat[c])
    BY <2>1, SparedSteady
  <2> QED BY <2>2, <2>3, <1>1 DEF Kept
<1>4. ASSUME Kept(d, q.out, q.vol.fat, g, s, e)
      PROVE  Left(d, q.out, q.vol.fat, g, s, e)
  <2>1. Lands(d, q.out, DentAt(g), e)
    BY <1>0, <1>4, SteadyLands DEF Kept
  <2>2. \A c \in On(s) : Lands(d, q.out, FatAt(c), q.vol.fat[c])
    BY <1>0, <1>4, SteadyLands DEF Kept
  <2> QED BY <2>1, <2>2 DEF Left
<1> QED BY <1>2, <1>3, <1>4

\* How a call leaves a file it is about.
EndsAs(d, q, f, n, s, e) ==
  /\ KnownAt(n, q.vol.fat, s)
  /\ n.open.mode # "closed" => OpenAt(n, s)
  /\ n.open.mode = "closed" => ClosedAt(n, s, e) /\ Left(d, q.out, q.vol.fat, f, s, e)

LEMMA EndsWell ==
  ASSUME NEW q \in Memory, NEW fs, Did(q, fs), NEW f \in fs, NEW s, NEW e,
         EndsAs(disk, q, f, node'[f], s, e)
  PROVE  FileOK(f, s, e)'
<1>1. /\ vol' = q.vol /\ writes' = q.out /\ disk' = disk
      /\ busy' = IF q.out = <<>> THEN {} ELSE fs
  BY DEF Did
<1>2. KnownAt(node'[f], vol'.fat, s)
  BY <1>1 DEF EndsAs
<1>3. IsOpen(f)' => OpenAt(node'[f], s)
  BY DEF EndsAs, IsOpen
<1>4. ASSUME ~IsOpen(f)'
      PROVE  /\ ClosedAt(node'[f], s, e) /\ Left(disk', writes', vol'.fat, f, s, e)
             /\ f \notin busy' => Kept(disk', writes', vol'.fat, f, s, e)
  <2>1. ClosedAt(node'[f], s, e) /\ Left(disk', writes', vol'.fat, f, s, e)
    BY <1>1, <1>4 DEF EndsAs, IsOpen
  <2>2. ASSUME f \notin busy' PROVE Kept(disk', writes', vol'.fat, f, s, e)
    <3>1. writes' = <<>>
      BY <1>1, <2>2
    <3>2. Left(disk', <<>>, vol'.fat, f, s, e)
      BY <2>1, <3>1
    <3>3. Kept(disk', <<>>, vol'.fat, f, s, e)
      BY <3>2, NoWrites DEF Left, Kept
    <3> QED BY <3>1, <3>3
  <2> QED BY <2>1, <2>2
<1> QED BY <1>2, <1>3, <1>4 DEF FileOK

\* The chains and entries before and after a call about the files of fs that
\* uses the clusters of X and no other.
ChainsMove(ch, ent, ch2, ent2, fs, X) ==
  /\ ch2 \in [Files -> Seq(Clusters)] /\ ent2 \in [Files -> DentEntry]
  /\ \A g \in Files \ fs : ch2[g] = ch[g] /\ ent2[g] = ent[g]
  /\ \A f \in fs : On(ch[f]) \subseteq X /\ On(ch2[f]) \subseteq X
  /\ \A g \in Files \ (fs \cup damaged) : On(ch[g]) \cap X = {}
  /\ \A f, g \in fs : f # g => ~Meet(ch2[f], ch2[g])

\* How the call ends: with what is in the tree, on the disk and in the table.
CallEnds(d, q, m, ch2, ent2, fs, X) ==
  /\ m \in [Files -> NodeRec] /\ \A g \in Files \ fs : m[g] = node[g]
  /\ \A f \in fs : EndsAs(d, q, f, m[f], ch2[f], ent2[f])
  /\ \A c \in X : q.vol.fat[c] # FREE => \E f \in fs : c \in On(ch2[f])
  /\ (\A f \in Files : m[f].open.mode = "closed") =>
        q.cache.dirty = {} /\ Lands(d, q.out, InfoAt, q.vol.freecount)

LEMMA CallDone ==
  ASSUME TypeInv, Rest, Idle, NEW ch, NEW ent, Fits(ch, ent),
         NEW fs, fs \subseteq Files, fs \cap damaged = {}, NEW X, X \subseteq Clusters,
         NEW q, Sound(disk, q), Spares(Here, q, Clusters \ X, fs), Did(q, fs),
         NEW ch2, NEW ent2, ChainsMove(ch, ent, ch2, ent2, fs, X),
         CallEnds(disk, q, node', ch2, ent2, fs, X)
  PROVE  Inv'
<1>a. /\ ch2 \in [Files -> Seq(Clusters)] /\ ent2 \in [Files -> DentEntry]
      /\ \A g \in Files \ fs : ch2[g] = ch[g] /\ ent2[g] = ent[g]
      /\ \A f \in fs : On(ch[f]) \subseteq X /\ On(ch2[f]) \subseteq X
      /\ \A g \in Files \ (fs \cup damaged) : On(ch[g]) \cap X = {}
      /\ \A f, g \in fs : f # g => ~Meet(ch2[f], ch2[g])
  BY DEF ChainsMove
<1>b. /\ node' \in [Files -> NodeRec] /\ \A g \in Files \ fs : node'[g] = node[g]
      /\ \A f \in fs : EndsAs(disk, q, f, node'[f], ch2[f], ent2[f])
      /\ \A c \in X : q.vol.fat[c] # FREE => \E f \in fs : c \in On(ch2[f])
      /\ (\A f \in Files : node'[f].open.mode = "closed") =>
            q.cache.dirty = {} /\ Lands(disk, q.out, InfoAt, q.vol.freecount)
  BY DEF CallEnds
<1>1. /\ vol' = q.vol /\ cache' = q.cache /\ writes' = q.out /\ disk' = disk
      /\ damaged' = damaged /\ crashes' = crashes
      /\ busy' = IF q.out = <<>> THEN {} ELSE fs
  BY DEF Did
<1>2. q \in Memory
  BY DEF Sound
<1>3. TypeInv'
  <2>1. node' \in [Files -> NodeRec]
    BY <1>b
  <2>2. disk' \in Disk /\ damaged' \subseteq Files /\ crashes' \in Nat
    BY <1>1 DEF TypeInv
  <2>3. busy' \subseteq Files
    BY <1>1
  <2> QED BY <2>1, <2>2, <2>3 DEF TypeInv
<1>4. Rest'
  <2>1. Sound(disk, Mem)'
    <3>1. Mem' = q
      BY <1>1, <1>2, MemoryEta DEF Mem
    <3> QED BY <1>1, <3>1
  <2>2. Idle' => busy' = {}
    BY <1>1 DEF Idle
  <2>3. OpenFiles' = {} => cache'.dirty = {} /\ Lands(disk', writes', InfoAt, vol'.freecount)
    <3>1. OpenFiles' = {} => \A f \in Files : node'[f].open.mode = "closed"
      BY DEF OpenFiles, IsOpen
    <3> QED BY <1>1, <1>b, <3>1
  <2>4. \A f \in damaged' : Known(f)' /\ ~IsOpen(f)'
    <3>1. \A f \in damaged : f \in Files \ fs
      BY DEF TypeInv
    <3>2. \A f \in damaged : node'[f] = node[f]
      BY <1>b, <3>1
    <3> QED BY <1>1, <3>2 DEF Rest, Known, IsOpen
  <2> QED BY <2>1, <2>2, <2>3, <2>4 DEF Rest
<1>5. ASSUME NEW f \in Files \ damaged PROVE FileOK(f, ch2[f], ent2[f])'
  <2>1. CASE f \in fs
    <3>1. EndsAs(disk, q, f, node'[f], ch2[f], ent2[f])
      BY <1>b, <2>1
    <3> QED BY <1>2, <2>1, <3>1, EndsWell
  <2>2. CASE f \notin fs
    <3>1. node'[f] = node[f] /\ ch2[f] = ch[f] /\ ent2[f] = ent[f]
      BY <1>a, <1>b, <2>2
    <3>2. FileOK(f, ch[f], ent[f])
      BY DEF Fits
    <3>3. On(ch[f]) \subseteq Clusters
      BY <3>2, ChainFits DEF FileOK, KnownAt
    <3>4. On(ch[f]) \subseteq Clusters \ X
      BY <1>a, <2>2, <3>3
    <3>5. Here.vol = vol
      BY DEF Here
    <3>6. /\ IsChain(vol.fat, ch[f]) => IsChain(q.vol.fat, ch[f])
          /\ Left(disk, <<>>, vol.fat, f, ch[f], ent[f]) =>
               /\ Left(disk, q.out, q.vol.fat, f, ch[f], ent[f])
               /\ Kept(disk, q.out, q.vol.fat, f, ch[f], ent[f])
      BY <1>2, <2>2, <3>4, <3>5, OtherFile
    <3>7. KnownAt(node'[f], vol'.fat, ch2[f])
      BY <1>1, <3>1, <3>2, <3>6 DEF FileOK, KnownAt
    <3>8. IsOpen(f)' => OpenAt(node'[f], ch2[f])
      BY <3>1, <3>2 DEF FileOK, IsOpen
    <3>9. ASSUME ~IsOpen(f)'
          PROVE  /\ ClosedAt(node'[f], ch2[f], ent2[f])
                 /\ Left(disk', writes', vol'.fat, f, ch2[f], ent2[f])
                 /\ Kept(disk', writes', vol'.fat, f, ch2[f], ent2[f])
      <4>1. ~IsOpen(f)
        BY <3>1, <3>9 DEF IsOpen
      <4>2. ClosedAt(node[f], ch[f], ent[f]) /\ Left(disk, writes, vol.fat, f, ch[f], ent[f])
        BY <3>2, <4>1 DEF FileOK
      <4>3. writes = <<>>
        BY DEF Idle
      <4> QED BY <1>1, <3>1, <3>6, <4>2, <4>3
    <3> QED BY <3>7, <3>8, <3>9 DEF FileOK
  <2> QED BY <2>1, <2>2
<1>6. ASSUME NEW f \in Files \ damaged, NEW g \in Files \ damaged, f # g
      PROVE  ~Meet(ch2[f], ch2[g])
  <2>1. ~Meet(ch[f], ch[g])
    BY <1>6 DEF Fits
  <2>2. f \notin fs => ch2[f] = ch[f] /\ On(ch[f]) \cap X = {}
    BY <1>a
  <2>3. g \notin fs => ch2[g] = ch[g] /\ On(ch[g]) \cap X = {}
    BY <1>a
  <2>4. f \in fs => On(ch2[f]) \subseteq X
    BY <1>a
  <2>5. g \in fs => On(ch2[g]) \subseteq X
    BY <1>a
  <2>6. f \in fs /\ g \in fs => ~Meet(ch2[f], ch2[g])
    BY <1>6, <1>a
  <2> QED BY <2>1, <2>2, <2>3, <2>4, <2>5, <2>6 DEF Meet
<1>7. ASSUME crashes = 0
      PROVE  /\ damaged = {} /\ Counted(q.vol)
             /\ \A c \in Clusters : q.vol.fat[c] # FREE => \E f \in Files : c \in On(ch2[f])
  <2>1. /\ damaged = {} /\ Counted(vol)
        /\ \A c \in Clusters : vol.fat[c] # FREE => \E f \in Files : c \in On(ch[f])
    BY <1>7 DEF Fits
  <2>2. Counted(q.vol)
    BY <2>1 DEF Spares, Here
  <2>3. ASSUME NEW c \in Clusters, q.vol.fat[c] # FREE PROVE \E f \in Files : c \in On(ch2[f])
    <3>1. CASE c \in X
      BY <1>b, <2>3, <3>1
    <3>2. CASE c \notin X
      <4>1. q.vol.fat[c] = vol.fat[c]
        BY <3>2 DEF Spares, Here
      <4>2. PICK f \in Files : c \in On(ch[f])
        BY <2>1, <2>3, <4>1
      <4>3. f \notin fs
        BY <1>a, <3>2, <4>2
      <4> QED BY <1>a, <4>2, <4>3
    <3> QED BY <3>1, <3>2
  <2> QED BY <2>1, <2>2, <2>3
<1>8. Fits(ch2, ent2)'
  BY <1>a, <1>1, <1>5, <1>6, <1>7 DEF Fits
<1> QED BY <1>3, <1>4, <1>8 DEF Inv

LEMMA HereIs ==
  ASSUME Rest, Idle
  PROVE  /\ Sound(disk, Here) /\ Here \in Memory
         /\ Here.vol = vol /\ Here.cache = cache /\ Here.out = <<>>
         /\ vol \in Vol /\ vol.fat \in Table
         /\ \A K, fs : Spares(Here, Here, K, fs)
<1>1. Here = Mem /\ Here.vol = vol /\ Here.cache = cache /\ Here.out = <<>>
  BY DEF Here, Mem, Idle
<1>2. Sound(disk, Here)
  BY <1>1 DEF Rest
<1>3. Here \in Memory
  BY <1>2 DEF Sound
<1>4. vol \in Vol /\ vol.fat \in Table
  BY <1>1, <1>3, MemoryIs
<1>5. \A K, fs : Spares(Here, Here, K, fs)
  BY <1>1, SparesStart
<1> QED BY <1>1, <1>2, <1>3, <1>4, <1>5

\* What the invariant says of a file that the power left whole.
LEMMA FileIs ==
  ASSUME TypeInv, Rest, NEW ch, NEW ent, Fits(ch, ent), NEW f \in Files, f \notin damaged
  PROVE  /\ ch[f] \in Seq(Clusters) /\ ent[f] \in DentEntry /\ node[f] \in NodeRec
         /\ IsChain(vol.fat, ch[f]) /\ On(ch[f]) \subseteq Clusters
         /\ node[f].loc = FirstIn(ch[f]) /\ node[f].size \in 0..Len(ch[f])
         /\ IsOpen(f) => OpenAt(node[f], ch[f])
         /\ ~IsOpen(f) => ClosedAt(node[f], ch[f], ent[f])
                          /\ Left(disk, writes, vol.fat, f, ch[f], ent[f])
<1>1. FileOK(f, ch[f], ent[f])
  BY DEF Fits
<1>2. On(ch[f]) \subseteq Clusters
  BY <1>1, ChainFits DEF FileOK, KnownAt
<1> QED BY <1>1, <1>2 DEF FileOK, KnownAt, Fits, TypeInv

\* No file has a free cluster.
LEMMA NotFree ==
  ASSUME NEW fat, NEW s, IsChain(fat, s), NEW c \in On(s)
  PROVE  fat[c] # FREE
<1>1. PICK i \in 1..Len(s) : c = s[i]
  BY DEF On
<1>2. fat[c] = After(s, i)
  BY <1>1 DEF IsChain
<1>3. s \in Seq(Clusters)
  BY DEF IsChain
<1>4. i < Len(s) => i + 1 \in 1..Len(s)
  BY <1>3, SeqOfClusters
<1>5. i < Len(s) => s[i + 1] # FREE
  BY <1>3, <1>4, SeqOfClusters
<1> QED BY <1>2, <1>5, EntryIs DEF After

\* A call about one file, which uses its clusters and free ones.
Uses(s, X) ==
  /\ X \subseteq Clusters /\ On(s) \subseteq X
  /\ \A c \in X : c \in On(s) \/ vol.fat[c] = FREE

CanMove(ch, ent, f, X, s, e) ==
  \E ch2, ent2 : ChainsMove(ch, ent, ch2, ent2, {f}, X) /\ ch2[f] = s /\ ent2[f] = e

LEMMA ChainMoves ==
  ASSUME TypeInv, Rest, NEW ch, NEW ent, Fits(ch, ent),
         NEW f \in Files, f \notin damaged, NEW X, Uses(ch[f], X),
         NEW s \in Seq(Clusters), NEW e \in DentEntry, On(s) \subseteq X
  PROVE  CanMove(ch, ent, f, X, s, e)
<1>1. ch \in [Files -> Seq(Clusters)] /\ ent \in [Files -> DentEntry]
  BY DEF Fits
<1>2. PICK ch2 \in [Files -> Seq(Clusters)] : ch2[f] = s /\ \A g \in Files : g # f => ch2[g] = ch[g]
  <2>1. [ch EXCEPT ![f] = s] \in [Files -> Seq(Clusters)]
    BY <1>1
  <2>2. [ch EXCEPT ![f] = s][f] = s /\ \A g \in Files : g # f => [ch EXCEPT ![f] = s][g] = ch[g]
    BY <1>1
  <2> QED BY <2>1, <2>2
<1>3. PICK ent2 \in [Files -> DentEntry] : ent2[f] = e /\ \A g \in Files : g # f => ent2[g] = ent[g]
  <2>1. [ent EXCEPT ![f] = e] \in [Files -> DentEntry]
    BY <1>1
  <2>2. [ent EXCEPT ![f] = e][f] = e /\ \A g \in Files : g # f => [ent EXCEPT ![f] = e][g] = ent[g]
    BY <1>1
  <2> QED BY <2>1, <2>2
<1>4. ASSUME NEW g \in Files \ ({f} \cup damaged) PROVE On(ch[g]) \cap X = {}
  <2>1. ~Meet(ch[f], ch[g])
    BY DEF Fits
  <2>2. IsChain(vol.fat, ch[g])
    BY FileIs
  <2>3. \A c \in On(ch[g]) : vol.fat[c] # FREE
    BY <2>2, NotFree
  <2> QED BY <2>1, <2>3 DEF Meet, Uses
<1>5. ChainsMove(ch, ent, ch2, ent2, {f}, X)
  BY <1>2, <1>3, <1>4 DEF ChainsMove, Uses
<1> QED BY <1>2, <1>3, <1>5 DEF CanMove

\* The tree changes in one place, from m to n.
NodeMoves(m, n, f, x) ==
  n \in [Files -> NodeRec] /\ n[f] = x /\ \A g \in Files : g # f => n[g] = m[g]

\* What a call about one file comes to.
CallOf(ch, f, X, q, n, s, e) ==
  /\ f \in Files /\ f \notin damaged /\ Uses(ch[f], X)
  /\ Sound(disk, q) /\ Spares(Here, q, Clusters \ X, {f}) /\ Did(q, {f})
  /\ NodeMoves(node, node', f, n)
  /\ s \in Seq(Clusters) /\ e \in DentEntry /\ On(s) \subseteq X
  /\ EndsAs(disk, q, f, n, s, e)
  /\ \A c \in X : q.vol.fat[c] # FREE => c \in On(s)
  /\ (\A g \in Files : node'[g].open.mode = "closed") =>
        q.cache.dirty = {} /\ Lands(disk, q.out, InfoAt, q.vol.freecount)

LEMMA CallOn ==
  ASSUME TypeInv, Rest, Idle, NEW ch, NEW ent, Fits(ch, ent),
         NEW f, NEW X, NEW q, NEW n, NEW s, NEW e, CallOf(ch, f, X, q, n, s, e)
  PROVE  Inv'
<1>1. /\ f \in Files /\ f \notin damaged /\ Uses(ch[f], X)
      /\ Sound(disk, q) /\ Spares(Here, q, Clusters \ X, {f}) /\ Did(q, {f})
      /\ s \in Seq(Clusters) /\ e \in DentEntry /\ On(s) \subseteq X
  BY DEF CallOf
<1>2. PICK ch2, ent2 : ChainsMove(ch, ent, ch2, ent2, {f}, X) /\ ch2[f] = s /\ ent2[f] = e
  <2>1. CanMove(ch, ent, f, X, s, e)
    BY <1>1, ChainMoves
  <2> QED BY <2>1 DEF CanMove
<1>3. CallEnds(disk, q, node', ch2, ent2, {f}, X)
  <2>1. node' \in [Files -> NodeRec] /\ node'[f] = n /\ \A g \in Files \ {f} : node'[g] = node[g]
    BY DEF NodeMoves, CallOf
  <2>2. \A g \in {f} : EndsAs(disk, q, g, node'[g], ch2[g], ent2[g])
    BY <1>2, <2>1 DEF CallOf
  <2>3. \A c \in X : q.vol.fat[c] # FREE => \E g \in {f} : c \in On(ch2[g])
    BY <1>2 DEF CallOf
  <2>4. (\A g \in Files : node'[g].open.mode = "closed") =>
          q.cache.dirty = {} /\ Lands(disk, q.out, InfoAt, q.vol.freecount)
    BY DEF CallOf
  <2> QED BY <2>1, <2>2, <2>3, <2>4 DEF CallEnds
<1>4. {f} \subseteq Files /\ {f} \cap damaged = {} /\ X \subseteq Clusters
  BY <1>1 DEF Uses
<1> QED BY <1>1, <1>2, <1>3, <1>4, CallDone

-----------------------------------------------------------------------------
(* The actions. *)

LEMMA NodesMove ==
  ASSUME TypeInv, NEW f \in Files, NEW n \in NodeRec, node' = [node EXCEPT ![f] = n]
  PROVE  NodeMoves(node, node', f, n)
BY DEF TypeInv, NodeMoves

\* Unknown has every field.
LEMMA UnknownIs ==
  /\ Unopened \in OpenRec /\ Unopened.mode = "closed" /\ Unknown \in NodeRec
  /\ ~Unknown.known /\ Unknown.loc = 0 /\ Unknown.size = 0 /\ Unknown.open = Unopened
BY DEF Unopened, Unknown, OpenRec, NodeRec

LEMMA EmptyChain ==
  ASSUME NEW fat
  PROVE  /\ IsChain(fat, <<>>) /\ On(<<>>) = {} /\ FirstIn(<<>>) = 0 /\ Len(<<>>) = 0
         /\ <<>> \in Seq(Clusters)
BY DEF IsChain, On, FirstIn

LEMMA CreateStep ==
  ASSUME TypeInv, Rest, NEW ch, NEW ent, Fits(ch, ent), NEW f \in Files, create(f)
  PROVE  Inv'
<1>1. Idle /\ ~Known(f) /\ f \notin damaged
  BY DEF create
<1> DEFINE e == [first |-> 0, size |-> 0]
           mode == IF CanOpen THEN "rw" ELSE "closed"
           n == [Unknown EXCEPT !.known = TRUE, !.open.mode = mode]
<1>2. PICK q : q = PutEntry(Here, f, e)
  OBVIOUS
<1>3. Did(q, {f}) /\ node' = [node EXCEPT ![f] = n]
  BY <1>2 DEF create
<1>4. /\ n \in NodeRec /\ n.known /\ n.loc = 0 /\ n.size = 0 /\ ~n.moved
      /\ n.open.mode = mode /\ n.open.fresh /\ n.open.pos = 0 /\ n.open.num = 0
      /\ n.open.first = 0 /\ n.open.last = 0
  BY DEF Unopened, Unknown, OpenRec, NodeRec
<1>5. Sound(disk, Here) /\ Spares(Here, Here, Clusters, {f})
  BY <1>1, HereIs
<1>6. e \in DentEntry
  BY DEF DentEntry
<1> HIDE DEF e, n
<1>7. /\ Sound(disk, q) /\ Spares(Here, q, Clusters, {f}) /\ q.vol = Here.vol
      /\ Lands(disk, q.out, DentAt(f), e)
  <2>1. f \in {f}
    OBVIOUS
  <2>2. Puts(disk, Here, Here, PutEntry(Here, f, e), Clusters, {f}, f, e)
    BY <1>5, <1>6, <2>1, EntryPut
  <2> QED BY <1>2, <2>2 DEF Puts
<1>8. ch[f] = <<>>
  <2>1. ~IsOpen(f)
    BY <1>1, FileIs DEF OpenAt, Known
  <2> QED BY <1>1, <2>1, FileIs DEF ClosedAt, Known
<1>9. Uses(ch[f], {}) /\ Clusters \ {} = Clusters
  BY <1>8, EmptyChain DEF Uses
<1>10. EndsAs(disk, q, f, n, <<>>, e)
  <2>1. KnownAt(n, q.vol.fat, <<>>)
    BY <1>4, EmptyChain DEF KnownAt
  <2>2. OpenAt(n, <<>>)
    BY <1>4, EmptyChain DEF OpenAt
  <2>3. ClosedAt(n, <<>>, e)
    BY <1>4, EmptyChain DEF ClosedAt, e
  <2>4. Left(disk, q.out, q.vol.fat, f, <<>>, e)
    BY <1>7, EmptyChain DEF Left
  <2> QED BY <2>1, <2>2, <2>3, <2>4 DEF EndsAs
<1>11. NodeMoves(node, node', f, n)
  BY <1>3, <1>4, NodesMove
<1>12. ~\A g \in Files : node'[g].open.mode = "closed"
  <2>1. CASE CanOpen
    <3>1. node'[f].open.mode = "rw"
      BY <1>4, <1>11, <2>1 DEF NodeMoves
    <3> QED BY <3>1
  <2>2. CASE ~CanOpen
    <3>1. OpenFiles # {}
      BY <2>2, FS_EmptySet, Consts DEF CanOpen
    <3>2. PICK g \in Files : IsOpen(g)
      BY <3>1 DEF OpenFiles
    <3>3. f # g
      BY <1>1, <3>2, FileIs DEF OpenAt, Known
    <3>4. node'[g].open.mode # "closed"
      BY <1>11, <3>2, <3>3 DEF NodeMoves, IsOpen
    <3> QED BY <3>4
  <2> QED BY <2>1, <2>2
<1>13. CallOf(ch, f, {}, q, n, <<>>, e)
  BY <1>1, <1>3, <1>6, <1>7, <1>9, <1>10, <1>11, <1>12, EmptyChain DEF CallOf
<1> QED BY <1>1, <1>13, CallOn

\* A call that leaves the file open, and one that leaves it closed and flushed.
LeftOpen(ch, f, X, q, n, s) ==
  /\ f \in Files /\ f \notin damaged /\ Uses(ch[f], X)
  /\ q \in Reach(disk, Here, Clusters \ X) /\ Did(q, {f}) /\ NodeMoves(node, node', f, n)
  /\ n.open.mode # "closed" /\ KnownAt(n, q.vol.fat, s) /\ OpenAt(n, s)
  /\ On(s) \subseteq X /\ \A c \in X : q.vol.fat[c] # FREE => c \in On(s)

LEMMA ReachSpares ==
  ASSUME Rest, Idle, NEW K, NEW fs, NEW q \in Reach(disk, Here, K)
  PROVE  Sound(disk, q) /\ Spares(Here, q, K, fs)
<1>1. Here \in Memory /\ Spares(Here, Here, K, fs)
  BY HereIs
<1>2. q \in Memory /\ Sound(disk, q) /\ Leads(Here, q, K)
  BY DEF Reach
<1> QED BY <1>1, <1>2, SparesOn

LEMMA OpenCall ==
  ASSUME TypeInv, Rest, Idle, NEW ch, NEW ent, Fits(ch, ent),
         NEW f, NEW X, NEW q, NEW n, NEW s, LeftOpen(ch, f, X, q, n, s)
  PROVE  Inv'
<1>1. f \in Files /\ f \notin damaged /\ q \in Reach(disk, Here, Clusters \ X)
  BY DEF LeftOpen
<1>2. Sound(disk, q) /\ Spares(Here, q, Clusters \ X, {f})
  BY <1>1, ReachSpares
<1>3. s \in Seq(Clusters)
  BY DEF LeftOpen, KnownAt, IsChain
<1>4. ent[f] \in DentEntry
  BY <1>1, FileIs
<1>5. EndsAs(disk, q, f, n, s, ent[f])
  BY DEF LeftOpen, EndsAs
<1>6. ~\A g \in Files : node'[g].open.mode = "closed"
  BY <1>1 DEF LeftOpen, NodeMoves
<1>7. PICK e : e = ent[f]
  OBVIOUS
<1>8. e \in DentEntry /\ EndsAs(disk, q, f, n, s, e)
  BY <1>4, <1>5, <1>7
<1>9. CallOf(ch, f, X, q, n, s, e)
  BY <1>2, <1>3, <1>6, <1>8 DEF CallOf, LeftOpen
<1> QED BY <1>9, CallOn

\* A table without a dirty sector is on the disk in the end.
LEMMA FlushedLeft ==
  ASSUME NEW d, NEW q, Sound(d, q), q.cache.dirty = {}, NEW s, On(s) \subseteq Clusters,
         NEW f, NEW e, Lands(d, q.out, DentAt(f), e)
  PROVE  Left(d, q.out, q.vol.fat, f, s, e)
BY DEF Sound, Left

\* fat_truncate after the k-th cluster of s leaves t.
Cuts(d, q, r, s, k, t) ==
  /\ r \in Reach(d, q, Clusters \ On(s)) /\ IsChain(r.vol.fat, t)
  /\ Len(t) = k /\ FirstIn(t) = FirstIn(s) /\ On(t) \subseteq On(s)
  /\ \A i \in 1..k : t[i] = s[i]
  /\ \A c \in On(s) : r.vol.fat[c] # FREE => c \in On(t)

LEMMA CutAt ==
  ASSUME NEW d, NEW q, Sound(d, q), NEW s, IsChain(q.vol.fat, s),
         NEW k \in 0..Len(s), k = 0 => s = <<>>, NEW o, o = IF k = 0 THEN 0 ELSE s[k]
  PROVE  \E t : Cuts(d, q, truncate(q, o), s, k, t)
<1>1. CASE k = 0
  <2>1. s = <<>> /\ o = 0
    BY <1>1
  <2>2. PICK r : r = truncate(q, 0)
    OBVIOUS
  <2>3. r \in Reach(d, q, Clusters)
    BY <2>2, TruncatedEmpty
  <2>4. Clusters \ On(s) = Clusters /\ On(s) = {} /\ Len(s) = 0
    BY <2>1, EmptyChain
  <2>5. IsChain(r.vol.fat, s)
    BY <2>1, EmptyChain
  <2>6. Cuts(d, q, r, s, k, s)
    BY <1>1, <2>3, <2>4, <2>5 DEF Cuts
  <2> QED BY <2>1, <2>2, <2>6
<1>2. CASE k # 0
  <2>1. s \in Seq(Clusters) /\ Len(s) \in Nat
    BY SeqOfClusters DEF IsChain
  <2>2. k \in 1..Len(s) /\ o = s[k]
    BY <1>2, <2>1
  <2>3. PICK r : r = truncate(q, s[k])
    OBVIOUS
  <2>4. /\ r \in Reach(d, q, Clusters \ On(s)) /\ IsChain(r.vol.fat, Within(s, k))
        /\ \A c \in On(s) : r.vol.fat[c] # FREE => c \in On(Within(s, k))
    BY <2>2, <2>3, Truncated
  <2>5. Len(Within(s, k)) = k /\ \A i \in 1..k : Within(s, k)[i] = s[i]
    BY <2>1, <2>2 DEF Within
  <2>6. FirstIn(Within(s, k)) = FirstIn(s)
    <3>1. 1 \in 1..k /\ s # <<>>
      BY <2>1, <2>2
    <3>2. Within(s, k) # <<>>
      BY <2>1, <2>2, <2>5
    <3> QED BY <2>5, <3>1, <3>2 DEF FirstIn
  <2>7. On(Within(s, k)) \subseteq On(s)
    BY <2>1, <2>2, <2>5 DEF On
  <2>8. Cuts(d, q, r, s, k, Within(s, k))
    BY <2>4, <2>5, <2>6, <2>7 DEF Cuts
  <2> QED BY <2>2, <2>3, <2>8
<1> QED BY <1>1, <1>2

\* What does nothing to the table leaves the chain of the file as it is.
LEMMA HereStays ==
  ASSUME TypeInv, Rest, Idle, NEW ch, NEW ent, Fits(ch, ent), NEW f \in Files, f \notin damaged,
         NEW q \in Reach(disk, Here, Clusters)
  PROVE  /\ q \in Reach(disk, Here, Clusters \ On(ch[f])) /\ Uses(ch[f], On(ch[f]))
         /\ IsChain(q.vol.fat, ch[f])
<1>1. On(ch[f]) \subseteq Clusters /\ IsChain(vol.fat, ch[f])
  BY FileIs
<1>2. Uses(ch[f], On(ch[f]))
  BY <1>1 DEF Uses
<1>3. q \in Reach(disk, Here, Clusters \ On(ch[f]))
  <2>1. Leads(Here, q, Clusters)
    BY DEF Reach
  <2>2. Leads(Here, q, Clusters \ On(ch[f]))
    BY <2>1, LeadsLess
  <2> QED BY <2>2 DEF Reach
<1>4. \A c \in Clusters : q.vol.fat[c] = vol.fat[c]
  BY HereIs DEF Reach, Leads
<1>5. IsChain(q.vol.fat, ch[f])
  BY <1>1, <1>4, ChainSame
<1> QED BY <1>2, <1>3, <1>5

LEMMA OpenStep ==
  ASSUME TypeInv, Rest, NEW ch, NEW ent, Fits(ch, ent), NEW f \in Files,
         NEW mode \in {"rw", "trunc"}, open(f, mode)
  PROVE  Inv'
<1>1. Idle /\ Known(f) /\ ~node[f].moved /\ ~IsOpen(f) /\ f \notin damaged
  BY DEF open, Settled
<1>2. PICK s : s = ch[f]
  OBVIOUS
<1> DEFINE o == Opened(f, mode)
           n == [node[f] EXCEPT !.open = o, !.size = IF mode = "trunc" THEN 0 ELSE @]
<1>3. /\ node[f] \in NodeRec /\ IsChain(vol.fat, s) /\ s \in Seq(Clusters)
      /\ node[f].loc = FirstIn(s) /\ node[f].size \in 0..Len(s)
  BY <1>1, <1>2, FileIs
<1>4. /\ o \in OpenRec /\ o.mode = mode /\ o.first = FirstIn(s) /\ o.last = FirstIn(s)
      /\ o.num = 0 /\ o.fresh /\ o.pos = 0
  <2>1. FirstIn(s) \in Nat
    BY <1>3, SeqOfClusters
  <2> QED BY <1>3, <2>1 DEF Opened, Unopened, OpenRec
<1>5. NodeMoves(node, node', f, n)
  <2>1. node' = [node EXCEPT ![f].open = o, ![f].size = IF mode = "trunc" THEN 0 ELSE @]
    BY DEF open
  <2> HIDE DEF o
  <2>2. n \in NodeRec
    BY <1>3, <1>4 DEF NodeRec
  <2>3. node' = [node EXCEPT ![f] = n]
    BY <1>3, <2>1 DEF TypeInv, NodeRec
  <2> QED BY <2>2, <2>3, NodesMove
<1> HIDE DEF o
<1>6. /\ n.known /\ ~n.moved /\ n.loc = FirstIn(s) /\ n.open = o
      /\ n.size = IF mode = "trunc" THEN 0 ELSE node[f].size
  BY <1>1, <1>3 DEF NodeRec, Known
<1> HIDE DEF n
<1>7. n.open.mode # "closed" /\ \A t : FirstIn(t) = FirstIn(s) => OpenAt(n, t)
  BY <1>4, <1>6 DEF OpenAt
<1>8. Uses(ch[f], On(s))
  BY <1>1, <1>2, <1>3, FileIs DEF Uses
<1>9. CASE mode = "rw"
  <2>1. Did(Here, {f})
    BY <1>9 DEF open
  <2>2. PICK q : q = Here
    OBVIOUS
  <2>3. Here \in Reach(disk, Here, Clusters)
    BY <1>1, HereIs, ReachSelf
  <2>4. q \in Reach(disk, Here, Clusters)
    BY <2>2, <2>3
  <2>5. q \in Reach(disk, Here, Clusters \ On(s)) /\ IsChain(q.vol.fat, s)
    BY <1>1, <1>2, <2>4, HereStays
  <2>6. KnownAt(n, q.vol.fat, s)
    BY <1>3, <1>6, <1>9, <2>5 DEF KnownAt
  <2>7. Did(q, {f})
    BY <2>1, <2>2
  <2>8. LeftOpen(ch, f, On(s), q, n, s)
    BY <1>1, <1>5, <1>7, <1>8, <2>5, <2>6, <2>7 DEF LeftOpen
  <2> QED BY <1>1, <2>8, OpenCall
<1>10. CASE mode = "trunc"
  <2>1. Did(truncate(Here, o.last), {f})
    BY <1>10 DEF open, o
  <2>2. PICK k \in 0..Len(s) : (k = 0 <=> s = <<>>) /\ o.last = IF k = 0 THEN 0 ELSE s[k]
    <3>1. CASE s = <<>>
      BY <1>4, <3>1 DEF FirstIn
    <3>2. CASE s # <<>>
      <4>1. 1 \in 0..Len(s)
        BY <1>3, <3>2, SeqOfClusters
      <4> QED BY <1>4, <3>2, <4>1 DEF FirstIn
    <3> QED BY <3>1, <3>2
  <2>3. Sound(disk, Here) /\ Here.vol = vol
    BY <1>1, HereIs
  <2>4. PICK q : q = truncate(Here, o.last)
    OBVIOUS
  <2>5. IsChain(Here.vol.fat, s)
    BY <1>3, <2>3
  <2>6. PICK x : x = o.last
    OBVIOUS
  <2>7. \E t : Cuts(disk, Here, truncate(Here, x), s, k, t)
    BY <2>2, <2>3, <2>5, <2>6, CutAt
  <2>8. PICK t : Cuts(disk, Here, q, s, k, t)
    BY <2>4, <2>6, <2>7
  <2>9. q \in Reach(disk, Here, Clusters \ On(s)) /\ OpenAt(n, t)
    BY <1>7, <2>8 DEF Cuts
  <2>10. KnownAt(n, q.vol.fat, t)
    BY <1>6, <1>10, <2>8 DEF Cuts, KnownAt
  <2>11. Did(q, {f})
    BY <2>1, <2>4
  <2>12. LeftOpen(ch, f, On(s), q, n, t)
    BY <1>1, <1>5, <1>7, <1>8, <2>8, <2>9, <2>10, <2>11 DEF LeftOpen, Cuts
  <2> QED BY <1>1, <2>12, OpenCall
<1> QED BY <1>9, <1>10

LEMMA WriteStep ==
  ASSUME TypeInv, Rest, NEW ch, NEW ent, Fits(ch, ent), NEW f \in Files, write(f)
  PROVE  Inv'
<1> DEFINE o == node[f].open
           w == NextWrite(Here, o)
           again == o.fresh /\ o.last # 0
<1>1. Idle /\ IsOpen(f)
  BY DEF write
<1>2. PICK s : s = ch[f]
  OBVIOUS
<1>3. f \notin damaged
  BY <1>1 DEF Rest
<1>4. /\ node[f] \in NodeRec /\ IsChain(vol.fat, s) /\ s \in Seq(Clusters)
      /\ node[f].loc = FirstIn(s) /\ node[f].size \in 0..Len(s)
      /\ OpenAt(node[f], s)
  BY <1>1, <1>2, <1>3, FileIs
<1>5. Len(s) \in Nat /\ FirstIn(s) \in Nat /\ (FirstIn(s) = 0 <=> s = <<>>)
      /\ (s = <<>> <=> Len(s) = 0) /\ \A i \in 1..Len(s) : s[i] \in Nat /\ s[i] # 0
  BY <1>4, SeqOfClusters
<1>6. /\ o \in OpenRec /\ o.mode # "closed" /\ o.first = FirstIn(s)
      /\ node[f].known /\ ~node[f].moved
  BY <1>1, <1>4 DEF NodeRec, IsOpen, OpenAt
<1>7. \/ o.fresh /\ o.pos = 0 /\ o.num = 0 /\ o.last = FirstIn(s)
      \/ /\ ~o.fresh /\ o.pos \in 1..Len(s) /\ o.last = s[o.pos]
         /\ o.num + 1 = o.pos \/ (o.num = o.pos /\ node[f].size <= o.pos)
  BY <1>4 DEF OpenAt
<1>8. Sound(disk, Here) /\ Here.vol = vol /\ Here \in Reach(disk, Here, Clusters)
  BY <1>1, HereIs, ReachSelf
<1>9. Uses(s, On(s)) /\ On(s) \subseteq Clusters
  BY <1>2, <1>3, <1>4, FileIs DEF Uses
<1>10. CASE again
  <2> DEFINE p == [o EXCEPT !.fresh = FALSE, !.pos = @ + 1]
             n == [node[f] EXCEPT !.open = p, !.size = IF o.pos + 1 > @ THEN o.pos + 1 ELSE @]
  <2>1. Did(Here, {f})
    BY <1>10 DEF write
  <2>2. /\ o.fresh /\ o.pos = 0 /\ o.num = 0 /\ o.last = FirstIn(s) /\ s # <<>> /\ 1 \in 1..Len(s)
        /\ s[1] = o.last
    BY <1>5, <1>7, <1>10 DEF FirstIn
  <2>3. /\ p \in OpenRec /\ p.mode = o.mode /\ p.first = o.first /\ p.last = o.last
        /\ p.num = 0 /\ ~p.fresh /\ p.pos = 1
    <3>1. o.pos + 1 = 1
      BY <2>2
    <3> HIDE DEF o
    <3>2. p = [o EXCEPT !.fresh = FALSE, !.pos = 1]
      BY <3>1
    <3>3. [o EXCEPT !.fresh = FALSE, !.pos = 1] \in OpenRec
      BY <1>6 DEF OpenRec
    <3>4. /\ p.mode = o.mode /\ p.first = o.first /\ p.last = o.last
          /\ p.num = o.num /\ ~p.fresh /\ p.pos = 1
      BY <1>6, <3>2 DEF OpenRec
    <3> QED BY <2>2, <3>2, <3>3, <3>4
  <2>4. node' = [node EXCEPT ![f].open = p, ![f].size = IF o.pos + 1 > @ THEN o.pos + 1 ELSE @]
    BY <1>10 DEF write
  <2> HIDE DEF p
  <2>5. n \in NodeRec /\ node' = [node EXCEPT ![f] = n]
    <3>1. p \in OpenRec /\ o.pos + 1 \in Nat /\ node[f].size \in Nat
      BY <1>4, <2>2, <2>3
    <3>2. PICK z : z = IF o.pos + 1 > node[f].size THEN o.pos + 1 ELSE node[f].size
      OBVIOUS
    <3>3. z \in Nat
      BY <3>1, <3>2
    <3>4. n = [node[f] EXCEPT !.open = p, !.size = z]
      BY <1>4, <3>2 DEF NodeRec
    <3>5. [node[f] EXCEPT !.open = p, !.size = z] \in NodeRec
      BY <1>4, <3>1, <3>3 DEF NodeRec
    <3>6. node' = [node EXCEPT ![f] = n]
      BY <1>4, <2>4 DEF TypeInv, NodeRec
    <3> QED BY <3>4, <3>5, <3>6
  <2>6. NodeMoves(node, node', f, n)
    BY <2>5, NodesMove
  <2>7. /\ n.known /\ ~n.moved /\ n.loc = FirstIn(s) /\ n.open = p
        /\ n.size = IF 1 > node[f].size THEN 1 ELSE node[f].size
    BY <1>4, <1>6, <2>2 DEF NodeRec
  <2> HIDE DEF n
  <2>8. OpenAt(n, s)
    BY <1>6, <2>2, <2>3, <2>7 DEF OpenAt
  <2>9. PICK q : q = Here
    OBVIOUS
  <2>10. q \in Reach(disk, Here, Clusters)
    BY <1>8, <2>9
  <2>11. q \in Reach(disk, Here, Clusters \ On(s)) /\ IsChain(q.vol.fat, s)
    BY <1>1, <1>2, <1>3, <2>10, HereStays
  <2>12. KnownAt(n, q.vol.fat, s)
    BY <1>4, <1>5, <2>2, <2>7, <2>11 DEF KnownAt
  <2>13. n.open.mode # "closed"
    BY <1>6, <2>3, <2>7
  <2>14. Did(q, {f})
    BY <2>1, <2>9
  <2>15. LeftOpen(ch, f, On(s), q, n, s)
    BY <1>2, <1>3, <1>9, <2>6, <2>8, <2>11, <2>12, <2>13, <2>14 DEF LeftOpen
  <2> QED BY <1>1, <2>15, OpenCall
<1>11. CASE ~again
  <2>1. Did(w.q, {f})
    BY <1>11 DEF write
  <2>2. PICK k : k = o.pos
    OBVIOUS
  <2>3. k \in 0..Len(s) /\ (k = 0 => s = <<>>) /\ o.last = IF k = 0 THEN 0 ELSE s[k]
    BY <1>5, <1>7, <1>11, <2>2
  <2>4. PICK q : q = w.q
    OBVIOUS
  <2>5. PICK c : c = w.cluster
    OBVIOUS
  <2>6. PICK x : x = o
    OBVIOUS
  <2>7. IsChain(Here.vol.fat, s)
    BY <1>4, <1>8
  <2>8. \/ /\ k < Len(s) /\ c = s[k + 1]
           /\ q \in Reach(disk, Here, Clusters)
        \/ /\ k = Len(s) /\ c = 0
           /\ q \in Reach(disk, Here, Clusters)
        \/ /\ k = Len(s) /\ c \in Clusters /\ Here.vol.fat[c] = FREE
           /\ q \in Reach(disk, Here, Clusters \ (On(s) \cup {c}))
           /\ IsChain(q.vol.fat, Append(s, c))
    <3>1. x.last = IF k = 0 THEN 0 ELSE s[k]
      BY <2>3, <2>6
    <3>2. q = NextWrite(Here, x).q /\ c = NextWrite(Here, x).cluster
      BY <2>4, <2>5, <2>6
    <3> HIDE DEF w, o
    <3>3. LET v   == NextWrite(Here, x)
              new == v.cluster
          IN  \/ /\ k < Len(s) /\ new = s[k + 1]
                 /\ v.q \in Reach(disk, Here, Clusters)
              \/ /\ k = Len(s) /\ new = 0
                 /\ v.q \in Reach(disk, Here, Clusters)
              \/ /\ k = Len(s) /\ new \in Clusters /\ Here.vol.fat[new] = FREE
                 /\ v.q \in Reach(disk, Here, Clusters \ (On(s) \cup {new}))
                 /\ IsChain(v.q.vol.fat, Append(s, new))
      BY <1>8, <2>3, <2>7, <3>1, NextWritten
    <3> QED BY <3>2, <3>3
  <2> DEFINE first == IF o.last = 0 THEN c ELSE o.first
             o2 == [o EXCEPT !.first = first, !.last = c, !.num = @ + 1,
                             !.fresh = FALSE, !.pos = @ + 1]
             n == [node[f] EXCEPT !.open = o2, !.loc = IF o.last = 0 THEN c ELSE @,
                                  !.size = IF o2.pos > @ THEN o2.pos ELSE @]
  <2>9. node' = IF c = 0 THEN node
                ELSE [node EXCEPT ![f].open = o2, ![f].loc = IF o.last = 0 THEN c ELSE @,
                                  ![f].size = IF o2.pos > @ THEN o2.pos ELSE @]
    BY <1>11, <2>5 DEF write
  <2>10. Did(q, {f})
    BY <2>1, <2>4
  <2> HIDE DEF w
  <2>11. ASSUME c # 0, c \in Nat, first = IF s = <<>> THEN c ELSE FirstIn(s)
         PROVE  /\ NodeMoves(node, node', f, n) /\ n.known /\ ~n.moved /\ n.open = o2
                /\ n.loc = (IF s = <<>> THEN c ELSE FirstIn(s))
                /\ n.size = IF k + 1 > node[f].size THEN k + 1 ELSE node[f].size
                /\ o2.mode # "closed" /\ o2.first = first /\ o2.last = c
                /\ o2.num = o.num + 1 /\ ~o2.fresh /\ o2.pos = k + 1
    <3>0. o.last = 0 <=> s = <<>>
      BY <1>5, <2>3
    <3>1. /\ o2 \in OpenRec /\ o2.mode = o.mode /\ o2.first = first /\ o2.last = c
          /\ o2.num = o.num + 1 /\ ~o2.fresh /\ o2.pos = k + 1
      <4>1. first \in Nat /\ o.num + 1 \in Nat /\ o.pos + 1 = k + 1 /\ k + 1 \in Nat
        BY <1>5, <1>6, <2>2, <2>3, <2>11 DEF OpenRec
      <4> HIDE DEF first, o
      <4> QED BY <1>6, <2>11, <4>1 DEF OpenRec
    <3> HIDE DEF o2
    <3>2. n \in NodeRec
      <4>1. o2 \in OpenRec /\ o2.pos \in Nat /\ node[f].size \in Nat /\ node[f].loc \in Nat
        BY <1>4, <1>5, <2>3, <3>1
      <4>2. PICK z : z = IF o2.pos > node[f].size THEN o2.pos ELSE node[f].size
        OBVIOUS
      <4>3. PICK y : y = IF o.last = 0 THEN c ELSE node[f].loc
        OBVIOUS
      <4>4. z \in Nat /\ y \in Nat
        BY <2>11, <4>1, <4>2, <4>3
      <4>5. n = [node[f] EXCEPT !.open = o2, !.loc = y, !.size = z]
        BY <1>4, <4>2, <4>3 DEF NodeRec
      <4>6. [node[f] EXCEPT !.open = o2, !.loc = y, !.size = z] \in NodeRec
        BY <1>4, <4>1, <4>4 DEF NodeRec
      <4> QED BY <4>5, <4>6
    <3>3. node' = [node EXCEPT ![f] = n]
      BY <1>4, <2>9, <2>11, <3>1 DEF TypeInv, NodeRec
    <3>4. NodeMoves(node, node', f, n)
      BY <3>2, <3>3, NodesMove
    <3>5. /\ n.known /\ ~n.moved /\ n.open = o2 /\ n.loc = (IF s = <<>> THEN c ELSE FirstIn(s))
          /\ n.size = IF k + 1 > node[f].size THEN k + 1 ELSE node[f].size
      BY <1>4, <1>6, <3>0, <3>1 DEF NodeRec
    <3> QED BY <1>6, <3>1, <3>4, <3>5
  <2>12. CASE k < Len(s) /\ c = s[k + 1] /\ q \in Reach(disk, Here, Clusters)
    <3>1. k + 1 \in 1..Len(s) /\ k # 0 /\ s # <<>>
      BY <1>5, <2>3, <2>12
    <3>2. c # 0 /\ c \in Nat /\ first = FirstIn(s)
      BY <1>5, <1>6, <2>3, <2>12, <3>1
    <3>3. /\ NodeMoves(node, node', f, n) /\ n.known /\ ~n.moved /\ n.open = o2
          /\ n.loc = FirstIn(s)
          /\ n.size = (IF k + 1 > node[f].size THEN k + 1 ELSE node[f].size)
          /\ o2.mode # "closed" /\ o2.first = FirstIn(s) /\ o2.last = c
          /\ o2.num = o.num + 1 /\ ~o2.fresh /\ o2.pos = k + 1
      BY <2>11, <3>1, <3>2
    <3> HIDE DEF n, o2
    <3>4. q \in Reach(disk, Here, Clusters \ On(s)) /\ IsChain(q.vol.fat, s)
      BY <1>1, <1>2, <1>3, <2>12, HereStays
    <3>5. KnownAt(n, q.vol.fat, s)
      BY <1>4, <1>5, <3>1, <3>3, <3>4 DEF KnownAt
    <3>6. o.num + 1 = k \/ (o.num = k /\ node[f].size <= k)
      BY <1>5, <1>7, <2>2, <3>1
    <3>7. o2.num + 1 = o2.pos \/ (o2.num = o2.pos /\ n.size <= o2.pos)
      BY <1>4, <1>5, <2>3, <3>3, <3>6
    <3>8. OpenAt(n, s)
      BY <2>12, <3>1, <3>3, <3>7 DEF OpenAt
    <3>9. LeftOpen(ch, f, On(s), q, n, s)
      BY <1>2, <1>3, <1>9, <2>10, <3>3, <3>4, <3>5, <3>8 DEF LeftOpen
    <3> QED BY <1>1, <3>9, OpenCall
  <2>13. CASE k = Len(s) /\ c = 0 /\ q \in Reach(disk, Here, Clusters)
    <3> HIDE DEF n, o2
    <3>1. node' = node
      BY <2>9, <2>13
    <3>2. PICK m : m = node[f]
      OBVIOUS
    <3>3. NodeMoves(node, node', f, m)
      BY <3>1, <3>2 DEF NodeMoves, TypeInv
    <3>4. q \in Reach(disk, Here, Clusters \ On(s)) /\ IsChain(q.vol.fat, s)
      BY <1>1, <1>2, <1>3, <2>13, HereStays
    <3>5. KnownAt(m, q.vol.fat, s) /\ OpenAt(m, s) /\ m.open.mode # "closed"
      BY <1>4, <1>6, <3>2, <3>4 DEF KnownAt
    <3>6. LeftOpen(ch, f, On(s), q, m, s)
      BY <1>2, <1>3, <1>9, <2>10, <3>3, <3>4, <3>5 DEF LeftOpen
    <3> QED BY <1>1, <3>6, OpenCall
  <2>14. CASE /\ k = Len(s) /\ c \in Clusters /\ Here.vol.fat[c] = FREE
              /\ q \in Reach(disk, Here, Clusters \ (On(s) \cup {c}))
              /\ IsChain(q.vol.fat, Append(s, c))
    <3> DEFINE t == Append(s, c)
               X == On(s) \cup {c}
    <3>1. c # 0 /\ c \in Nat
      BY <2>14, EntryIs
    <3>2. first = IF s = <<>> THEN c ELSE FirstIn(s)
      BY <1>5, <1>6, <2>3
    <3>3. /\ NodeMoves(node, node', f, n) /\ n.known /\ ~n.moved /\ n.open = o2
          /\ n.loc = (IF s = <<>> THEN c ELSE FirstIn(s))
          /\ n.size = (IF k + 1 > node[f].size THEN k + 1 ELSE node[f].size)
          /\ o2.mode # "closed" /\ o2.first = first /\ o2.last = c
          /\ o2.num = o.num + 1 /\ ~o2.fresh /\ o2.pos = k + 1
      BY <2>11, <3>1, <3>2
    <3> HIDE DEF n, o2, first
    <3>4. /\ Len(t) = k + 1 /\ t[k + 1] = c /\ FirstIn(t) = (IF s = <<>> THEN c ELSE FirstIn(s))
          /\ On(t) = X
      <4>1. Len(t) = Len(s) + 1 /\ t[Len(s) + 1] = c /\ \A i \in 1..Len(s) : t[i] = s[i]
        BY <1>4, <2>14
      <4> HIDE DEF t
      <4>2. FirstIn(t) = IF s = <<>> THEN c ELSE FirstIn(s)
        <5>1. t # <<>>
          BY <1>5, <4>1
        <5>2. s # <<>> => 1 \in 1..Len(s)
          BY <1>5
        <5> QED BY <1>5, <4>1, <5>1, <5>2 DEF FirstIn
      <4>3. \A i \in 1..(Len(s) + 1) : i \in 1..Len(s) \/ i = Len(s) + 1
        BY <1>5
      <4>4. Len(s) + 1 \in 1..(Len(s) + 1) /\ 1..Len(s) \subseteq 1..(Len(s) + 1)
        BY <1>5
      <4>5. On(t) = X
        BY <4>1, <4>3, <4>4 DEF On
      <4> QED BY <2>14, <4>1, <4>2, <4>5
    <3>5. Uses(s, X)
      BY <1>8, <1>9, <2>14 DEF Uses
    <3>6. IsChain(q.vol.fat, t) /\ q \in Reach(disk, Here, Clusters \ X)
      BY <2>14
    <3> HIDE DEF t, X
    <3>7. KnownAt(n, q.vol.fat, t)
      BY <1>4, <1>5, <2>3, <2>14, <3>3, <3>4, <3>6 DEF KnownAt
    <3>8. k = 0 \/ o.num + 1 = k \/ (o.num = k /\ node[f].size <= k)
      BY <1>5, <1>7, <2>2
    <3>9. o2.num + 1 = o2.pos \/ (o2.num = o2.pos /\ n.size <= o2.pos)
      BY <1>4, <1>5, <1>7, <2>2, <2>3, <3>3, <3>8
    <3>10. OpenAt(n, t)
      BY <1>5, <2>3, <3>2, <3>3, <3>4, <3>9 DEF OpenAt
    <3>11. LeftOpen(ch, f, X, q, n, t)
      BY <1>2, <1>3, <2>10, <3>3, <3>4, <3>5, <3>6, <3>7, <3>10 DEF LeftOpen
    <3> QED BY <1>1, <3>11, OpenCall
  <2> QED BY <2>8, <2>12, <2>13, <2>14
<1> QED BY <1>10, <1>11

\* What fat_seek needs to know of an open file: last is the cluster number num
\* when the place sought is not before it.
LEMMA OpenSeeks ==
  ASSUME NEW n \in NodeRec, NEW s \in Seq(Clusters), OpenAt(n, s),
         n.size \in Nat, NEW p \in Nat, p <= n.size
  PROVE  /\ n.open.first = FirstIn(s) /\ n.open.num \in Nat
         /\ n.open.num # 0 /\ p - 1 >= n.open.num =>
              n.open.num + 1 \in 1..Len(s) /\ n.open.last = s[n.open.num + 1]
<1>1. n.open \in OpenRec
  BY DEF NodeRec
<1>2. n.open.num \in Nat /\ n.open.pos \in Nat
  BY <1>1 DEF OpenRec
<1>3. Len(s) \in Nat
  BY SeqOfClusters
<1>4. \/ n.open.num = 0
      \/ /\ n.open.pos \in 1..Len(s) /\ n.open.last = s[n.open.pos]
         /\ n.open.num + 1 = n.open.pos \/ (n.open.num = n.open.pos /\ n.size <= n.open.pos)
  BY DEF OpenAt
<1>5. n.open.first = FirstIn(s)
  BY DEF OpenAt
<1>6. ASSUME n.open.num # 0, p - 1 >= n.open.num
      PROVE  n.open.num + 1 = n.open.pos /\ n.open.pos \in 1..Len(s) /\ n.open.last = s[n.open.pos]
  BY <1>2, <1>3, <1>4, <1>6
<1> QED BY <1>2, <1>5, <1>6

LEMMA SoughtIn ==
  ASSUME TypeInv, Rest, Idle, NEW ch, NEW ent, Fits(ch, ent), NEW f \in Files, IsOpen(f),
         NEW p \in Nat, p <= node[f].size
  PROVE  Seeks(disk, Here, Seek(Here, node[f].open, p), node[f].open, ch[f], p)
<1>1. PICK s : s = ch[f]
  OBVIOUS
<1>2. f \notin damaged
  BY DEF Rest
<1>3. /\ node[f] \in NodeRec /\ IsChain(vol.fat, s) /\ s \in Seq(Clusters)
      /\ node[f].size \in 0..Len(s) /\ OpenAt(node[f], s)
  BY <1>1, <1>2, FileIs
<1>4. Len(s) \in Nat
  BY <1>3, SeqOfClusters
<1>5. Sound(disk, Here) /\ IsChain(Here.vol.fat, s)
  BY <1>3, HereIs
<1>6. p \in 0..Len(s)
  BY <1>3, <1>4
<1>7. PICK n : n = node[f]
  OBVIOUS
<1>8. n \in NodeRec /\ OpenAt(n, s) /\ n.size \in Nat /\ p <= n.size
  BY <1>3, <1>4, <1>7
<1>9. PICK o : o = n.open
  OBVIOUS
<1>10. /\ o.first = FirstIn(s) /\ o.num \in Nat
       /\ o.num # 0 /\ p - 1 >= o.num => o.num + 1 \in 1..Len(s) /\ o.last = s[o.num + 1]
  BY <1>3, <1>8, <1>9, OpenSeeks
<1>11. Seeks(disk, Here, Seek(Here, o, p), o, s, p)
  BY <1>5, <1>6, <1>10, Sought
<1> QED BY <1>1, <1>7, <1>9, <1>11

LEMMA LseekStep ==
  ASSUME TypeInv, Rest, NEW ch, NEW ent, Fits(ch, ent), NEW f \in Files,
         NEW p \in Nat, lseek(f, p)
  PROVE  Inv'
<1>1. Idle /\ IsOpen(f) /\ p <= node[f].size
  BY DEF lseek
<1>2. PICK s : s = ch[f]
  OBVIOUS
<1>3. f \notin damaged
  BY <1>1 DEF Rest
<1>4. /\ node[f] \in NodeRec /\ IsChain(vol.fat, s) /\ s \in Seq(Clusters)
      /\ node[f].loc = FirstIn(s) /\ node[f].size \in 0..Len(s) /\ OpenAt(node[f], s)
  BY <1>1, <1>2, <1>3, FileIs
<1>5. PICK o : o = node[f].open
  OBVIOUS
<1>6. PICK r : r = Seek(Here, o, p)
  OBVIOUS
<1>7. Seeks(disk, Here, r, o, s, p)
  BY <1>1, <1>2, <1>5, <1>6, SoughtIn
<1>8. node' = [node EXCEPT ![f].open = [r.f EXCEPT !.pos = p]] /\ Did(r.q, {f})
  BY <1>5, <1>6 DEF lseek
<1>9. /\ o \in OpenRec /\ o.mode # "closed" /\ o.first = FirstIn(s)
      /\ node[f].known /\ ~node[f].moved
  BY <1>1, <1>4, <1>5 DEF NodeRec, IsOpen, OpenAt
<1>10. Len(s) \in Nat /\ FirstIn(s) \in Nat /\ \A i \in 1..Len(s) : s[i] \in Nat
  BY <1>4, SeqOfClusters
<1>11. PICK o2 : o2 = [r.f EXCEPT !.pos = p]
  OBVIOUS
<1>12. /\ o2 \in OpenRec /\ o2.mode = o.mode /\ o2.first = FirstIn(s) /\ o2.pos = p
       /\ IF p = 0 THEN o2.last = FirstIn(s) /\ o2.num = 0 /\ o2.fresh
          ELSE o2.last = s[p] /\ o2.num = p - 1 /\ ~o2.fresh
  <2>1. CASE p = 0
    <3>1. r.f = [o EXCEPT !.last = FirstIn(s), !.num = 0, !.fresh = TRUE]
      BY <1>7, <2>1 DEF Seeks
    <3> QED BY <1>9, <1>10, <1>11, <2>1, <3>1 DEF OpenRec
  <2>2. CASE p # 0
    <3>1. r.f = [o EXCEPT !.last = s[p], !.num = p - 1, !.fresh = FALSE]
      BY <1>7, <2>2 DEF Seeks
    <3>2. p - 1 \in Nat /\ s[p] \in Nat
      BY <1>1, <1>4, <1>10, <2>2
    <3>3. PICK x, y : x = s[p] /\ y = p - 1
      OBVIOUS
    <3>4. r.f \in OpenRec /\ r.f.mode = o.mode /\ r.f.first = o.first /\ r.f.last = x
          /\ r.f.num = y /\ ~r.f.fresh
      BY <1>9, <3>1, <3>2, <3>3 DEF OpenRec
    <3>5. o2 \in OpenRec /\ o2.mode = o.mode /\ o2.first = o.first /\ o2.last = x
          /\ o2.num = y /\ ~o2.fresh /\ o2.pos = p
      BY <1>11, <3>4 DEF OpenRec
    <3> QED BY <1>9, <2>2, <3>3, <3>5
  <2> QED BY <2>1, <2>2
<1>13. PICK n : n = [node[f] EXCEPT !.open = o2]
  OBVIOUS
<1>14. /\ n \in NodeRec /\ node' = [node EXCEPT ![f] = n]
       /\ n.known /\ ~n.moved /\ n.loc = FirstIn(s) /\ n.size = node[f].size /\ n.open = o2
  BY <1>4, <1>8, <1>9, <1>11, <1>12, <1>13 DEF TypeInv, NodeRec
<1>15. NodeMoves(node, node', f, n)
  BY <1>14, NodesMove
<1>16. PICK q : q = r.q
  OBVIOUS
<1>17. q \in Reach(disk, Here, Clusters)
  BY <1>7, <1>16 DEF Seeks, Reach, Sound
<1>18. q \in Reach(disk, Here, Clusters \ On(s)) /\ IsChain(q.vol.fat, s) /\ Uses(s, On(s))
  BY <1>1, <1>2, <1>3, <1>17, HereStays
<1>19. KnownAt(n, q.vol.fat, s)
  BY <1>4, <1>14, <1>18 DEF KnownAt
<1>20. OpenAt(n, s)
  <2>1. p # 0 => p \in 1..Len(s) /\ o2.num + 1 = o2.pos
    BY <1>1, <1>4, <1>10, <1>12
  <2> QED BY <1>12, <1>14, <2>1 DEF OpenAt
<1>21. n.open.mode # "closed" /\ Did(q, {f})
  BY <1>8, <1>9, <1>12, <1>14, <1>16
<1>22. LeftOpen(ch, f, On(s), q, n, s)
  BY <1>2, <1>3, <1>15, <1>18, <1>19, <1>20, <1>21 DEF LeftOpen
<1> QED BY <1>1, <1>22, OpenCall

LeftClosed(ch, f, X, q, n, s, e) ==
  /\ f \in Files /\ f \notin damaged /\ Uses(ch[f], X)
  /\ Sound(disk, q) /\ Spares(Here, q, Clusters \ X, {f}) /\ Did(q, {f})
  /\ NodeMoves(node, node', f, n)
  /\ n.open.mode = "closed" /\ KnownAt(n, q.vol.fat, s) /\ ClosedAt(n, s, e) /\ e \in DentEntry
  /\ On(s) \subseteq X /\ \A c \in X : q.vol.fat[c] # FREE => c \in On(s)
  /\ q.cache.dirty = {} /\ Lands(disk, q.out, DentAt(f), e)
  /\ Lands(disk, q.out, InfoAt, q.vol.freecount)

LEMMA ClosedCall ==
  ASSUME TypeInv, Rest, Idle, NEW ch, NEW ent, Fits(ch, ent),
         NEW f, NEW X, NEW q, NEW n, NEW s, NEW e, LeftClosed(ch, f, X, q, n, s, e)
  PROVE  Inv'
<1>1. /\ Sound(disk, q) /\ q.cache.dirty = {} /\ Lands(disk, q.out, DentAt(f), e)
      /\ On(s) \subseteq X /\ X \subseteq Clusters
  BY DEF LeftClosed, Uses
<1>2. Left(disk, q.out, q.vol.fat, f, s, e)
  BY <1>1, FlushedLeft
<1>3. s \in Seq(Clusters)
  BY DEF LeftClosed, KnownAt, IsChain
<1>4. EndsAs(disk, q, f, n, s, e)
  BY <1>2 DEF LeftClosed, EndsAs
<1>5. CallOf(ch, f, X, q, n, s, e)
  BY <1>3, <1>4 DEF CallOf, LeftClosed
<1> QED BY <1>5, CallOn

LEMMA CloseStep ==
  ASSUME TypeInv, Rest, NEW ch, NEW ent, Fits(ch, ent), NEW f \in Files, close(f)
  PROVE  Inv'
<1>1. Idle /\ IsOpen(f) /\ NotEmptied(f)
  BY DEF close
<1>2. PICK s : s = ch[f]
  OBVIOUS
<1>3. f \notin damaged
  BY <1>1 DEF Rest
<1>4. /\ node[f] \in NodeRec /\ IsChain(vol.fat, s) /\ s \in Seq(Clusters)
      /\ node[f].loc = FirstIn(s) /\ node[f].size \in 0..Len(s) /\ OpenAt(node[f], s)
  BY <1>1, <1>2, <1>3, FileIs
<1>5. PICK o : o = node[f].open
  OBVIOUS
<1>6. PICK size : size = node[f].size
  OBVIOUS
<1>7. /\ o \in OpenRec /\ o.first = FirstIn(s) /\ node[f].known /\ ~node[f].moved
  BY <1>4, <1>5 DEF NodeRec, OpenAt
<1>8. /\ Len(s) \in Nat /\ FirstIn(s) \in Nat /\ (FirstIn(s) = 0 <=> s = <<>>)
      /\ (s = <<>> <=> Len(s) = 0)
  BY <1>4, SeqOfClusters
<1>9. size \in 0..Len(s) /\ (size = 0 => s = <<>>)
  BY <1>1, <1>4, <1>6, <1>8 DEF NotEmptied
<1>10. PICK r : r = Seek(Here, o, size)
  OBVIOUS
<1>11. PICK q : q = IF o.mode = "trunc" THEN truncate(r.q, r.f.last) ELSE Here
  OBVIOUS
<1>12. PICK p : p = closeWrite(q, f, o, size)
  OBVIOUS
<1>13. node' = [node EXCEPT ![f].open = Unopened] /\ Did(p, {f})
  BY <1>5, <1>6, <1>10, <1>11, <1>12 DEF close
\* what is written of the chain
<1>14. PICK t : /\ q \in Reach(disk, Here, Clusters \ On(s)) /\ IsChain(q.vol.fat, t)
                /\ FirstIn(t) = FirstIn(s) /\ On(t) \subseteq On(s) /\ size \in 0..Len(t)
                /\ \A c \in On(s) : q.vol.fat[c] # FREE => c \in On(t)
  <2>1. CASE o.mode # "trunc"
    <3>1. q = Here
      BY <1>11, <2>1
    <3>2. q \in Reach(disk, Here, Clusters)
      BY <1>1, <3>1, HereIs, ReachSelf
    <3>3. q \in Reach(disk, Here, Clusters \ On(s)) /\ IsChain(q.vol.fat, s)
      BY <1>1, <1>2, <1>3, <3>2, HereStays
    <3> QED BY <1>9, <3>3
  <2>2. CASE o.mode = "trunc"
    <3>1. size \in Nat /\ size <= node[f].size
      BY <1>6, <1>8, <1>9
    <3>2. Seeks(disk, Here, r, o, s, size)
      BY <1>1, <1>2, <1>5, <1>10, <3>1, SoughtIn
    <3>3. r.f.last = IF size = 0 THEN 0 ELSE s[size]
      <4>1. CASE size = 0
        <5>1. r.f = [o EXCEPT !.last = FirstIn(s), !.num = 0, !.fresh = TRUE]
          BY <3>2, <4>1 DEF Seeks
        <5>2. r.f.last = FirstIn(s)
          BY <1>7, <5>1 DEF OpenRec
        <5> QED BY <1>8, <1>9, <4>1, <5>2
      <4>2. CASE size # 0
        <5>1. r.f = [o EXCEPT !.last = s[size], !.num = size - 1, !.fresh = FALSE]
          BY <3>2, <4>2 DEF Seeks
        <5>2. r.f.last = s[size]
          BY <1>7, <5>1 DEF OpenRec
        <5> QED BY <4>2, <5>2
      <4> QED BY <4>1, <4>2
    <3>4. PICK a : a = r.q
      OBVIOUS
    <3>5. Sound(disk, a) /\ Leads(Here, a, Clusters) /\ a.vol = vol
      BY <1>1, <3>2, <3>4, HereIs DEF Seeks
    <3>6. IsChain(a.vol.fat, s)
      BY <1>4, <3>5
    <3>7. PICK x : x = r.f.last
      OBVIOUS
    <3>8. q = truncate(a, x)
      BY <1>11, <2>2, <3>4, <3>7
    <3>9. x = IF size = 0 THEN 0 ELSE s[size]
      BY <3>3, <3>7
    <3>10. \E t : Cuts(disk, a, truncate(a, x), s, size, t)
      BY <1>9, <3>5, <3>6, <3>9, CutAt
    <3>11. PICK t : Cuts(disk, a, q, s, size, t)
      BY <3>8, <3>10
    <3>12. q \in Reach(disk, Here, Clusters \ On(s))
      <4>1. Here \in Memory /\ a \in Memory
        BY <1>1, <3>5, HereIs DEF Sound
      <4>2. q \in Memory /\ Sound(disk, q) /\ Leads(a, q, Clusters \ On(s))
        BY <3>11 DEF Cuts, Reach
      <4>3. Clusters \ On(s) \subseteq Clusters
        OBVIOUS
      <4>4. Leads(Here, q, Clusters \ On(s))
        BY <3>5, <4>1, <4>2, <4>3, LeadsOn
      <4> QED BY <4>2, <4>4 DEF Reach
    <3>13. size \in 0..Len(t)
      BY <1>8, <1>9, <3>11 DEF Cuts
    <3> QED BY <3>11, <3>12, <3>13 DEF Cuts
  <2> QED BY <2>1, <2>2
<1>15. PICK e : e = [first |-> FirstIn(s), size |-> size]
  OBVIOUS
<1>16. e \in DentEntry /\ e.first = FirstIn(s) /\ e.size = size
  BY <1>8, <1>9, <1>15 DEF DentEntry
<1>17. p = flushFat(PutEntry(q, f, e))
  <2>1. ~(size = 0 /\ o.first # 0)
    BY <1>7, <1>8, <1>9
  <2>2. closeWrite(q, f, o, size) = flushFat(PutEntry(q, f, [first |-> o.first, size |-> size]))
    BY <2>1 DEF closeWrite
  <2> QED BY <1>7, <1>12, <1>15, <2>2
<1>18. PICK u : u = PutEntry(q, f, e)
  OBVIOUS
<1>19. Sound(disk, q) /\ Spares(Here, q, Clusters \ On(s), {f})
  BY <1>1, <1>14, ReachSpares
<1>20. Puts(disk, Here, q, u, Clusters \ On(s), {f}, f, e)
  <2>1. f \in {f}
    OBVIOUS
  <2> QED BY <1>16, <1>18, <1>19, <2>1, EntryPut
<1>21. Flushes(disk, Here, u, p, Clusters \ On(s), {f})
  <2>1. Sound(disk, u) /\ Spares(Here, u, Clusters \ On(s), {f})
    BY <1>20 DEF Puts
  <2>2. Clusters \ On(s) \subseteq Clusters
    OBVIOUS
  <2> QED BY <1>17, <1>18, <2>1, <2>2, CallFlushed
<1>22. p.vol = q.vol /\ Lands(disk, p.out, DentAt(f), e)
  BY <1>20, <1>21 DEF Puts, Flushes
<1>23. PICK n : n = [node[f] EXCEPT !.open = Unopened]
  OBVIOUS
<1>24. /\ n \in NodeRec /\ node' = [node EXCEPT ![f] = n]
       /\ n.known /\ ~n.moved /\ n.loc = FirstIn(s) /\ n.size = size /\ n.open = Unopened
  BY <1>4, <1>6, <1>7, <1>13, <1>23, UnknownIs DEF TypeInv, NodeRec
<1>25. NodeMoves(node, node', f, n)
  BY <1>24, NodesMove
<1>26. KnownAt(n, p.vol.fat, t)
  BY <1>14, <1>22, <1>24 DEF KnownAt
<1>27. ClosedAt(n, t, e)
  BY <1>14, <1>16, <1>24 DEF ClosedAt
<1>28. Uses(ch[f], On(s))
  BY <1>2, <1>3, FileIs DEF Uses
<1>29. n.open.mode = "closed"
  BY <1>24, UnknownIs
<1>30. LeftClosed(ch, f, On(s), p, n, t, e)
  BY <1>3, <1>13, <1>14, <1>16, <1>21, <1>22, <1>25, <1>26, <1>27, <1>28, <1>29
     DEF LeftClosed, Flushes
<1> QED BY <1>1, <1>30, ClosedCall

LEMMA RemoveStep ==
  ASSUME TypeInv, Rest, NEW ch, NEW ent, Fits(ch, ent), NEW f \in Files, rmfile(f)
  PROVE  Inv'
<1>1. Idle /\ Known(f) /\ ~IsOpen(f) /\ f \notin damaged
  BY DEF rmfile
<1>2. PICK s : s = ch[f]
  OBVIOUS
<1>3. /\ IsChain(vol.fat, s) /\ s \in Seq(Clusters) /\ node[f].loc = FirstIn(s)
      /\ Uses(ch[f], On(s)) /\ On(s) \subseteq Clusters
  BY <1>1, <1>2, FileIs DEF Uses
<1>4. PICK q : q = FreeChain(Here, FirstIn(s))
  OBVIOUS
<1>5. PICK a : a = PutEntry(q, f, Absent)
  OBVIOUS
<1>6. PICK b : b = flushFat(a)
  OBVIOUS
<1>7. PICK p : p = flushFat(b)
  OBVIOUS
<1>8. Did(p, {f}) /\ node' = [node EXCEPT ![f] = Unknown]
  BY <1>3, <1>4, <1>5, <1>6, <1>7 DEF rmfile
<1>9. Sound(disk, Here) /\ IsChain(Here.vol.fat, s)
  BY <1>1, <1>3, HereIs
<1>10. q \in Reach(disk, Here, Clusters \ On(s)) /\ \A c \in On(s) : q.vol.fat[c] = FREE
  BY <1>4, <1>9, ChainFreed
<1>11. Sound(disk, q) /\ Spares(Here, q, Clusters \ On(s), {f})
  BY <1>1, <1>10, ReachSpares
<1>12. Absent \in DentEntry
  BY DEF Absent, DentEntry
<1>13. PICK e : e = Absent
  OBVIOUS
<1>14. Puts(disk, Here, q, a, Clusters \ On(s), {f}, f, e)
  <2>1. f \in {f} /\ e \in DentEntry /\ a = PutEntry(q, f, e)
    BY <1>5, <1>12, <1>13
  <2> QED BY <1>11, <2>1, EntryPut
<1>15. Clusters \ On(s) \subseteq Clusters
  OBVIOUS
<1>16. Flushes(disk, Here, a, b, Clusters \ On(s), {f})
  <2>1. Sound(disk, a) /\ Spares(Here, a, Clusters \ On(s), {f})
    BY <1>14 DEF Puts
  <2> QED BY <1>6, <1>15, <2>1, CallFlushed
<1>17. Flushes(disk, Here, b, p, Clusters \ On(s), {f})
  <2>1. Sound(disk, b) /\ Spares(Here, b, Clusters \ On(s), {f})
    BY <1>16 DEF Flushes
  <2> QED BY <1>7, <1>15, <2>1, CallFlushed
<1>18. p.vol = q.vol /\ Lands(disk, p.out, DentAt(f), e)
  BY <1>14, <1>16, <1>17 DEF Puts, Flushes
<1>19. PICK n : n = Unknown
  OBVIOUS
<1>20. NodeMoves(node, node', f, n)
  BY <1>8, <1>19, UnknownIs, NodesMove
<1>21. n.open.mode = "closed" /\ ~n.known /\ n.loc = 0 /\ n.size = 0
  BY <1>19, UnknownIs
<1>22. KnownAt(n, p.vol.fat, <<>>)
  BY <1>21, EmptyChain DEF KnownAt
<1>23. ClosedAt(n, <<>>, e)
  BY <1>13, <1>21, EmptyChain DEF ClosedAt
<1>24. \A c \in On(s) : p.vol.fat[c] = FREE
  BY <1>10, <1>18
<1>25. LeftClosed(ch, f, On(s), p, n, <<>>, e)
  BY <1>1, <1>3, <1>8, <1>12, <1>13, <1>17, <1>18, <1>20, <1>21, <1>22, <1>23, <1>24, EmptyChain
     DEF LeftClosed, Flushes
<1> QED BY <1>1, <1>25, ClosedCall

\* What fat_loadDir makes of an entry.
LEMMA LoadIs ==
  ASSUME NEW e \in DentEntry
  PROVE  /\ Load(e) \in NodeRec /\ Load(e).open = Unopened /\ ~Load(e).moved
         /\ Load(e).known <=> e.first # NONE
         /\ e.first # NONE => Load(e).loc = e.first /\ Load(e).size = e.size
         /\ e.first = NONE => Load(e) = Unknown
<1>1. CASE e.first = NONE
  <2>1. Load(e) = Unknown
    BY <1>1 DEF Load
  <2> QED BY <1>1, <2>1, UnknownIs DEF Unknown
<1>2. CASE e.first # NONE
  <2>1. e.first \in Nat /\ e.size \in Nat
    BY <1>2 DEF DentEntry, Absent
  <2>2. Load(e) = [Unknown EXCEPT !.known = TRUE, !.loc = e.first, !.size = e.size]
    BY <1>2 DEF Load
  <2>3. PICK l, z : l = e.first /\ z = e.size
    OBVIOUS
  <2>4. Load(e) = [known |-> TRUE, loc |-> l, size |-> z, moved |-> FALSE, open |-> Unopened]
    BY <2>2, <2>3 DEF Unknown
  <2>5. Load(e) \in NodeRec
    BY <2>1, <2>3, <2>4, UnknownIs DEF NodeRec
  <2> QED BY <1>2, <2>3, <2>4, <2>5
<1> QED BY <1>1, <1>2

LEMMA MoveStep ==
  ASSUME TypeInv, Rest, NEW ch, NEW ent, Fits(ch, ent), NEW f \in Files, NEW g \in Files,
         f # g, mvfile(f, g)
  PROVE  Inv'
<1>1. /\ Idle /\ Known(f) /\ ~IsOpen(f) /\ ~Known(g) /\ f \notin damaged /\ g \notin damaged
  BY DEF mvfile, Settled
<1>2. PICK s : s = ch[f]
  OBVIOUS
<1>3. /\ IsChain(vol.fat, s) /\ s \in Seq(Clusters) /\ node[f].loc = FirstIn(s)
      /\ node[f].size \in 0..Len(s) /\ Uses(ch[f], On(s)) /\ On(s) \subseteq Clusters
  BY <1>1, <1>2, FileIs DEF Uses
<1>4. Len(s) \in Nat /\ FirstIn(s) \in Nat
  BY <1>3, SeqOfClusters
<1>5. ch[g] = <<>>
  <2>1. ~IsOpen(g)
    BY <1>1, FileIs DEF OpenAt, Known
  <2> QED BY <1>1, <2>1, FileIs DEF ClosedAt, Known
<1>6. PICK e : e = [first |-> node[f].loc, size |-> node[f].size]
  OBVIOUS
<1>7. e \in DentEntry /\ e.first = FirstIn(s) /\ e.size = node[f].size /\ e.first # NONE
  BY <1>3, <1>4, <1>6 DEF DentEntry, NONE
<1>8. PICK e0 : e0 = [first |-> 0, size |-> 0]
  OBVIOUS
<1>9. e0 \in DentEntry
  BY <1>8 DEF DentEntry
<1>10. PICK a : a = PutEntry(Here, g, e0)
  OBVIOUS
<1>11. PICK b : b = PutEntry(a, g, e)
  OBVIOUS
<1>12. PICK x : x = Absent
  OBVIOUS
<1>13. PICK c : c = PutEntry(b, f, x)
  OBVIOUS
<1>14. PICK q : q = flushFat(c)
  OBVIOUS
<1>15. PICK n : n = [Load(e) EXCEPT !.size = 0, !.moved = TRUE]
  OBVIOUS
<1>16. Did(q, {f, g}) /\ node' = [node EXCEPT ![f] = Unknown, ![g] = n]
  BY <1>6, <1>8, <1>10, <1>11, <1>12, <1>13, <1>14, <1>15 DEF mvfile
<1>17. /\ n \in NodeRec /\ n.known /\ n.moved /\ n.loc = FirstIn(s) /\ n.size = 0
       /\ n.open = Unopened
  <2>1. PICK m : m = Load(e)
    OBVIOUS
  <2>2. m \in NodeRec /\ m.open = Unopened /\ m.known /\ m.loc = FirstIn(s)
    BY <1>7, <2>1, LoadIs
  <2>3. n = [m EXCEPT !.size = 0, !.moved = TRUE]
    BY <1>15, <2>1
  <2> QED BY <2>2, <2>3 DEF NodeRec
<1>18. x \in DentEntry
  BY <1>12 DEF Absent, DentEntry
<1> DEFINE K == Clusters \ On(s)
           fs == {f, g}
<1>19. /\ f \in fs /\ g \in fs /\ K \subseteq Clusters /\ Did(q, fs)
       /\ fs \subseteq Files /\ fs \cap damaged = {} /\ \A h \in fs : h = f \/ h = g
  BY <1>1, <1>16
<1>20. K = Clusters \ On(s)
  OBVIOUS
<1> HIDE DEF K, fs
<1>21. Sound(disk, Here) /\ Spares(Here, Here, K, fs) /\ Here.vol = vol
  BY <1>1, HereIs
<1>22. Puts(disk, Here, Here, a, K, fs, g, e0)
  BY <1>9, <1>10, <1>19, <1>21, EntryPut
<1>23. Puts(disk, Here, a, b, K, fs, g, e)
  <2>1. Sound(disk, a) /\ Spares(Here, a, K, fs)
    BY <1>22 DEF Puts
  <2> QED BY <1>7, <1>11, <1>19, <2>1, EntryPut
<1>24. Puts(disk, Here, b, c, K, fs, f, x)
  <2>1. Sound(disk, b) /\ Spares(Here, b, K, fs)
    BY <1>23 DEF Puts
  <2> QED BY <1>13, <1>18, <1>19, <2>1, EntryPut
<1>25. Flushes(disk, Here, c, q, K, fs)
  <2>1. Sound(disk, c) /\ Spares(Here, c, K, fs)
    BY <1>24 DEF Puts
  <2> QED BY <1>14, <1>19, <2>1, CallFlushed
<1>26. /\ Sound(disk, q) /\ Spares(Here, q, K, fs) /\ q.vol = vol /\ q.cache.dirty = {}
       /\ Lands(disk, q.out, InfoAt, q.vol.freecount)
       /\ Lands(disk, q.out, DentAt(f), x) /\ Lands(disk, q.out, DentAt(g), e)
  <2>1. Lands(disk, c.out, DentAt(g), e)
    BY <1>23, <1>24 DEF Puts
  <2> QED BY <1>21, <1>22, <1>23, <1>24, <1>25, <2>1 DEF Puts, Flushes
\* the chain goes from f to g
<1>27. ch \in [Files -> Seq(Clusters)] /\ ent \in [Files -> DentEntry]
  BY DEF Fits
<1>28. PICK ch2 \in [Files -> Seq(Clusters)] :
         ch2[f] = <<>> /\ ch2[g] = s /\ \A h \in Files : h # f /\ h # g => ch2[h] = ch[h]
  <2>1. PICK t : t = [ch EXCEPT ![f] = <<>>, ![g] = s]
    OBVIOUS
  <2>2. t \in [Files -> Seq(Clusters)]
    <3>1. PICK z, S : z = <<>> /\ S = Seq(Clusters)
      OBVIOUS
    <3>2. z \in S /\ s \in S /\ ch \in [Files -> S]
      BY <1>3, <1>27, <3>1
    <3> QED BY <2>1, <3>1, <3>2
  <2>3. t[f] = <<>> /\ t[g] = s /\ \A h \in Files : h # f /\ h # g => t[h] = ch[h]
    BY <1>27, <2>1
  <2> QED BY <2>2, <2>3
<1>29. PICK ent2 \in [Files -> DentEntry] :
         ent2[f] = x /\ ent2[g] = e /\ \A h \in Files : h # f /\ h # g => ent2[h] = ent[h]
  <2>1. PICK t : t = [ent EXCEPT ![f] = x, ![g] = e]
    OBVIOUS
  <2>2. t \in [Files -> DentEntry]
    BY <1>7, <1>18, <1>27, <2>1
  <2>3. t[f] = x /\ t[g] = e /\ \A h \in Files : h # f /\ h # g => t[h] = ent[h]
    BY <1>27, <2>1
  <2> QED BY <2>2, <2>3
<1>30. ChainsMove(ch, ent, ch2, ent2, fs, On(s))
  <2>1. \A h \in Files \ fs : ch2[h] = ch[h] /\ ent2[h] = ent[h]
    BY <1>19, <1>28, <1>29
  <2>2. \A h \in fs : On(ch[h]) \subseteq On(s) /\ On(ch2[h]) \subseteq On(s)
    BY <1>2, <1>5, <1>19, <1>28, EmptyChain
  <2>3. \A h \in Files \ (fs \cup damaged) : On(ch[h]) \cap On(s) = {}
    <3> TAKE h \in Files \ (fs \cup damaged)
    <3>1. ~Meet(ch[f], ch[h])
      BY <1>1, <1>19 DEF Fits
    <3> QED BY <1>2, <3>1 DEF Meet
  <2>4. \A h, i \in fs : h # i => ~Meet(ch2[h], ch2[i])
    BY <1>19, <1>28, EmptyChain DEF Meet
  <2> QED BY <2>1, <2>2, <2>3, <2>4 DEF ChainsMove
<1>31. /\ node' \in [Files -> NodeRec] /\ node'[f] = Unknown /\ node'[g] = n
       /\ \A h \in Files \ fs : node'[h] = node[h]
  <2>1. PICK u : u = Unknown
    OBVIOUS
  <2>2. u \in NodeRec /\ node' = [node EXCEPT ![f] = u, ![g] = n]
    BY <1>16, <2>1, UnknownIs
  <2> QED BY <1>17, <1>19, <2>1, <2>2 DEF TypeInv
<1>32. EndsAs(disk, q, f, Unknown, <<>>, x)
  <2>1. KnownAt(Unknown, q.vol.fat, <<>>)
    BY UnknownIs, EmptyChain DEF KnownAt
  <2>2. ClosedAt(Unknown, <<>>, x)
    BY <1>12, UnknownIs DEF ClosedAt
  <2>3. On(<<>>) \subseteq Clusters
    BY EmptyChain
  <2>4. Left(disk, q.out, q.vol.fat, f, <<>>, x)
    BY <1>26, <2>3, FlushedLeft
  <2>5. Unknown.open.mode = "closed"
    BY UnknownIs
  <2> QED BY <2>1, <2>2, <2>4, <2>5 DEF EndsAs
<1>33. EndsAs(disk, q, g, n, s, e)
  <2>1. KnownAt(n, q.vol.fat, s)
    BY <1>3, <1>4, <1>17, <1>26 DEF KnownAt
  <2>2. ClosedAt(n, s, e)
    BY <1>3, <1>7, <1>17 DEF ClosedAt
  <2>3. Left(disk, q.out, q.vol.fat, g, s, e)
    BY <1>3, <1>26, FlushedLeft
  <2>4. n.open.mode = "closed"
    BY <1>17, UnknownIs
  <2> QED BY <2>1, <2>2, <2>3, <2>4 DEF EndsAs
<1>34. CallEnds(disk, q, node', ch2, ent2, fs, On(s))
  <2>1. \A h \in fs : EndsAs(disk, q, h, node'[h], ch2[h], ent2[h])
    BY <1>19, <1>28, <1>29, <1>31, <1>32, <1>33
  <2>2. \A k \in On(s) : q.vol.fat[k] # FREE => \E h \in fs : k \in On(ch2[h])
    BY <1>19, <1>28
  <2> QED BY <1>26, <1>31, <2>1, <2>2 DEF CallEnds
<1>35. Spares(Here, q, Clusters \ On(s), fs) /\ On(s) \subseteq Clusters
  BY <1>3, <1>20, <1>26
<1> QED BY <1>1, <1>19, <1>26, <1>30, <1>34, <1>35, CallDone

LEMMA DiskWriteStep ==
  ASSUME TypeInv, Rest, NEW ch, NEW ent, Fits(ch, ent), DiskWrite
  PROVE  Inv'
<1>1. /\ writes # <<>> /\ writes' = Tail(writes)
      /\ busy' = IF Tail(writes) = <<>> THEN {} ELSE busy
      /\ vol' = vol /\ cache' = cache /\ node' = node /\ damaged' = damaged /\ crashes' = crashes
  BY DEF DiskWrite
<1>2. disk' = MadeOn(disk, Head(writes))
  BY DEF DiskWrite, MadeOn
<1>3. Mem \in Memory /\ Sound(disk, Mem)
  BY DEF Rest, Sound
<1>4. disk \in Disk /\ writes \in Seq(Write)
  BY <1>3, Remembered DEF TypeInv, Mem
<1>5. ASSUME NEW l \in Places, NEW v
      PROVE  /\ Lands(disk, writes, l, v) => Lands(disk', writes', l, v)
             /\ Steady(disk, writes, l, v) => Steady(disk', writes', l, v)
  BY <1>1, <1>2, <1>4, WriteMade
<1>6. /\ \A c \in Clusters : FatAt(c) \in Places
      /\ \A f \in Files : DentAt(f) \in Places
      /\ InfoAt \in Places
  BY DEF Places
<1>7. TypeInv'
  <2>1. Head(writes) \in Write
    BY <1>1, <1>4
  <2>2. disk' \in Disk
    BY <1>2, <1>4, <1>6, <2>1, MadeIs
  <2> QED BY <1>1, <2>2 DEF TypeInv
<1>8. Rest'
  <2>1. Sound(disk, Mem)'
    <3>1. PICK q : q = Mem'
      OBVIOUS
    <3>2. q = [vol |-> vol, cache |-> cache, out |-> Tail(writes)]
      BY <1>1, <3>1 DEF Mem
    <3>3. Tail(writes) \in Seq(Write)
      BY <1>1, <1>4
    <3>4. q \in Memory /\ q.vol = vol /\ q.cache = cache /\ q.out = writes'
      BY <1>1, <1>3, <3>2, <3>3 DEF Memory, Mem
    <3>5. /\ \A s \in cache.dirty : cache.line[s % CacheSize] = s
          /\ \A c \in Clusters : FatSector(c) \notin cache.dirty
                                   => Lands(disk, writes, FatAt(c), vol.fat[c])
      BY <1>3 DEF Sound, Mem
    <3>6. \A c \in Clusters : FatSector(c) \notin cache.dirty
                                => Lands(disk', writes', FatAt(c), vol.fat[c])
      BY <1>5, <1>6, <3>5
    <3>7. Sound(disk', q)
      BY <3>4, <3>5, <3>6 DEF Sound
    <3> QED BY <3>1, <3>7
  <2>2. Idle' => busy' = {}
    BY <1>1 DEF Idle
  <2>3. OpenFiles' = {} => cache'.dirty = {} /\ Lands(disk', writes', InfoAt, vol'.freecount)
    <3>1. OpenFiles' = OpenFiles
      BY <1>1 DEF OpenFiles, IsOpen
    <3> QED BY <1>1, <1>5, <1>6, <3>1 DEF Rest
  <2>4. \A f \in damaged' : Known(f)' /\ ~IsOpen(f)'
    BY <1>1 DEF Rest, Known, IsOpen
  <2> QED BY <2>1, <2>2, <2>3, <2>4 DEF Rest
<1>9. ASSUME NEW f \in Files \ damaged PROVE FileOK(f, ch[f], ent[f])'
  <2>1. PICK s, e : s = ch[f] /\ e = ent[f]
    OBVIOUS
  <2>2. FileOK(f, s, e)
    BY <2>1 DEF Fits
  <2>3. On(s) \subseteq Clusters
    BY <2>2, ChainFits DEF FileOK, KnownAt
  <2>4. Left(disk, writes, vol.fat, f, s, e) => Left(disk', writes', vol'.fat, f, s, e)
    BY <1>1, <1>5, <1>6, <2>3 DEF Left
  <2>5. ASSUME ~IsOpen(f), f \notin busy'
        PROVE  Kept(disk', writes', vol'.fat, f, s, e)
    <3>1. CASE Tail(writes) = <<>>
      <4>1. Left(disk', <<>>, vol'.fat, f, s, e)
        BY <1>1, <2>2, <2>4, <2>5, <3>1 DEF FileOK
      <4>2. Kept(disk', <<>>, vol'.fat, f, s, e)
        BY <4>1, NoWrites DEF Left, Kept
      <4> QED BY <1>1, <3>1, <4>2
    <3>2. CASE Tail(writes) # <<>>
      <4>1. f \notin busy
        BY <1>1, <2>5, <3>2
      <4>2. Kept(disk, writes, vol.fat, f, s, e)
        BY <2>2, <2>5, <4>1 DEF FileOK
      <4> QED BY <1>1, <1>5, <1>6, <2>3, <4>2 DEF Kept
    <3> QED BY <3>1, <3>2
  <2>6. IsOpen(f)' <=> IsOpen(f)
    BY <1>1 DEF IsOpen
  <2>7. FileOK(f, s, e)'
    BY <1>1, <2>2, <2>4, <2>5, <2>6 DEF FileOK
  <2> QED BY <2>1, <2>7
<1>10. Fits(ch, ent)'
  BY <1>1, <1>9 DEF Fits
<1> QED BY <1>7, <1>8, <1>10 DEF Inv

LEMMA CrashStep ==
  ASSUME TypeInv, Rest, NEW ch, NEW ent, Fits(ch, ent), Crash
  PROVE  Inv'
<1> DEFINE hurt == damaged \cup busy \cup OpenFiles
<1>1. /\ damaged' = {f \in Files : f \in hurt /\ disk.dent[f] # Absent}
      /\ vol' = [fat |-> disk.fat, nextfree |-> disk.nextfree, freecount |-> disk.freecount]
      /\ cache' = [line |-> [l \in Lines |-> NONE], dirty |-> {}]
      /\ node' = [f \in Files |-> Load(disk.dent[f])]
      /\ writes' = <<>> /\ busy' = {} /\ disk' = disk /\ crashes' = crashes + 1
  BY DEF Crash
<1>2. /\ disk \in Disk /\ crashes \in Nat /\ disk.dent \in [Files -> DentEntry]
      /\ disk.fat \in Table /\ disk.nextfree \in Nat /\ disk.freecount \in Nat
  BY DEF TypeInv, Disk
<1>3. vol' \in Vol /\ vol'.fat = disk.fat /\ vol'.freecount = disk.freecount
  BY <1>1, <1>2 DEF Vol
<1>4. cache' \in Cache /\ cache'.dirty = {}
  <2>1. [l \in Lines |-> NONE] \in [Lines -> Nat \cup {NONE}]
    OBVIOUS
  <2> QED BY <1>1, <2>1 DEF Cache
<1>5. \A f \in Files : disk.dent[f] \in DentEntry /\ node'[f] = Load(disk.dent[f])
  BY <1>1, <1>2
<1>6. \A f \in Files : ~IsOpen(f)' /\ node'[f] \in NodeRec
  BY <1>5, LoadIs, UnknownIs DEF IsOpen
<1>7. TypeInv'
  <2>1. node' \in [Files -> NodeRec]
    BY <1>1, <1>5, <1>6
  <2> QED BY <1>1, <1>2, <2>1 DEF TypeInv
<1>8. Rest'
  <2>1. Sound(disk, Mem)'
    <3>1. PICK q : q = Mem'
      OBVIOUS
    <3>2. q.vol = vol' /\ q.cache = cache' /\ q.out = <<>> /\ q \in Memory
      BY <1>1, <1>3, <1>4, <3>1 DEF Mem, Memory
    <3>3. \A c \in Clusters : Lands(disk, <<>>, FatAt(c), vol'.fat[c])
      BY <1>3, NoWrites DEF Now, FatAt
    <3>4. Sound(disk, q)
      BY <1>4, <3>2, <3>3 DEF Sound
    <3> QED BY <1>1, <3>1, <3>4
  <2>2. Lands(disk', writes', InfoAt, vol'.freecount)
    BY <1>1, <1>3, NoWrites DEF Now, InfoAt
  <2>3. \A f \in damaged' : Known(f)' /\ ~IsOpen(f)'
    <3> TAKE f \in damaged'
    <3>1. f \in Files /\ disk.dent[f] # Absent
      BY <1>1
    <3>2. disk.dent[f].first # NONE
      BY <1>5, <3>1 DEF DentEntry, NONE
    <3>3. Known(f)'
      BY <1>5, <3>1, <3>2, LoadIs DEF Known
    <3> QED BY <1>6, <3>1, <3>3
  <2> QED BY <1>1, <1>4, <2>1, <2>2, <2>3 DEF Rest
<1>9. PICK ch2 \in [Files -> Seq(Clusters)] :
        \A f \in Files : ch2[f] = IF f \in hurt THEN <<>> ELSE ch[f]
  <2>1. PICK t : t = [f \in Files |-> IF f \in hurt THEN <<>> ELSE ch[f]]
    OBVIOUS
  <2>2. t \in [Files -> Seq(Clusters)]
    <3>1. PICK z, S : z = <<>> /\ S = Seq(Clusters)
      OBVIOUS
    <3>2. z \in S /\ ch \in [Files -> S]
      BY <3>1 DEF Fits
    <3> QED BY <2>1, <3>1, <3>2
  <2> QED BY <2>1, <2>2
<1>10. PICK ent2 : ent2 = disk.dent
  OBVIOUS
<1> HIDE DEF hurt
<1>11. ASSUME NEW f \in Files, f \notin hurt
       PROVE  FileOK(f, ch2[f], ent2[f])' /\ f \notin damaged
  <2>1. PICK s, e : s = ch[f] /\ e = ent[f]
    OBVIOUS
  <2>2. f \notin damaged /\ f \notin busy /\ ~IsOpen(f)
    BY <1>11 DEF hurt, OpenFiles
  <2>3. /\ s \in Seq(Clusters) /\ e \in DentEntry /\ IsChain(vol.fat, s)
        /\ node[f].loc = FirstIn(s) /\ node[f].size \in 0..Len(s) /\ ClosedAt(node[f], s, e)
    BY <2>1, <2>2, FileIs
  <2>4. Kept(disk, writes, vol.fat, f, s, e)
    BY <2>1, <2>2 DEF Fits, FileOK
  <2>5. disk.dent[f] = e
    BY <2>4 DEF Kept, Steady, Now, DentAt
  <2>6. \A c \in On(s) : disk.fat[c] = vol.fat[c]
    BY <2>4 DEF Kept, Steady, Now, FatAt
  <2>7. IsChain(disk.fat, s)
    BY <2>3, <2>6, ChainSame
  <2>8. PICK n : n = Load(e)
    OBVIOUS
  <2>9. /\ n.open = Unopened /\ (n.known <=> e.first # NONE)
        /\ e.first # NONE => n.loc = e.first /\ n.size = e.size
        /\ e.first = NONE => n = Unknown
    BY <2>3, <2>8, LoadIs
  <2>10. KnownAt(n, disk.fat, s) /\ ClosedAt(n, s, e)
    <3>1. CASE node[f].known
      <4>1. e.first = FirstIn(s) /\ e.size \in 0..Len(s)
        BY <2>3, <3>1 DEF ClosedAt
      <4>2. e.first # NONE
        BY <2>3, <4>1, SeqOfClusters DEF NONE
      <4> QED BY <2>7, <2>9, <4>1, <4>2 DEF KnownAt, ClosedAt
    <3>2. CASE ~node[f].known
      <4>1. e = Absent /\ s = <<>>
        BY <2>3, <3>2 DEF ClosedAt
      <4>2. n = Unknown
        BY <2>9, <4>1 DEF Absent
      <4> QED BY <4>1, <4>2, UnknownIs, EmptyChain DEF KnownAt, ClosedAt
    <3> QED BY <3>1, <3>2
  <2>11. Kept(disk, <<>>, disk.fat, f, s, e) /\ Left(disk, <<>>, disk.fat, f, s, e)
    BY <2>5, NoWrites DEF Kept, Left, Now, DentAt, FatAt
  <2>12. node'[f] = n /\ ch2[f] = s /\ ent2[f] = e
    BY <1>5, <1>9, <1>10, <1>11, <2>1, <2>5, <2>8
  <2>13. FileOK(f, s, e)'
    BY <1>1, <1>3, <1>6, <2>10, <2>11, <2>12 DEF FileOK
  <2> QED BY <2>2, <2>12, <2>13
<1>12. ASSUME NEW f \in Files, f \in hurt, f \notin damaged'
       PROVE  FileOK(f, ch2[f], ent2[f])' /\ ch2[f] = <<>>
  <2>1. disk.dent[f] = Absent
    BY <1>1, <1>12
  <2>2. Absent \in DentEntry /\ Absent.first = NONE
    BY DEF DentEntry, Absent
  <2>3. PICK n : n = Unknown
    OBVIOUS
  <2>4. node'[f] = n
    BY <1>5, <2>1, <2>2, <2>3, LoadIs
  <2>5. ch2[f] = <<>> /\ ent2[f] = Absent
    BY <1>9, <1>10, <1>12, <2>1
  <2>6. KnownAt(n, disk.fat, <<>>) /\ ClosedAt(n, <<>>, Absent)
    BY <2>3, UnknownIs, EmptyChain DEF KnownAt, ClosedAt
  <2>7. Kept(disk, <<>>, disk.fat, f, <<>>, Absent) /\ Left(disk, <<>>, disk.fat, f, <<>>, Absent)
    <3>1. Now(disk, DentAt(f)) = Absent
      BY <2>1 DEF Now, DentAt
    <3>2. Lands(disk, <<>>, DentAt(f), Absent) /\ Steady(disk, <<>>, DentAt(f), Absent)
      BY <3>1, NoWrites
    <3> QED BY <3>2, EmptyChain DEF Kept, Left
  <2>8. FileOK(f, <<>>, Absent)'
    BY <1>1, <1>3, <1>6, <2>4, <2>6, <2>7 DEF FileOK
  <2> QED BY <2>5, <2>8
<1>13. \A f \in Files \ damaged' : FileOK(f, ch2[f], ent2[f])'
  BY <1>11, <1>12
<1>14. ASSUME NEW f \in Files \ damaged', NEW g \in Files \ damaged', f # g
       PROVE  ~Meet(ch2[f], ch2[g])
  <2>1. CASE f \in hurt \/ g \in hurt
    BY <1>12, <2>1, EmptyChain DEF Meet
  <2>2. CASE f \notin hurt /\ g \notin hurt
    <3>1. f \notin damaged /\ g \notin damaged
      BY <1>11, <2>2
    <3>2. ch2[f] = ch[f] /\ ch2[g] = ch[g]
      BY <1>9, <2>2
    <3> QED BY <1>14, <3>1, <3>2 DEF Fits
  <2> QED BY <2>1, <2>2
<1>15. crashes' # 0
  BY <1>1, <1>2
<1>16. Fits(ch2, ent2)'
  BY <1>2, <1>9, <1>10, <1>13, <1>14, <1>15 DEF Fits
<1> QED BY <1>7, <1>8, <1>16 DEF Inv

LEMMA InitInv == Init => Inv
<1> SUFFICES ASSUME Init PROVE Inv
  OBVIOUS
<1>1. /\ vol = [fat |-> [c \in Clusters |-> FREE], nextfree |-> 2, freecount |-> NClusters]
      /\ cache = [line |-> [l \in Lines |-> NONE], dirty |-> {}]
      /\ node = [f \in Files |-> Unknown]
      /\ disk = [fat |-> vol.fat, nextfree |-> 2, freecount |-> NClusters,
                 dent |-> [f \in Files |-> Absent]]
      /\ writes = <<>> /\ busy = {} /\ damaged = {} /\ crashes = 0
  BY DEF Init
<1>2. /\ vol.fat \in Table /\ vol \in Vol /\ vol.freecount = NClusters
      /\ \A c \in Clusters : vol.fat[c] = FREE
  <2>1. FREE \in Entry
    BY EntryIs
  <2>2. PICK t : t = [c \in Clusters |-> FREE]
    OBVIOUS
  <2>3. t \in Table /\ \A c \in Clusters : t[c] = FREE
    BY <2>1, <2>2 DEF Table
  <2>4. vol = [fat |-> t, nextfree |-> 2, freecount |-> NClusters]
    BY <1>1, <2>2
  <2>5. NClusters \in Nat /\ 2 \in Nat
    BY Consts
  <2> QED BY <2>3, <2>4, <2>5 DEF Vol
<1>3. cache \in Cache /\ cache.dirty = {}
  <2>1. [l \in Lines |-> NONE] \in [Lines -> Nat \cup {NONE}]
    OBVIOUS
  <2> QED BY <1>1, <2>1 DEF Cache
<1>4. /\ disk \in Disk /\ disk.fat = vol.fat /\ disk.freecount = NClusters
      /\ \A f \in Files : disk.dent[f] = Absent
  <2>1. PICK t, u : t = vol.fat /\ u = [f \in Files |-> Absent]
    OBVIOUS
  <2>2. u \in [Files -> DentEntry] /\ \A f \in Files : u[f] = Absent
    BY <2>1 DEF DentEntry
  <2>3. disk = [fat |-> t, nextfree |-> 2, freecount |-> NClusters, dent |-> u]
    BY <1>1, <2>1
  <2>4. NClusters \in Nat /\ 2 \in Nat
    BY Consts
  <2> QED BY <1>2, <2>1, <2>2, <2>3, <2>4 DEF Disk
<1>5. TypeInv
  BY <1>1, <1>4, UnknownIs DEF TypeInv
<1>6. Rest
  <2>1. Sound(disk, Mem)
    <3>1. PICK q : q = Mem
      OBVIOUS
    <3>2. q.vol = vol /\ q.cache = cache /\ q.out = <<>> /\ q \in Memory
      BY <1>1, <1>2, <1>3, <3>1 DEF Mem, Memory
    <3>3. \A c \in Clusters : Lands(disk, <<>>, FatAt(c), vol.fat[c])
      BY <1>4, NoWrites DEF Now, FatAt
    <3>4. Sound(disk, q)
      BY <1>3, <3>2, <3>3 DEF Sound
    <3> QED BY <3>1, <3>4
  <2>2. Lands(disk, writes, InfoAt, vol.freecount)
    BY <1>1, <1>2, <1>4, NoWrites DEF Now, InfoAt
  <2> QED BY <1>1, <1>3, <2>1, <2>2 DEF Rest
<1>7. PICK ch : ch = [f \in Files |-> <<>>]
  OBVIOUS
<1>8. PICK ent : ent = [f \in Files |-> Absent]
  OBVIOUS
<1>9. ch \in [Files -> Seq(Clusters)] /\ \A f \in Files : ch[f] = <<>>
  <2>1. PICK z, S : z = <<>> /\ S = Seq(Clusters)
    OBVIOUS
  <2>2. z \in S
    BY <2>1
  <2> QED BY <1>7, <2>1, <2>2
<1>10. ent \in [Files -> DentEntry] /\ \A f \in Files : ent[f] = Absent
  BY <1>8 DEF DentEntry
<1>11. ASSUME NEW f \in Files PROVE FileOK(f, ch[f], ent[f])
  <2>1. PICK n : n = Unknown
    OBVIOUS
  <2>2. node[f] = n
    BY <1>1, <2>1
  <2>3. KnownAt(n, vol.fat, <<>>) /\ ClosedAt(n, <<>>, Absent)
    BY <2>1, UnknownIs, EmptyChain DEF KnownAt, ClosedAt
  <2>4. Now(disk, DentAt(f)) = Absent
    BY <1>4 DEF Now, DentAt
  <2>5. Lands(disk, <<>>, DentAt(f), Absent) /\ Steady(disk, <<>>, DentAt(f), Absent)
    BY <2>4, NoWrites
  <2>6. Left(disk, <<>>, vol.fat, f, <<>>, Absent) /\ Kept(disk, <<>>, vol.fat, f, <<>>, Absent)
    BY <2>5, EmptyChain DEF Left, Kept
  <2>7. ~IsOpen(f)
    BY <2>1, <2>2, UnknownIs DEF IsOpen
  <2>8. FileOK(f, <<>>, Absent)
    BY <1>1, <2>2, <2>3, <2>6, <2>7 DEF FileOK
  <2> QED BY <1>9, <1>10, <2>8
<1>12. Counted(vol)
  <2>1. FreeClusters(vol.fat) = 2..(NClusters + 1)
    BY <1>2 DEF FreeClusters, Clusters
  <2>2. Cardinality(2..(NClusters + 1)) = NClusters
    <3>1. NClusters \in Nat \ {0} /\ NClusters + 1 \in Int /\ 2 \in Int
      BY Consts
    <3>2. Cardinality(2..(NClusters + 1)) =
            IF 2 > NClusters + 1 THEN 0 ELSE (NClusters + 1) - 2 + 1
      BY <3>1, FS_Interval
    <3> QED BY <3>1, <3>2
  <2> QED BY <1>2, <2>1, <2>2 DEF Counted
<1>13. \A f, g \in Files : f # g => ~Meet(ch[f], ch[g])
  BY <1>9, EmptyChain DEF Meet
<1>14. Fits(ch, ent)
  BY <1>1, <1>2, <1>9, <1>10, <1>11, <1>12, <1>13 DEF Fits
<1> QED BY <1>5, <1>6, <1>14 DEF Inv

LEMMA Invariance == Spec => []Inv
<1>1. Inv /\ [Next]_vars => Inv'
  <2> SUFFICES ASSUME Inv, [Next]_vars PROVE Inv'
    OBVIOUS
  <2>1. TypeInv /\ Rest
    BY DEF Inv
  <2>2. PICK ch, ent : Fits(ch, ent)
    BY DEF Inv
  <2>3. ASSUME NEW f \in Files, create(f) PROVE Inv'
    BY <2>1, <2>2, <2>3, CreateStep
  <2>4. ASSUME NEW f \in Files, write(f) PROVE Inv'
    BY <2>1, <2>2, <2>4, WriteStep
  <2>5. ASSUME NEW f \in Files, close(f) PROVE Inv'
    BY <2>1, <2>2, <2>5, CloseStep
  <2>6. ASSUME NEW f \in Files, rmfile(f) PROVE Inv'
    BY <2>1, <2>2, <2>6, RemoveStep
  <2>7. ASSUME NEW f \in Files, NEW mode \in {"rw", "trunc"}, open(f, mode) PROVE Inv'
    BY <2>1, <2>2, <2>7, OpenStep
  <2>8. ASSUME NEW f \in Files, NEW p \in 0..MaxSize, lseek(f, p) PROVE Inv'
    <3>1. p \in Nat
      BY Consts
    <3> QED BY <2>1, <2>2, <2>8, <3>1, LseekStep
  <2>9. ASSUME NEW f \in Files, NEW g \in Files \ {f}, mvfile(f, g) PROVE Inv'
    <3>1. g \in Files /\ f # g
      OBVIOUS
    <3> QED BY <2>1, <2>2, <2>9, <3>1, MoveStep
  <2>10. ASSUME DiskWrite PROVE Inv'
    BY <2>1, <2>2, <2>10, DiskWriteStep
  <2>11. ASSUME Crash PROVE Inv'
    BY <2>1, <2>2, <2>11, CrashStep
  <2>12. ASSUME UNCHANGED vars PROVE Inv'
    <3>1. /\ vol' = vol /\ cache' = cache /\ node' = node /\ disk' = disk /\ writes' = writes
          /\ busy' = busy /\ damaged' = damaged /\ crashes' = crashes
      BY <2>12 DEF vars
    <3>2. TypeInv'
      BY <2>1, <3>1 DEF TypeInv
    <3>3. Rest'
      BY <2>1, <3>1 DEF Rest, Mem, Idle, OpenFiles, IsOpen, Known
    <3>4. Fits(ch, ent)'
      BY <2>2, <3>1 DEF Fits, FileOK, IsOpen
    <3> QED BY <3>2, <3>3, <3>4 DEF Inv
  <2> QED BY <2>3, <2>4, <2>5, <2>6, <2>7, <2>8, <2>9, <2>10, <2>11, <2>12 DEF Next
<1> QED BY <1>1, InitInv, PTL DEF Spec

-----------------------------------------------------------------------------
(* What the runs check. *)

LEMMA HealthyIs ==
  ASSUME TypeInv, Rest, NEW ch, NEW ent, Fits(ch, ent), NEW f \in Files, f \notin damaged
  PROVE  Chain(f) = On(ch[f]) /\ FirstOf(f) = FirstIn(ch[f])
<1>1. PICK s : s = ch[f]
  OBVIOUS
<1>2. /\ IsChain(vol.fat, s) /\ node[f].loc = FirstIn(s)
      /\ IsOpen(f) => OpenAt(node[f], s)
  BY <1>1, FileIs
<1>3. FirstOf(f) = FirstIn(s)
  BY <1>2 DEF FirstOf, OpenAt
<1>4. ChainOf(vol.fat, FirstIn(s)) = On(s)
  BY <1>2, ChainOfIs
<1> QED BY <1>1, <1>3, <1>4 DEF Chain

\* A cluster belongs to one file, no file leads into a free one, and each is
\* as long as its size says, on a volume of any size with a cache of any size
\* (fat_nextWriteCluster, fat_truncate, fat_fileRemove, fat_closeWrite).
THEOREM FilesExclusive == Spec => []Exclusive
<1>1. Inv => Exclusive
  <2> SUFFICES ASSUME Inv, NEW f \in Healthy
               PROVE  /\ Chain(f) \cap FreeClusters(vol.fat) = {}
                      /\ Cardinality(Chain(f)) >= node[f].size
                      /\ \A g \in Healthy \ {f} : Chain(f) \cap Chain(g) = {}
    BY DEF Exclusive
  <2>1. TypeInv /\ Rest
    BY DEF Inv
  <2>2. PICK ch, ent : Fits(ch, ent)
    BY DEF Inv
  <2>3. f \in Files /\ f \notin damaged /\ \A g \in Healthy : g \in Files /\ g \notin damaged
    BY DEF Healthy
  <2>4. Chain(f) = On(ch[f])
    BY <2>1, <2>2, <2>3, HealthyIs
  <2>5. PICK s : s = ch[f]
    OBVIOUS
  <2>6. IsChain(vol.fat, s) /\ s \in Seq(Clusters) /\ node[f].size \in 0..Len(s)
    BY <2>1, <2>2, <2>3, <2>5, FileIs
  <2>7. \A c \in On(s) : vol.fat[c] # FREE
    BY <2>6, NotFree
  <2>8. Chain(f) \cap FreeClusters(vol.fat) = {}
    BY <2>4, <2>5, <2>7 DEF FreeClusters
  <2>9. Cardinality(Chain(f)) >= node[f].size
    <3>1. Cardinality(On(s)) = Len(s) /\ Len(s) \in Nat
      BY <2>6, ChainFits, SeqOfClusters
    <3> QED BY <2>4, <2>5, <2>6, <3>1
  <2>10. ASSUME NEW g \in Healthy \ {f} PROVE Chain(f) \cap Chain(g) = {}
    <3>1. Chain(g) = On(ch[g])
      BY <2>1, <2>2, <2>3, HealthyIs
    <3>2. ~Meet(ch[f], ch[g])
      BY <2>2, <2>3 DEF Fits
    <3> QED BY <2>4, <3>1, <3>2 DEF Meet
  <2> QED BY <2>8, <2>9, <2>10
<1> QED BY <1>1, Invariance, PTL

\* As long as the power stays on every cluster that is not free is in a file,
\* and freecount is the number of the free ones (fat_updateFatEntry).
THEOREM ClustersAccounted == Spec => []Accounted
<1>1. Inv => Accounted
  <2> SUFFICES ASSUME Inv, crashes = 0
               PROVE  /\ vol.freecount = Cardinality(FreeClusters(vol.fat))
                      /\ Clusters \ FreeClusters(vol.fat) = UNION {Chain(f) : f \in Healthy}
    BY DEF Accounted
  <2>1. TypeInv /\ Rest
    BY DEF Inv
  <2>2. PICK ch, ent : Fits(ch, ent)
    BY DEF Inv
  <2>3. /\ damaged = {} /\ Counted(vol)
        /\ \A c \in Clusters : vol.fat[c] # FREE => \E f \in Files : c \in On(ch[f])
    BY <2>2 DEF Fits
  <2>4. ASSUME NEW c \in Clusters, vol.fat[c] # FREE
        PROVE  \E f \in Healthy : c \in Chain(f)
    <3>1. PICK f \in Files : c \in On(ch[f])
      BY <2>3, <2>4
    <3>2. Chain(f) = On(ch[f])
      BY <2>1, <2>2, <2>3, HealthyIs
    <3>3. Known(f)
      <4> SUFFICES ASSUME ~Known(f) PROVE FALSE
        OBVIOUS
      <4>1. ~IsOpen(f)
        BY <2>1, <2>2, <2>3, FileIs DEF OpenAt, Known
      <4>2. ch[f] = <<>>
        BY <2>1, <2>2, <2>3, <4>1, FileIs DEF ClosedAt, Known
      <4> QED BY <3>1, <4>2, EmptyChain
    <3> QED BY <2>3, <3>1, <3>2, <3>3 DEF Healthy
  <2>5. ASSUME NEW f \in Healthy, NEW c \in Chain(f)
        PROVE  c \in Clusters /\ vol.fat[c] # FREE
    <3>1. f \in Files /\ f \notin damaged
      BY DEF Healthy
    <3>2. Chain(f) = On(ch[f]) /\ IsChain(vol.fat, ch[f]) /\ On(ch[f]) \subseteq Clusters
      BY <2>1, <2>2, <3>1, HealthyIs, FileIs
    <3> QED BY <3>2, NotFree
  <2>6. Clusters \ FreeClusters(vol.fat) = UNION {Chain(f) : f \in Healthy}
    BY <2>4, <2>5 DEF FreeClusters
  <2> QED BY <2>3, <2>6 DEF Counted
<1> QED BY <1>1, Invariance, PTL

\* If the power goes at any moment, between any two writes, a closed file is on
\* the disk as it was when it was closed and a removed one stays removed; when
\* all is closed the disk has all there is in memory (fat_closeWrite,
\* fat_flushFat, fat_cacheFatSector).
THEOREM ClosedSurvives == Spec => []Survives
<1>1. Inv => Survives
  <2> SUFFICES ASSUME Inv PROVE Survives
    OBVIOUS
  <2>1. TypeInv /\ Rest
    BY DEF Inv
  <2>2. PICK ch, ent : Fits(ch, ent)
    BY DEF Inv
  <2>3. ASSUME NEW f \in Files \ (busy \cup damaged)
        PROVE  /\ ~Known(f) => disk.dent[f] = Absent
               /\ Known(f) /\ ~IsOpen(f) =>
                    /\ disk.dent[f].first = node[f].loc
                    /\ ~node[f].moved => disk.dent[f].size = node[f].size
                    /\ ChainAt(disk.fat, node[f].loc) = ChainAt(vol.fat, node[f].loc)
                    /\ Cardinality(ChainOf(disk.fat, node[f].loc)) >= disk.dent[f].size
    <3>1. PICK s, e : s = ch[f] /\ e = ent[f]
      OBVIOUS
    <3>2. FileOK(f, s, e)
      BY <2>2, <3>1 DEF Fits
    <3>3. ASSUME ~IsOpen(f)
          PROVE  /\ ClosedAt(node[f], s, e) /\ disk.dent[f] = e
                 /\ \A c \in On(s) : disk.fat[c] = vol.fat[c]
      <4>1. ClosedAt(node[f], s, e) /\ Kept(disk, writes, vol.fat, f, s, e)
        BY <3>2, <3>3 DEF FileOK
      <4>2. disk.dent[f] = e
        BY <4>1 DEF Kept, Steady, Now, DentAt
      <4>3. \A c \in On(s) : disk.fat[c] = vol.fat[c]
        BY <4>1 DEF Kept, Steady, Now, FatAt
      <4> QED BY <4>1, <4>2, <4>3
    <3>4. ASSUME ~Known(f) PROVE disk.dent[f] = Absent
      <4>1. ~IsOpen(f)
        BY <3>2, <3>4 DEF FileOK, OpenAt, Known
      <4> QED BY <3>3, <3>4, <4>1 DEF ClosedAt, Known
    <3>5. ASSUME Known(f), ~IsOpen(f)
          PROVE  /\ disk.dent[f].first = node[f].loc
                 /\ ~node[f].moved => disk.dent[f].size = node[f].size
                 /\ ChainAt(disk.fat, node[f].loc) = ChainAt(vol.fat, node[f].loc)
                 /\ Cardinality(ChainOf(disk.fat, node[f].loc)) >= disk.dent[f].size
      <4>1. e.first = node[f].loc /\ e.size \in 0..Len(s) /\ (~node[f].moved => e.size = node[f].size)
        BY <3>3, <3>5 DEF ClosedAt, Known
      <4>2. IsChain(vol.fat, s) /\ node[f].loc = FirstIn(s)
        BY <3>2 DEF FileOK, KnownAt
      <4>3. IsChain(disk.fat, s)
        BY <3>3, <3>5, <4>2, ChainSame
      <4>4. ChainAt(disk.fat, FirstIn(s)) = ChainAt(vol.fat, FirstIn(s))
        BY <4>2, <4>3, ChainAtIs
      <4>5. ChainOf(disk.fat, FirstIn(s)) = On(s)
        BY <4>3, ChainOfIs
      <4>6. Cardinality(On(s)) = Len(s) /\ Len(s) \in Nat
        BY <4>2, ChainFits, SeqOfClusters DEF IsChain
      <4> QED BY <3>3, <3>5, <4>1, <4>2, <4>4, <4>5, <4>6
    <3> QED BY <3>4, <3>5
  <2>4. ASSUME Idle, OpenFiles = {}
        PROVE  disk.fat = vol.fat /\ disk.freecount = vol.freecount
    <3>1. Sound(disk, Here) /\ Here.vol = vol /\ Here.cache = cache /\ Here.out = <<>>
          /\ vol.fat \in Table
      BY <2>1, <2>4, HereIs
    <3>2. cache.dirty = {} /\ Lands(disk, <<>>, InfoAt, vol.freecount)
      BY <2>1, <2>4 DEF Rest, Idle
    <3>3. \A c \in Clusters : Lands(disk, <<>>, FatAt(c), vol.fat[c])
      BY <3>1, <3>2 DEF Sound
    <3>4. \A c \in Clusters : disk.fat[c] = vol.fat[c]
      BY <3>3, NoWrites DEF Now, FatAt
    <3>5. disk.fat \in Table
      BY <2>1 DEF TypeInv, Disk
    <3>6. disk.fat = vol.fat
      BY <3>1, <3>4, <3>5 DEF Table
    <3>7. disk.freecount = vol.freecount
      BY <3>2, NoWrites DEF Now, InfoAt
    <3> QED BY <3>6, <3>7
  <2> QED BY <2>3, <2>4 DEF Survives
<1> QED BY <1>1, Invariance, PTL
=============================================================================
