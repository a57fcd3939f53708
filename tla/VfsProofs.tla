----------------------------- MODULE VfsProofs -----------------------------
(***************************************************************************)
(* The tree of directories, for any names and any number of directories on *)
(* a volume, of file caches and of things held open: ref_cnt is exact, what*)
(* a loaded directory shows is what is on the volume, and nothing is left  *)
(* behind, so that unmounting a volume always ends.                        *)
(*                                                                         *)
(* The invariant is about two functions, N = fs.node and D = fs.dirs: the  *)
(* nodes are a tree (Linked), each on the volume its path says (Placed);   *)
(* a loaded directory has what its volume has (Mirrored), one directory of *)
(* the volume belongs to one node (OneDir), and a removed directory keeps  *)
(* a node without children (Ghosts).  Every call is composed of a few      *)
(* steps: load a directory, open or close a node, add one, remove one.     *)
(***************************************************************************)
EXTENDS Vfs, FiniteSetTheorems, SequenceTheorems, TLAPS

AllNames == Names \cup {CF_0}
Keys     == {n \in Seq(AllNames) : Len(n) <= 3}
Card     == <<CF_0>>
Volume(n) == IF n # <<>> /\ n[1] = CF_0 THEN "CF" ELSE "HD"

Kinds    == {"file", "dir"}
Entries  == [name : Names, kind : Kinds, at : Dirs]
NodeType == [kind : Kinds, name : AllNames, parent : Keys \cup {NULL}, kids : SUBSET Keys,
             ref : Int, opened : BOOLEAN, loaded : BOOLEAN, loc : Dirs, disk : Disks]

\* The nodes.
Nodelike(N) ==
  /\ N \in [DOMAIN N -> NodeType] /\ DOMAIN N \subseteq Keys /\ IsFiniteSet(DOMAIN N)

\* A tree: each node but the first is a child of its parent, that is loaded.
Linked(N) ==
  /\ <<>> \in DOMAIN N /\ N[<<>>].parent = NULL
  /\ \A n \in DOMAIN N : n # <<>> =>
       /\ N[n].parent \in DOMAIN N /\ n = Append(N[n].parent, N[n].name)
       /\ N[N[n].parent].kind = "dir" /\ N[N[n].parent].loaded
       /\ n \in N[N[n].parent].kids
  /\ \A n \in DOMAIN N : \A k \in N[n].kids :
       k \in DOMAIN N /\ k # <<>> /\ N[k].parent = n

\* What the path of a node says of it.
Placed(N) ==
  \A n \in DOMAIN N :
    /\ N[n].disk = Volume(n) /\ (Volume(n) = "CF" => Card \in DOMAIN N)
    /\ N[n].kind = "file" => N[n].loc = ROOT /\ ~N[n].loaded
    /\ n \in {<<>>, Card} => N[n].kind = "dir" /\ N[n].loc = ROOT
    /\ n \notin {<<>>, Card} => N[n].name \in Names /\ (N[n].kind = "dir" => N[n].loc # ROOT)
    /\ N[n].loaded => Len(n) <= 2

\* Gone of Vfs, and the entries of the directory that n stands for.
GoneIn(N, D, n) ==
  /\ N[n].kind = "dir" /\ N[n].loc # ROOT
  /\ EntryOf(N[n]) \notin D[N[n].disk][N[N[n].parent].loc]
Holds(N, D, n) == D[N[n].disk][N[n].loc]

Mirrored(N, D) ==
  \A n \in DOMAIN N : N[n].loaded /\ ~GoneIn(N, D, n) =>
    /\ \A k \in N[n].kids : N[k].kind = "file" => EntryOf(N[k]) \in Holds(N, D, n)
    /\ \A e \in Holds(N, D, n) : Child(n, e) \in DOMAIN N /\ EntryOf(N[Child(n, e)]) = e

Ghosts(N, D) ==
  \A n \in DOMAIN N : GoneIn(N, D, n) => N[n].loaded /\ N[n].kids = {}

OneDir(N, D) ==
  \A m, n \in DOMAIN N :
    /\ N[m].kind = "dir" /\ N[n].kind = "dir" /\ ~GoneIn(N, D, m) /\ ~GoneIn(N, D, n)
    /\ N[m].disk = N[n].disk /\ N[m].loc = N[n].loc
    => m = n

\* A volume: names are unique in a directory, and each directory has one entry.
DiskOK(D) ==
  /\ D \in [Disks -> [Dirs -> SUBSET Entries]]
  /\ \A v \in Disks, c \in Dirs : IsFiniteSet(D[v][c])
  /\ \A v \in Disks, c \in Dirs : \A e \in D[v][c] : e.kind = "file" <=> e.at = ROOT
  /\ \A v \in Disks, c \in Dirs : \A e, f \in D[v][c] : e.name = f.name => e = f
  /\ \A v \in Disks, b, c \in Dirs : \A e \in D[v][b], f \in D[v][c] :
       e.kind = "dir" /\ f.kind = "dir" /\ e.at = f.at => b = c /\ e = f

Tree(N, D) ==
  /\ Nodelike(N) /\ Linked(N) /\ Placed(N) /\ DiskOK(D)
  /\ Mirrored(N, D) /\ Ghosts(N, D) /\ OneDir(N, D)

\* ref_cnt
User(x)    == IF x.opened THEN 1 ELSE 0
Exact(x)   == x.ref = Cardinality(x.kids) + DotsOf(x) + User(x)
Counted(N) == \A n \in DOMAIN N : Exact(N[n])

OpenOn(N, v) == {n \in DOMAIN N : N[n].opened /\ N[n].disk = v}
OpenFiles(N) == {n \in DOMAIN N : N[n].opened /\ N[n].kind = "file"}

IsFs(q) ==
  /\ q = [node |-> q.node, mount |-> q.mount, opened |-> q.opened, info |-> q.info,
          mounted |-> q.mounted, used |-> q.used, dirs |-> q.dirs, hung |-> q.hung]
  /\ q.mount \in [Disks -> {NULL, <<>>, Card}] /\ q.opened \in [Disks -> SUBSET Keys]
  /\ q.info \in SUBSET Disks /\ q.mounted \in SUBSET Disks /\ q.used \in Int

Listed(q) ==
  /\ \A v \in Disks : q.opened[v] = OpenOn(q.node, v)
  /\ q.used = Cardinality(OpenFiles(q.node))

\* The volumes that are mounted while the threads run.
Volumes(q) ==
  /\ q.mount["HD"] = <<>> /\ "HD" \in q.info /\ "HD" \in q.mounted
  /\ "CF" \in q.info <=> "CF" \in q.mounted
  /\ q.mount["CF"] = IF "CF" \in q.info THEN Card ELSE NULL
  /\ "CF" \in q.info <=> Card \in DOMAIN q.node

Good(q) ==
  /\ IsFs(q) /\ q.hung = FALSE
  /\ Tree(q.node, q.dirs) /\ Counted(q.node) /\ Listed(q) /\ Volumes(q)

\* Nothing is mounted.
Bare(q) ==
  /\ IsFs(q) /\ q.hung = FALSE /\ DiskOK(q.dirs)
  /\ DOMAIN q.node = {} /\ q.info = {} /\ q.mounted = {} /\ q.used = 0
  /\ \A v \in Disks : q.mount[v] = NULL /\ q.opened[v] = {}

(***************************************************************************)
(* Paths.                                                                  *)
(***************************************************************************)
LEMMA AppendParts ==
  ASSUME NEW S, NEW d \in Seq(S), NEW a \in S
  PROVE  /\ Append(d, a) \in Seq(S) /\ Len(Append(d, a)) = Len(d) + 1 /\ Append(d, a) # <<>>
         /\ \A i \in 1..Len(d) : Append(d, a)[i] = d[i]
         /\ Append(d, a)[Len(d) + 1] = a /\ Len(d) \in Nat
OBVIOUS

LEMMA AppendSplits ==
  ASSUME NEW S, NEW d \in Seq(S), NEW e \in Seq(S), NEW a \in S, NEW b \in S,
         Append(d, a) = Append(e, b)
  PROVE  d = e /\ a = b
<1>1. Len(d) = Len(e) /\ a = b
  BY AppendParts
<1>2. ASSUME NEW i \in 1..Len(d) PROVE d[i] = e[i]
  BY <1>1, AppendParts
<1> QED BY <1>1, <1>2, SeqEqual

LEMMA KeyFacts ==
  /\ <<>> \in Keys /\ Card \in Keys /\ NULL \notin Keys /\ Card # <<>>
  /\ Card = Append(<<>>, CF_0) /\ CF_0 \in AllNames /\ CF_0 \notin Names
  /\ Names \subseteq AllNames /\ ROOT \in Dirs /\ "HD" \in Disks /\ "CF" \in Disks
  /\ Volume(<<>>) = "HD" /\ Volume(Card) = "CF"
<1>1. NULL \notin Seq(AllNames) /\ CF_0 \notin Names /\ MaxDirs \in Nat
  BY TreeAssumption DEF AllNames
<1>2. CF_0 \in AllNames /\ Names \subseteq AllNames
  BY DEF AllNames
<1>3. <<>> \in Seq(AllNames) /\ Len(<<>>) = 0 /\ Card \in Seq(AllNames) /\ Len(Card) = 1
      /\ Card[1] = CF_0 /\ Card = Append(<<>>, CF_0)
  BY <1>2 DEF Card
<1> QED BY <1>1, <1>2, <1>3 DEF Keys, ROOT, Dirs, Disks, Volume

LEMMA KeyLen ==
  ASSUME NEW n \in Keys
  PROVE  n \in Seq(AllNames) /\ Len(n) \in 0..3 /\ (n = <<>> <=> Len(n) = 0)
<1>1. n \in Seq(AllNames) /\ Len(n) <= 3
  BY DEF Keys
<1>2. Len(n) \in Nat
  BY <1>1, LenProperties
<1>3. Len(n) \in 0..3
  <2> PICK z : z = Len(n)
    OBVIOUS
  <2> QED BY <1>1, <1>2
<1>4. n = <<>> <=> Len(n) = 0
  BY <1>1, EmptySeq
<1> QED BY <1>1, <1>3, <1>4

LEMMA ChildKey ==
  ASSUME NEW n \in Keys, Len(n) <= 2, NEW a \in AllNames
  PROVE  /\ Append(n, a) \in Keys /\ Append(n, a) # <<>> /\ Len(Append(n, a)) = Len(n) + 1
         /\ n # <<>> => Volume(Append(n, a)) = Volume(n) /\ Append(n, a) # Card
         /\ n = <<>> /\ a # CF_0 => Volume(Append(n, a)) = "HD" /\ Append(n, a) # Card
<1>1. n \in Seq(AllNames) /\ Len(n) \in 0..3 /\ (n = <<>> <=> Len(n) = 0)
  BY KeyLen
<1>2. /\ Append(n, a) \in Seq(AllNames) /\ Len(Append(n, a)) = Len(n) + 1
      /\ Append(n, a) # <<>> /\ \A i \in 1..Len(n) : Append(n, a)[i] = n[i]
      /\ Append(n, a)[Len(n) + 1] = a
  BY <1>1, AppendParts
<1>3. Append(n, a) \in Keys
  BY <1>1, <1>2 DEF Keys
<1>4. n # <<>> => 1 \in 1..Len(n) /\ Append(n, a)[1] = n[1]
  BY <1>1, <1>2
<1>5. Len(Card) = 1 /\ Card[1] = CF_0
  BY DEF Card
<1> QED BY <1>1, <1>2, <1>3, <1>4, <1>5 DEF Volume

LEMMA SameChild ==
  ASSUME NEW m \in Keys, NEW n \in Keys, NEW a \in AllNames, NEW b \in AllNames,
         Append(m, a) = Append(n, b)
  PROVE  m = n /\ a = b
BY KeyLen, AppendSplits

(***************************************************************************)
(* What the invariant says of one node.                                    *)
(***************************************************************************)
\* Two versions of a node that differ in ref and opened only, and two that
\* may also differ in what they show.
Alike(x, y) ==
  /\ x.kind = y.kind /\ x.name = y.name /\ x.parent = y.parent /\ x.loc = y.loc
  /\ x.disk = y.disk /\ x.loaded = y.loaded /\ x.kids = y.kids
SameEntry(x, y) ==
  /\ x.kind = y.kind /\ x.name = y.name /\ x.parent = y.parent /\ x.loc = y.loc
  /\ x.disk = y.disk

LEMMA NodeFacts ==
  ASSUME NEW N, Nodelike(N), NEW n \in DOMAIN N
  PROVE  /\ n \in Keys /\ N[n].kind \in Kinds /\ N[n].name \in AllNames
         /\ N[n].parent \in Keys \cup {NULL} /\ N[n].kids \subseteq Keys /\ N[n].ref \in Int
         /\ N[n].opened \in BOOLEAN /\ N[n].loaded \in BOOLEAN /\ N[n].loc \in Dirs
         /\ N[n].disk \in Disks /\ N[n] \in NodeType
<1>1. N[n] \in NodeType /\ n \in Keys
  BY DEF Nodelike
<1> QED BY <1>1 DEF NodeType

LEMMA ParentFacts ==
  ASSUME NEW N, Nodelike(N), Linked(N), NEW n \in DOMAIN N, n # <<>>
  PROVE  /\ N[n].parent \in DOMAIN N /\ n = Append(N[n].parent, N[n].name)
         /\ n = Child(N[n].parent, N[n])
         /\ N[N[n].parent].kind = "dir" /\ N[N[n].parent].loaded
         /\ n \in N[N[n].parent].kids /\ N[n].parent \in Keys /\ N[n].name \in AllNames
BY NodeFacts DEF Linked, Child

\* The child of d with some name is a node exactly when it is one of its children.
LEMMA KidOf ==
  ASSUME NEW N, Nodelike(N), Linked(N), NEW d \in DOMAIN N, NEW a \in AllNames,
         Append(d, a) \in DOMAIN N
  PROVE  /\ N[Append(d, a)].parent = d /\ N[Append(d, a)].name = a
         /\ Append(d, a) \in N[d].kids /\ N[d].loaded /\ N[d].kind = "dir"
<1> DEFINE k == Append(d, a)
<1>1. d \in Keys /\ k # <<>>
  BY NodeFacts, KeyLen, AppendParts
<1>2. /\ N[k].parent \in DOMAIN N /\ k = Append(N[k].parent, N[k].name)
      /\ k \in N[N[k].parent].kids /\ N[k].parent \in Keys /\ N[k].name \in AllNames
      /\ N[N[k].parent].loaded /\ N[N[k].parent].kind = "dir"
  BY <1>1, ParentFacts
<1>3. N[k].parent = d /\ N[k].name = a
  <2> HIDE DEF k
  <2> PICK e, b : e = N[k].parent /\ b = N[k].name
    OBVIOUS
  <2>1. Append(d, a) = Append(e, b) /\ e \in Keys /\ b \in AllNames
    BY <1>2 DEF k
  <2> QED BY <1>1, <2>1, SameChild
<1> QED BY <1>2, <1>3

LEMMA EntryEqual ==
  ASSUME NEW x, NEW y
  PROVE  EntryOf(x) = EntryOf(y) <=> x.name = y.name /\ x.kind = y.kind /\ x.loc = y.loc
BY DEF EntryOf

LEMMA EntryParts ==
  ASSUME NEW x
  PROVE  EntryOf(x).name = x.name /\ EntryOf(x).kind = x.kind /\ EntryOf(x).at = x.loc
BY DEF EntryOf

LEMMA GoneSame ==
  ASSUME NEW N, NEW P, NEW D, NEW n, SameEntry(P[n], N[n]),
         N[n].loc # ROOT => P[N[n].parent].loc = N[N[n].parent].loc
  PROVE  GoneIn(P, D, n) <=> GoneIn(N, D, n)
<1>1. EntryOf(P[n]) = EntryOf(N[n])
  BY EntryEqual DEF SameEntry
<1> QED BY <1>1 DEF GoneIn, SameEntry

\* ref and opened do not matter to the tree.
LEMMA AlikeTree ==
  ASSUME NEW N, NEW P, NEW D, Tree(N, D), Nodelike(P), DOMAIN P = DOMAIN N,
         \A n \in DOMAIN N : Alike(P[n], N[n])
  PROVE  Tree(P, D)
<1>1. Nodelike(N) /\ Linked(N) /\ Placed(N) /\ DiskOK(D) /\ Mirrored(N, D) /\ Ghosts(N, D)
      /\ OneDir(N, D)
  BY DEF Tree
<1>2. \A n \in DOMAIN N : SameEntry(P[n], N[n])
                          /\ P[n].loaded = N[n].loaded /\ P[n].kids = N[n].kids
  BY DEF Alike, SameEntry
<1>3. ASSUME NEW n \in DOMAIN N PROVE GoneIn(P, D, n) <=> GoneIn(N, D, n)
  <2>1. N[n].loc # ROOT => N[n].parent \in DOMAIN N
    BY <1>1 DEF Linked, Placed
  <2> QED BY <1>2, <2>1, GoneSame DEF SameEntry
<1>4. ASSUME NEW n \in DOMAIN N
      PROVE  Holds(P, D, n) = Holds(N, D, n) /\ EntryOf(P[n]) = EntryOf(N[n])
  BY <1>2, EntryEqual DEF Holds, SameEntry
<1>5. Linked(P)
  BY <1>1, <1>2 DEF Linked, SameEntry
<1>6. Placed(P)
  BY <1>1, <1>2 DEF Placed, SameEntry
<1>7. Mirrored(P, D)
  <2> SUFFICES ASSUME NEW n \in DOMAIN N, P[n].loaded, ~GoneIn(P, D, n)
               PROVE  /\ \A k \in P[n].kids : P[k].kind = "file" => EntryOf(P[k]) \in Holds(P, D, n)
                      /\ \A e \in Holds(P, D, n) : Child(n, e) \in DOMAIN P
                                                   /\ EntryOf(P[Child(n, e)]) = e
    BY DEF Mirrored
  <2>1. N[n].loaded /\ ~GoneIn(N, D, n) /\ P[n].kids = N[n].kids /\ N[n].kids \subseteq DOMAIN N
    BY <1>1, <1>2, <1>3 DEF Linked
  <2>2. \A k \in N[n].kids : P[k].kind = N[k].kind
    BY <1>2, <2>1 DEF SameEntry
  <2>3. /\ \A k \in N[n].kids : N[k].kind = "file" => EntryOf(N[k]) \in Holds(N, D, n)
        /\ \A e \in Holds(N, D, n) : Child(n, e) \in DOMAIN N /\ EntryOf(N[Child(n, e)]) = e
    BY <1>1, <2>1 DEF Mirrored
  <2> QED BY <1>4, <2>1, <2>2, <2>3
<1>8. Ghosts(P, D)
  BY <1>1, <1>2, <1>3 DEF Ghosts
<1>9. OneDir(P, D)
  BY <1>1, <1>2, <1>3 DEF OneDir, SameEntry
<1> QED BY <1>1, <1>5, <1>6, <1>7, <1>8, <1>9 DEF Tree

(***************************************************************************)
(* Opening and closing a node.                                             *)
(***************************************************************************)
\* What the calls of threads leave alone.
Beside(q, r) ==
  /\ r.mount = q.mount /\ r.info = q.info /\ r.mounted = q.mounted /\ r.hung = q.hung

\* P is N with node n opened or closed.
Turned(N, P, n, b, i) ==
  /\ DOMAIN P = DOMAIN N /\ (\A k \in DOMAIN N : k # n => P[k] = N[k])
  /\ P \in [DOMAIN N -> NodeType]
  /\ Alike(P[n], N[n]) /\ P[n].opened = b /\ P[n].ref = N[n].ref + i

LEMMA CloseFields ==
  ASSUME NEW q, IsFs(q), Nodelike(q.node), NEW n \in DOMAIN q.node
  PROVE  LET r == closeNode(q, n)
         IN  /\ IsFs(r) /\ Beside(q, r) /\ r.dirs = q.dirs
             /\ Turned(q.node, r.node, n, FALSE, -1)
             /\ \A v \in Disks : r.opened[v] = IF v = q.node[n].disk THEN q.opened[v] \ {n}
                                               ELSE q.opened[v]
             /\ r.used = IF q.node[n].kind = "file" THEN q.used - 1 ELSE q.used
<1> DEFINE N == q.node
           x == N[n]
           y == [x EXCEPT !.opened = FALSE, !.ref = @ - 1]
           P == [N EXCEPT ![n] = y]
           O == [q.opened EXCEPT ![x.disk] = @ \ {n}]
           u == IF x.kind = "file" THEN q.used - 1 ELSE q.used
           r == [node |-> P, mount |-> q.mount, opened |-> O, info |-> q.info,
                 mounted |-> q.mounted, used |-> u, dirs |-> q.dirs, hung |-> q.hung]
<1>1. closeNode(q, n) = r
  <2> DEFINE a == [q EXCEPT !.node[n].opened = FALSE, !.node[n].ref = @ - 1]
             b == [a EXCEPT !.opened[q.node[n].disk] = @ \ {n}]
  <2>1. a = [q EXCEPT !.node = P]
    BY DEF IsFs
  <2>2. b = [node |-> P, mount |-> q.mount, opened |-> O, info |-> q.info,
             mounted |-> q.mounted, used |-> q.used, dirs |-> q.dirs, hung |-> q.hung]
    <3> HIDE DEF a, P
    <3>1. a.opened = q.opened
      BY <2>1 DEF IsFs
    <3>2. b = [a EXCEPT !.opened = O]
      BY <3>1
    <3> HIDE DEF b, O
    <3> QED BY <2>1, <3>2 DEF IsFs
  <2>3. closeNode(q, n) = [b EXCEPT !.used = IF q.node[n].kind = "file" THEN @ - 1 ELSE @]
    BY DEF closeNode
  <2> HIDE DEF b, P, O
  <2> QED BY <2>2, <2>3
<1>2. x \in NodeType /\ x.disk \in Disks /\ x.ref \in Int /\ n \in Keys
  BY NodeFacts
<1>3. y \in NodeType /\ Alike(y, x) /\ y.opened = FALSE /\ y.ref = x.ref + (-1)
  <2> PICK i \in Int : i = x.ref + (-1)
    BY <1>2
  <2>1. y = [x EXCEPT !.opened = FALSE, !.ref = i]
    BY <1>2 DEF NodeType
  <2> HIDE DEF x, y
  <2>2. y \in NodeType
    BY <1>2, <2>1 DEF NodeType
  <2>3. Alike(y, x) /\ y.opened = FALSE /\ y.ref = i
    BY <1>2, <2>1 DEF NodeType, Alike
  <2> QED BY <2>2, <2>3
<1>4. Turned(N, P, n, FALSE, -1)
  BY <1>3 DEF Turned, Nodelike
<1>5. O \in [Disks -> SUBSET Keys]
      /\ \A v \in Disks : O[v] = IF v = x.disk THEN q.opened[v] \ {n} ELSE q.opened[v]
  BY <1>2 DEF IsFs
<1>6. u \in Int
  BY DEF IsFs
<1>7. IsFs(r) /\ Beside(q, r) /\ r.dirs = q.dirs /\ r.node = P /\ r.opened = O /\ r.used = u
  <2> HIDE DEF P, O, u
  <2> QED BY <1>5, <1>6 DEF IsFs, Beside
<1> HIDE DEF r, P, O, u
<1>8. u = IF x.kind = "file" THEN q.used - 1 ELSE q.used
  BY DEF u
<1> QED BY <1>1, <1>4, <1>5, <1>7, <1>8

LEMMA OpenFields ==
  ASSUME NEW q, IsFs(q), Nodelike(q.node), NEW n \in DOMAIN q.node
  PROVE  LET r == nodeOpened(q, n).q
         IN  /\ nodeOpened(q, n).fd = n
             /\ IsFs(r) /\ Beside(q, r) /\ r.dirs = q.dirs /\ r.used = q.used
             /\ Turned(q.node, r.node, n, TRUE, 1)
             /\ \A v \in Disks : r.opened[v] = IF v = q.node[n].disk THEN q.opened[v] \cup {n}
                                               ELSE q.opened[v]
<1> DEFINE N == q.node
           x == N[n]
           y == [x EXCEPT !.opened = TRUE, !.ref = @ + 1]
           P == [N EXCEPT ![n] = y]
           O == [q.opened EXCEPT ![x.disk] = @ \cup {n}]
           r == [node |-> P, mount |-> q.mount, opened |-> O, info |-> q.info,
                 mounted |-> q.mounted, used |-> q.used, dirs |-> q.dirs, hung |-> q.hung]
<1>1. nodeOpened(q, n).q = r /\ nodeOpened(q, n).fd = n
  BY DEF nodeOpened, IsFs
<1>2. x \in NodeType /\ x.disk \in Disks /\ x.ref \in Int /\ n \in Keys
  BY NodeFacts
<1>3. y \in NodeType /\ Alike(y, x) /\ y.opened = TRUE /\ y.ref = x.ref + 1
  <2> PICK i \in Int : i = x.ref + 1
    BY <1>2
  <2>1. y = [x EXCEPT !.opened = TRUE, !.ref = i]
    BY <1>2 DEF NodeType
  <2> HIDE DEF x, y
  <2>2. y \in NodeType
    BY <1>2, <2>1 DEF NodeType
  <2>3. Alike(y, x) /\ y.opened = TRUE /\ y.ref = i
    BY <1>2, <2>1 DEF NodeType, Alike
  <2> QED BY <2>2, <2>3
<1>4. Turned(N, P, n, TRUE, 1)
  BY <1>3 DEF Turned, Nodelike
<1>5. O \in [Disks -> SUBSET Keys]
      /\ \A v \in Disks : O[v] = IF v = x.disk THEN q.opened[v] \cup {n} ELSE q.opened[v]
  BY <1>2 DEF IsFs
<1>7. IsFs(r) /\ Beside(q, r) /\ r.dirs = q.dirs /\ r.node = P /\ r.opened = O /\ r.used = q.used
  <2> HIDE DEF P, O
  <2> QED BY <1>5 DEF IsFs, Beside
<1> HIDE DEF r, P, O
<1> QED BY <1>1, <1>4, <1>5, <1>7

LEMMA TurnedTree ==
  ASSUME NEW N, NEW P, NEW D, Tree(N, D), NEW n \in DOMAIN N, NEW b, NEW i,
         Turned(N, P, n, b, i)
  PROVE  Tree(P, D)
<1>1. Nodelike(N)
  BY DEF Tree
<1>2. Nodelike(P) /\ DOMAIN P = DOMAIN N
  BY <1>1 DEF Turned, Nodelike
<1>3. \A k \in DOMAIN N : Alike(P[k], N[k])
  BY DEF Turned, Alike
<1> QED BY <1>2, <1>3, AlikeTree

\* The children of a node can be counted.
LEMMA KidsCount ==
  ASSUME NEW N, Nodelike(N), Linked(N), NEW n \in DOMAIN N
  PROVE  N[n].kids \subseteq DOMAIN N /\ IsFiniteSet(N[n].kids) /\ Cardinality(N[n].kids) \in Nat
<1>1. N[n].kids \subseteq DOMAIN N /\ IsFiniteSet(DOMAIN N)
  BY DEF Linked, Nodelike
<1>2. IsFiniteSet(N[n].kids)
  BY <1>1, FS_Subset
<1> QED BY <1>1, <1>2, FS_CardinalityType

\* A node is opened that was closed, or closed that was opened.
LEMMA TurnedExact ==
  ASSUME NEW x, NEW y, Alike(y, x), Exact(x), Cardinality(x.kids) \in Nat,
         \/ x.opened /\ ~y.opened /\ y.ref = x.ref + (-1)
         \/ ~x.opened /\ y.opened /\ y.ref = x.ref + 1
  PROVE  Exact(y)
<1> PICK c \in Nat : c = Cardinality(x.kids)
  OBVIOUS
<1> PICK d : d = DotsOf(x)
  OBVIOUS
<1>1. DotsOf(y) = d /\ Cardinality(y.kids) = c
  BY DEF Alike, DotsOf
<1>2. d \in Int
  BY DEF DotsOf
<1>3. x.ref = c + d + User(x)
  BY DEF Exact
<1>5. CASE x.opened /\ ~y.opened /\ y.ref = x.ref + (-1)
  <2>1. User(x) = 1 /\ User(y) = 0
    BY <1>5 DEF User
  <2>2. y.ref = c + d + 0
    BY <1>2, <1>3, <1>5, <2>1
  <2> QED BY <1>1, <2>1, <2>2 DEF Exact
<1>6. CASE ~x.opened /\ y.opened /\ y.ref = x.ref + 1
  <2>1. User(x) = 0 /\ User(y) = 1
    BY <1>6 DEF User
  <2>2. y.ref = c + d + 1
    BY <1>2, <1>3, <1>6, <2>1
  <2> QED BY <1>1, <2>1, <2>2 DEF Exact
<1> QED BY <1>5, <1>6

LEMMA TurnedCounted ==
  ASSUME NEW N, NEW P, NEW D, Tree(N, D), Counted(N), NEW n \in DOMAIN N, NEW b, NEW i,
         Turned(N, P, n, b, i),
         (b = FALSE /\ i = -1 /\ N[n].opened) \/ (b = TRUE /\ i = 1 /\ ~N[n].opened)
  PROVE  Counted(P)
<1>1. ASSUME NEW k \in DOMAIN P PROVE Exact(P[k])
  <2>1. k \in DOMAIN N /\ Exact(N[k])
    BY <1>1 DEF Turned, Counted
  <2>2. CASE k # n
    BY <2>1, <2>2 DEF Turned
  <2>3. CASE k = n
    <3>1. Cardinality(N[n].kids) \in Nat
      BY KidsCount DEF Tree
    <3>2. Alike(P[n], N[n]) /\ P[n].opened = b /\ P[n].ref = N[n].ref + i
      BY DEF Turned
    <3>3. \/ N[n].opened /\ ~P[n].opened /\ P[n].ref = N[n].ref + (-1)
          \/ ~N[n].opened /\ P[n].opened /\ P[n].ref = N[n].ref + 1
      BY <3>2
    <3> PICK x, y : x = N[n] /\ y = P[n]
      OBVIOUS
    <3> QED BY <2>1, <2>3, <3>1, <3>2, <3>3, TurnedExact
  <2> QED BY <2>2, <2>3
<1> QED BY <1>1 DEF Counted

\* What is open.
Opened(N) == {n \in DOMAIN N : N[n].opened}

\* r is q after some directories were loaded, and nodes opened or closed.
Grows(q, r) ==
  /\ Beside(q, r) /\ r.dirs = q.dirs /\ DOMAIN q.node \subseteq DOMAIN r.node
  /\ \A n \in DOMAIN q.node :
       /\ SameEntry(r.node[n], q.node[n])
       /\ q.node[n].loaded => r.node[n].loaded /\ r.node[n].kids = q.node[n].kids
  /\ \A n \in DOMAIN r.node : n \notin DOMAIN q.node => ~GoneIn(r.node, r.dirs, n)

LEMMA GrowsGone ==
  ASSUME NEW q, NEW r, Tree(q.node, q.dirs), Grows(q, r), NEW n \in DOMAIN q.node
  PROVE  GoneIn(r.node, r.dirs, n) <=> GoneIn(q.node, q.dirs, n)
<1>1. SameEntry(r.node[n], q.node[n]) /\ r.dirs = q.dirs
  BY DEF Grows
<1>2. q.node[n].loc # ROOT => q.node[n].parent \in DOMAIN q.node
  BY DEF Tree, Linked, Placed
<1>3. q.node[n].loc # ROOT => r.node[q.node[n].parent].loc = q.node[q.node[n].parent].loc
  BY <1>2 DEF Grows, SameEntry
<1> QED BY <1>1, <1>3, GoneSame

LEMMA GrowsTwice ==
  ASSUME NEW q, NEW r, NEW s, Tree(r.node, r.dirs), Grows(q, r), Grows(r, s)
  PROVE  Grows(q, s)
<1>1. Beside(q, s) /\ s.dirs = q.dirs /\ DOMAIN q.node \subseteq DOMAIN s.node
  BY DEF Grows, Beside
<1>2. ASSUME NEW n \in DOMAIN q.node
      PROVE  /\ SameEntry(s.node[n], q.node[n])
             /\ q.node[n].loaded => s.node[n].loaded /\ s.node[n].kids = q.node[n].kids
  BY DEF Grows, SameEntry
<1>3. ASSUME NEW n \in DOMAIN s.node, n \notin DOMAIN q.node
      PROVE  ~GoneIn(s.node, s.dirs, n)
  <2>1. CASE n \in DOMAIN r.node
    BY <1>3, <2>1, GrowsGone DEF Grows
  <2>2. CASE n \notin DOMAIN r.node
    BY <2>2 DEF Grows
  <2> QED BY <2>1, <2>2
<1> QED BY <1>1, <1>2, <1>3 DEF Grows

LEMMA TurnedGrows ==
  ASSUME NEW q, NEW r, NEW n \in DOMAIN q.node, NEW b, NEW i,
         Turned(q.node, r.node, n, b, i), Beside(q, r), r.dirs = q.dirs
  PROVE  Grows(q, r)
<1>1. ASSUME NEW k \in DOMAIN q.node
      PROVE  /\ SameEntry(r.node[k], q.node[k])
             /\ r.node[k].loaded = q.node[k].loaded /\ r.node[k].kids = q.node[k].kids
  <2>1. CASE k # n
    BY <2>1 DEF Turned, SameEntry
  <2>2. CASE k = n
    BY <2>2 DEF Turned, Alike, SameEntry
  <2> QED BY <2>1, <2>2
<1>2. DOMAIN r.node = DOMAIN q.node
  BY DEF Turned
<1> QED BY <1>1, <1>2 DEF Grows

LEMMA VolumesStay ==
  ASSUME NEW q, NEW r, Volumes(q), Beside(q, r),
         Card \in DOMAIN q.node <=> Card \in DOMAIN r.node
  PROVE  Volumes(r)
BY DEF Volumes, Beside

LEMMA OpenFilesFinite ==
  ASSUME NEW N, Nodelike(N)
  PROVE  IsFiniteSet(OpenFiles(N)) /\ Cardinality(OpenFiles(N)) \in Nat
<1>1. IsFiniteSet(OpenFiles(N))
  BY FS_Subset DEF Nodelike, OpenFiles
<1> QED BY <1>1, FS_CardinalityType

\* r is what the closing of node n leaves of q.
NowClosed(q, n, r) ==
  /\ Good(r) /\ Grows(q, r) /\ Opened(r.node) = Opened(q.node) \ {n}
  /\ DOMAIN r.node = DOMAIN q.node
  /\ \A k \in DOMAIN q.node : Alike(r.node[k], q.node[k])

LEMMA GoodClose ==
  ASSUME NEW q, Good(q), NEW n \in DOMAIN q.node, q.node[n].opened
  PROVE  NowClosed(q, n, closeNode(q, n))
<1>0. /\ IsFs(q) /\ q.hung = FALSE /\ Tree(q.node, q.dirs) /\ Counted(q.node) /\ Listed(q)
      /\ Volumes(q) /\ Nodelike(q.node)
  BY DEF Good, Tree
<1> PICK r : r = closeNode(q, n)
  OBVIOUS
<1>1. /\ IsFs(r) /\ Beside(q, r) /\ r.dirs = q.dirs
      /\ Turned(q.node, r.node, n, FALSE, -1)
      /\ \A v \in Disks : r.opened[v] = IF v = q.node[n].disk THEN q.opened[v] \ {n}
                                        ELSE q.opened[v]
      /\ r.used = IF q.node[n].kind = "file" THEN q.used - 1 ELSE q.used
  BY <1>0, CloseFields
<1>2. Tree(r.node, r.dirs) /\ Counted(r.node) /\ Grows(q, r)
  <2>1. Turned(q.node, r.node, n, FALSE, -1) /\ Beside(q, r) /\ r.dirs = q.dirs
    BY <1>1
  <2>2. Tree(r.node, r.dirs)
    BY <1>0, <2>1, TurnedTree
  <2>3. Counted(r.node)
    <3> PICK b, i : b = FALSE /\ i = -1
      OBVIOUS
    <3>1. Turned(q.node, r.node, n, b, i)
      BY <2>1
    <3>2. b = FALSE /\ i = -1 /\ q.node[n].opened
      OBVIOUS
    <3> QED BY <1>0, <3>1, <3>2, TurnedCounted
  <2>4. Grows(q, r)
    BY <2>1, TurnedGrows
  <2> QED BY <2>2, <2>3, <2>4
<1>3. /\ DOMAIN r.node = DOMAIN q.node /\ ~r.node[n].opened
      /\ \A k \in DOMAIN q.node : k # n => r.node[k] = q.node[k]
      /\ r.node[n].disk = q.node[n].disk /\ r.node[n].kind = q.node[n].kind
  BY <1>1 DEF Turned, Alike
<1>4. Opened(r.node) = Opened(q.node) \ {n}
  BY <1>3 DEF Opened
<1>5. ASSUME NEW v \in Disks PROVE r.opened[v] = OpenOn(r.node, v)
  <2>1. q.opened[v] = OpenOn(q.node, v)
    BY <1>0 DEF Listed
  <2>2. OpenOn(r.node, v) = OpenOn(q.node, v) \ {n}
    BY <1>3 DEF OpenOn
  <2>3. v # q.node[n].disk => n \notin OpenOn(q.node, v)
    BY DEF OpenOn
  <2> QED BY <1>1, <2>1, <2>2, <2>3
<1>6. r.used = Cardinality(OpenFiles(r.node))
  <2>1. OpenFiles(r.node) = OpenFiles(q.node) \ {n}
    BY <1>3 DEF OpenFiles
  <2>2. n \in OpenFiles(q.node) <=> q.node[n].kind = "file"
    BY DEF OpenFiles
  <2>3. q.used = Cardinality(OpenFiles(q.node)) /\ IsFiniteSet(OpenFiles(q.node))
    BY <1>0, OpenFilesFinite DEF Listed
  <2>4. Cardinality(OpenFiles(r.node)) = IF n \in OpenFiles(q.node)
                                         THEN Cardinality(OpenFiles(q.node)) - 1
                                         ELSE Cardinality(OpenFiles(q.node))
    BY <2>1, <2>3, FS_RemoveElement, ZenonT(40)
  <2> QED BY <1>1, <2>2, <2>3, <2>4
<1>7. Volumes(r) /\ r.hung = FALSE
  BY <1>0, <1>1, <1>3, VolumesStay DEF Beside
<1>8. Good(r)
  BY <1>1, <1>2, <1>5, <1>6, <1>7 DEF Good, Listed
<1>9. ASSUME NEW k \in DOMAIN q.node PROVE Alike(r.node[k], q.node[k])
  <2>1. CASE k = n
    BY <1>1, <2>1 DEF Turned
  <2>2. CASE k # n
    BY <1>1, <2>2 DEF Turned, Alike
  <2> QED BY <2>1, <2>2
<1> QED BY <1>1, <1>2, <1>3, <1>4, <1>8, <1>9 DEF NowClosed

\* open and opendir count a file's sector cache, then open the node.
Caching(q, r, x) ==
  r = IF x.kind = "file" THEN [q EXCEPT !.used = @ + 1] ELSE q

\* o is what the opening of node n leaves of q.
NowOpen(q, n, o) ==
  /\ Good(o.q) /\ Grows(q, o.q) /\ Opened(o.q.node) = Opened(q.node) \cup {n}
  /\ o.fd = n /\ DOMAIN o.q.node = DOMAIN q.node

LEMMA GoodOpen ==
  ASSUME NEW q, Good(q), NEW n \in DOMAIN q.node, ~q.node[n].opened,
         NEW p, Caching(q, p, q.node[n])
  PROVE  NowOpen(q, n, nodeOpened(p, n))
<1>0. /\ IsFs(q) /\ q.hung = FALSE /\ Tree(q.node, q.dirs) /\ Counted(q.node) /\ Listed(q)
      /\ Volumes(q) /\ Nodelike(q.node)
  BY DEF Good, Tree
<1>p. /\ IsFs(p) /\ p.node = q.node /\ Beside(q, p) /\ p.dirs = q.dirs /\ p.opened = q.opened
      /\ p.used = IF q.node[n].kind = "file" THEN q.used + 1 ELSE q.used
  <2>1. CASE q.node[n].kind = "file"
    <3>1. p = [q EXCEPT !.used = @ + 1]
      BY <2>1 DEF Caching
    <3> QED BY <1>0, <2>1, <3>1 DEF IsFs, Beside
  <2>2. CASE q.node[n].kind # "file"
    BY <1>0, <2>2 DEF Caching, Beside
  <2> QED BY <2>1, <2>2
<1> PICK r : r = nodeOpened(p, n).q
  OBVIOUS
<1>1. /\ IsFs(r) /\ Beside(q, r) /\ r.dirs = q.dirs /\ nodeOpened(p, n).fd = n
      /\ Turned(q.node, r.node, n, TRUE, 1)
      /\ \A v \in Disks : r.opened[v] = IF v = q.node[n].disk THEN q.opened[v] \cup {n}
                                        ELSE q.opened[v]
      /\ r.used = IF q.node[n].kind = "file" THEN q.used + 1 ELSE q.used
  <2>1. n \in DOMAIN p.node /\ Nodelike(p.node) /\ IsFs(p)
    BY <1>0, <1>p
  <2>2. /\ nodeOpened(p, n).fd = n
        /\ IsFs(r) /\ Beside(p, r) /\ r.dirs = p.dirs /\ r.used = p.used
        /\ Turned(p.node, r.node, n, TRUE, 1)
        /\ \A v \in Disks : r.opened[v] = IF v = p.node[n].disk THEN p.opened[v] \cup {n}
                                          ELSE p.opened[v]
    <3>1. LET z == nodeOpened(p, n).q
          IN  /\ nodeOpened(p, n).fd = n
              /\ IsFs(z) /\ Beside(p, z) /\ z.dirs = p.dirs /\ z.used = p.used
              /\ Turned(p.node, z.node, n, TRUE, 1)
              /\ \A v \in Disks : z.opened[v] = IF v = p.node[n].disk THEN p.opened[v] \cup {n}
                                                ELSE p.opened[v]
      BY ONLY <2>1, OpenFields
    <3> QED BY <3>1
  <2>3. Beside(q, r)
    BY <1>p, <2>2 DEF Beside
  <2> QED BY <1>p, <2>2, <2>3
<1>2. Tree(r.node, r.dirs) /\ Counted(r.node) /\ Grows(q, r)
  BY <1>0, <1>1, TurnedTree, TurnedCounted, TurnedGrows
<1>3. /\ DOMAIN r.node = DOMAIN q.node /\ r.node[n].opened
      /\ \A k \in DOMAIN q.node : k # n => r.node[k] = q.node[k]
      /\ r.node[n].disk = q.node[n].disk /\ r.node[n].kind = q.node[n].kind
  BY <1>1 DEF Turned, Alike
<1>4. Opened(r.node) = Opened(q.node) \cup {n}
  BY <1>3 DEF Opened
<1>5. ASSUME NEW v \in Disks PROVE r.opened[v] = OpenOn(r.node, v)
  <2>1. q.opened[v] = OpenOn(q.node, v)
    BY <1>0 DEF Listed
  <2>2. OpenOn(r.node, v) = IF v = q.node[n].disk THEN OpenOn(q.node, v) \cup {n}
                            ELSE OpenOn(q.node, v)
    BY <1>3 DEF OpenOn
  <2> QED BY <1>1, <2>1, <2>2
<1>6. r.used = Cardinality(OpenFiles(r.node))
  <2>1. OpenFiles(r.node) = IF q.node[n].kind = "file" THEN OpenFiles(q.node) \cup {n}
                            ELSE OpenFiles(q.node)
    BY <1>3 DEF OpenFiles
  <2>2. n \notin OpenFiles(q.node)
    BY DEF OpenFiles
  <2>3. q.used = Cardinality(OpenFiles(q.node)) /\ IsFiniteSet(OpenFiles(q.node))
    BY <1>0, OpenFilesFinite DEF Listed
  <2>4. Cardinality(OpenFiles(q.node) \cup {n}) = Cardinality(OpenFiles(q.node)) + 1
    BY <2>2, <2>3, FS_AddElement
  <2>5. CASE q.node[n].kind = "file"
    BY <1>1, <2>1, <2>3, <2>4, <2>5
  <2>6. CASE q.node[n].kind # "file"
    BY <1>1, <2>1, <2>3, <2>6
  <2> QED BY <2>5, <2>6
<1>7. Volumes(r) /\ r.hung = FALSE
  BY <1>0, <1>1, <1>3, VolumesStay DEF Beside
<1>8. Good(r)
  BY <1>1, <1>2, <1>5, <1>6, <1>7 DEF Good, Listed
<1> QED BY <1>1, <1>2, <1>3, <1>4, <1>8 DEF NowOpen

(***************************************************************************)
(* Adding nodes.                                                           *)
(***************************************************************************)
Made(d, new) == {Child(d, x) : x \in new}

\* The nodes new can be put under d.
Fresh(N, d, new) ==
  /\ IsFiniteSet(new) /\ \A x, y \in new : x.name = y.name => x = y
  /\ \A x \in new :
       /\ x \in NodeType /\ x.kids = {} /\ Child(d, x) \notin DOMAIN N
       /\ x.disk = Volume(Child(d, x))
       /\ x.kind = "file" => x.loc = ROOT /\ ~x.loaded
       /\ Child(d, x) = Card => x.kind = "dir" /\ x.loc = ROOT
       /\ Child(d, x) # Card => x.name \in Names /\ (x.kind = "dir" => x.loc # ROOT)
       /\ x.loaded => Len(d) <= 1

\* P is N with new under d, which is loaded or not and has i more references.
Grafted(N, P, d, new, l, i) ==
  /\ P \in [DOMAIN P -> NodeType] /\ DOMAIN P = DOMAIN N \cup Made(d, new)
  /\ \A x \in new : P[Child(d, x)] = [x EXCEPT !.parent = d]
  /\ \A k \in DOMAIN N : k # d => P[k] = N[k]
  /\ SameEntry(P[d], N[d]) /\ P[d].opened = N[d].opened /\ P[d].loaded = l
  /\ P[d].kids = N[d].kids \cup Made(d, new) /\ P[d].ref = N[d].ref + i

LEMMA FreshChild ==
  ASSUME NEW N, Nodelike(N), NEW d \in DOMAIN N, Len(d) <= 2, NEW new, Fresh(N, d, new),
         NEW x \in new
  PROVE  /\ Child(d, x) \in Keys /\ Child(d, x) # <<>> /\ Child(d, x) \notin DOMAIN N
         /\ Child(d, x) \in Made(d, new) /\ Len(Child(d, x)) = Len(d) + 1
         /\ \A y \in new : Child(d, x) = Child(d, y) => x = y
<1>1. d \in Keys /\ x.name \in AllNames
  BY NodeFacts DEF Fresh, NodeType
<1>2. /\ Child(d, x) \in Keys /\ Child(d, x) # <<>> /\ Child(d, x) \notin DOMAIN N
      /\ Len(Child(d, x)) = Len(d) + 1
  BY <1>1, ChildKey DEF Fresh, Child
<1>3. ASSUME NEW y \in new, Child(d, x) = Child(d, y) PROVE x = y
  <2>1. y.name \in AllNames
    BY DEF Fresh, NodeType
  <2>2. x.name = y.name
    <3> PICK a, b : a = x.name /\ b = y.name
      OBVIOUS
    <3> QED BY <1>1, <1>3, <2>1, SameChild DEF Child
  <2> QED BY <2>2 DEF Fresh
<1> QED BY <1>2, <1>3 DEF Made

LEMMA MadeCount ==
  ASSUME NEW N, Nodelike(N), NEW d \in DOMAIN N, Len(d) <= 2, NEW new, Fresh(N, d, new)
  PROVE  /\ IsFiniteSet(Made(d, new)) /\ Cardinality(Made(d, new)) = Cardinality(new)
         /\ Made(d, new) \subseteq Keys /\ Cardinality(new) \in Nat
         /\ Made(d, new) \cap DOMAIN N = {}
<1>1. IsFiniteSet(new)
  BY DEF Fresh
<1> DEFINE f == [x \in new |-> Child(d, x)]
<1>2. \A x, y \in new : f[x] = f[y] => x = y
  BY FreshChild
<1>3. f \in Bijection(new, Made(d, new))
  BY <1>2 DEF Bijection, Injection, Surjection, IsInjective, Made
<1>4. ExistsBijection(new, Made(d, new))
  <2> HIDE DEF f
  <2> QED BY <1>3 DEF ExistsBijection
<1>5. IsFiniteSet(Made(d, new)) /\ Cardinality(Made(d, new)) = Cardinality(new)
  BY <1>1, <1>4, FS_Bijection
<1>6. Cardinality(new) \in Nat
  BY <1>1, FS_CardinalityType
<1>7. \A x \in new : Child(d, x) \in Keys /\ Child(d, x) \notin DOMAIN N
  BY FreshChild
<1> QED BY <1>5, <1>6, <1>7 DEF Made

LEMMA AddFields ==
  ASSUME NEW q, IsFs(q), Nodelike(q.node), NEW d \in DOMAIN q.node, Len(d) <= 2, NEW new,
         Fresh(q.node, d, new)
  PROVE  LET r == addChildren(q, d, new)
         IN  /\ IsFs(r) /\ Beside(q, r) /\ r.dirs = q.dirs /\ r.used = q.used
             /\ r.opened = q.opened
             /\ Grafted(q.node, r.node, d, new, q.node[d].loaded, Cardinality(new))
<1> PICK N, c : N = q.node /\ c = Cardinality(new)
  OBVIOUS
<1> DEFINE made == Made(d, new)
           par == [N[d] EXCEPT !.kids = @ \cup made, !.ref = @ + c]
           at(k) == [(CHOOSE x \in new : Child(d, x) = k) EXCEPT !.parent = d]
           P == [k \in DOMAIN N \cup made |-> IF k \in made THEN at(k) ELSE IF k = d THEN par ELSE N[k]]
           r == [node |-> P, mount |-> q.mount, opened |-> q.opened, info |-> q.info,
                 mounted |-> q.mounted, used |-> q.used, dirs |-> q.dirs, hung |-> q.hung]
<1>1. addChildren(q, d, new) = r
  <2>1. addChildren(q, d, new) = [q EXCEPT !.node = P]
    BY DEF addChildren, Live, Made
  <2> HIDE DEF P
  <2> QED BY <2>1 DEF IsFs
<1>2. /\ made \subseteq Keys /\ made \cap DOMAIN N = {} /\ c \in Nat
  BY MadeCount
<1>3. ASSUME NEW x \in new
      PROVE  at(Child(d, x)) = [x EXCEPT !.parent = d] /\ at(Child(d, x)) \in NodeType
  <2>1. Child(d, x) \in made /\ \A y \in new : Child(d, x) = Child(d, y) => x = y
    BY FreshChild
  <2> PICK z : z = CHOOSE y \in new : Child(d, y) = Child(d, x)
    OBVIOUS
  <2>2. z \in new /\ Child(d, z) = Child(d, x)
    OBVIOUS
  <2>3. z = x
    BY <2>1, <2>2
  <2>4. at(Child(d, x)) = [x EXCEPT !.parent = d]
    BY <2>3
  <2>5. x \in NodeType /\ d \in Keys
    BY NodeFacts DEF Fresh
  <2>6. [x EXCEPT !.parent = d] \in NodeType
    BY <2>5 DEF NodeType
  <2> QED BY <2>4, <2>6
<1>4. par \in NodeType /\ SameEntry(par, N[d]) /\ par.opened = N[d].opened
      /\ par.loaded = N[d].loaded /\ par.kids = N[d].kids \cup made /\ par.ref = N[d].ref + c
  <2>1. N[d] \in NodeType
    BY NodeFacts
  <2>2. N[d].kids \cup made \in SUBSET Keys /\ N[d].ref + c \in Int
    BY <1>2, <2>1 DEF NodeType
  <2> PICK S, i : S = N[d].kids \cup made /\ i = N[d].ref + c
    OBVIOUS
  <2>3. par = [N[d] EXCEPT !.kids = S, !.ref = i]
    BY <2>1 DEF NodeType
  <2> HIDE DEF par, made
  <2>4. par \in NodeType
    BY <2>1, <2>2, <2>3 DEF NodeType
  <2>5. SameEntry(par, N[d]) /\ par.opened = N[d].opened /\ par.loaded = N[d].loaded
        /\ par.kids = S /\ par.ref = i
    BY <2>1, <2>3 DEF NodeType, SameEntry
  <2> QED BY <2>4, <2>5
<1> HIDE DEF par, at
<1>5. Grafted(N, P, d, new, N[d].loaded, c)
  <2>1. DOMAIN P = DOMAIN N \cup made
    OBVIOUS
  <2>2. ASSUME NEW k \in DOMAIN P PROVE P[k] \in NodeType
    <3>1. CASE k \in made
      <4>1. PICK x \in new : k = Child(d, x)
        BY <3>1 DEF Made
      <4> QED BY <1>3, <3>1, <4>1
    <3>2. CASE k \notin made
      BY <1>4, <2>2, <3>2, NodeFacts
    <3> QED BY <3>1, <3>2
  <2>3. P \in [DOMAIN P -> NodeType]
    BY <2>2
  <2>4. \A x \in new : P[Child(d, x)] = [x EXCEPT !.parent = d]
    BY <1>3, FreshChild
  <2>5. P[d] = par
    BY <1>2
  <2>6. \A k \in DOMAIN N : k # d => P[k] = N[k]
    BY <1>2
  <2> HIDE DEF P
  <2> QED BY <1>4, <2>1, <2>3, <2>4, <2>5, <2>6 DEF Grafted
<1>6. IsFs(r) /\ Beside(q, r) /\ r.dirs = q.dirs /\ r.used = q.used /\ r.opened = q.opened
      /\ r.node = P
  <2> HIDE DEF P
  <2> QED BY DEF IsFs, Beside
<1> HIDE DEF r, P
<1> QED BY <1>1, <1>5, <1>6

\* What the volumes, changed from D to E, say of new nodes under d.
Suits(N, D, E, d, new) ==
  /\ \A n \in DOMAIN N : GoneIn(N, E, n) <=> GoneIn(N, D, n)
  /\ \A n \in DOMAIN N : n # d /\ N[n].loaded /\ ~GoneIn(N, D, n) => Holds(N, E, n) = Holds(N, D, n)
  /\ \A x \in new : Child(d, x) # Card => EntryOf(x) \in Holds(N, E, d)
  /\ \A e \in Holds(N, E, d) :
       \/ N[d].loaded /\ e \in Holds(N, D, d)
       \/ \E x \in new : e = EntryOf(x)
  /\ N[d].loaded => Holds(N, D, d) \subseteq Holds(N, E, d)
  /\ \A x \in new : x.loaded => E[x.disk][x.loc] = {}
  /\ \A x \in new : x.kind = "dir" =>
       /\ \A m \in DOMAIN N : N[m].kind = "dir" /\ ~GoneIn(N, D, m) /\ N[m].disk = x.disk
                              => N[m].loc # x.loc
       /\ \A y \in new : y.kind = "dir" /\ y.loc = x.loc => x = y

LEMMA FreshDisk ==
  ASSUME NEW N, Nodelike(N), Placed(N), NEW d \in DOMAIN N, Len(d) <= 2, NEW new,
         Fresh(N, d, new), NEW x \in new, Child(d, x) # Card
  PROVE  x.disk = N[d].disk /\ (Volume(Child(d, x)) = "CF" => Card \in DOMAIN N)
<1>1. d \in Keys /\ x.name \in Names /\ x.name \in AllNames /\ x.name # CF_0
      /\ x.disk = Volume(Child(d, x)) /\ N[d].disk = Volume(d)
      /\ (Volume(d) = "CF" => Card \in DOMAIN N)
  BY NodeFacts, KeyFacts DEF Fresh, NodeType, Placed
<1>2. Volume(Child(d, x)) = Volume(d)
  <2>1. CASE d = <<>>
    BY <1>1, <2>1, ChildKey, KeyFacts DEF Child
  <2>2. CASE d # <<>>
    BY <1>1, <2>2, ChildKey DEF Child
  <2> QED BY <2>1, <2>2
<1> QED BY <1>1, <1>2

LEMMA GraftTree ==
  ASSUME NEW N, NEW P, NEW D, NEW E, Tree(N, D), NEW d \in DOMAIN N, Len(d) <= 2,
         N[d].kind = "dir", ~GoneIn(N, D, d), NEW new, NEW i, Fresh(N, d, new),
         Grafted(N, P, d, new, TRUE, i), DiskOK(E), Suits(N, D, E, d, new)
  PROVE  Tree(P, E)
<1>1. /\ Nodelike(N) /\ Linked(N) /\ Placed(N) /\ Mirrored(N, D) /\ Ghosts(N, D)
      /\ OneDir(N, D)
  BY DEF Tree
<1>2. /\ P \in [DOMAIN P -> NodeType] /\ DOMAIN P = DOMAIN N \cup Made(d, new)
      /\ \A k \in DOMAIN N : k # d => P[k] = N[k]
      /\ SameEntry(P[d], N[d]) /\ P[d].loaded = TRUE
      /\ P[d].kids = N[d].kids \cup Made(d, new)
  BY DEF Grafted
<1>3. ASSUME NEW x \in new
      PROVE  LET k == Child(d, x)
             IN  /\ P[k].name = x.name /\ P[k].kind = x.kind /\ P[k].parent = d
                 /\ P[k].kids = {} /\ P[k].loaded = x.loaded /\ P[k].loc = x.loc
                 /\ P[k].disk = x.disk /\ EntryOf(P[k]) = EntryOf(x)
                 /\ k \notin DOMAIN N /\ k # <<>> /\ k \in DOMAIN P /\ k \in Made(d, new)
  <2>1. P[Child(d, x)] = [x EXCEPT !.parent = d] /\ x \in NodeType /\ x.kids = {}
    BY DEF Grafted, Fresh
  <2> PICK y : y = P[Child(d, x)]
    OBVIOUS
  <2>2. y.name = x.name /\ y.kind = x.kind /\ y.parent = d /\ y.kids = {}
        /\ y.loaded = x.loaded /\ y.loc = x.loc /\ y.disk = x.disk
    BY <2>1 DEF NodeType
  <2>3. EntryOf(y) = EntryOf(x)
    BY <2>2, EntryEqual
  <2>4. /\ Child(d, x) \notin DOMAIN N /\ Child(d, x) # <<>> /\ Child(d, x) \in Made(d, new)
    BY <1>1, FreshChild
  <2> QED BY <1>2, <2>2, <2>3, <2>4
<1>4. ASSUME NEW k \in Made(d, new) PROVE \E x \in new : k = Child(d, x)
  BY DEF Made
<1>5. ASSUME NEW k \in DOMAIN N
      PROVE  SameEntry(P[k], N[k]) /\ EntryOf(P[k]) = EntryOf(N[k])
  <2>1. SameEntry(P[k], N[k])
    BY <1>2 DEF SameEntry
  <2> QED BY <2>1, EntryEqual DEF SameEntry
<1>6. ~N[d].loaded => N[d].kids = {}
  BY <1>1 DEF Linked
<1>7. ASSUME NEW k \in DOMAIN N PROVE GoneIn(P, E, k) <=> GoneIn(N, D, k)
  <2>1. N[k].loc # ROOT => N[k].parent \in DOMAIN N
    BY <1>1 DEF Linked, Placed
  <2>2. GoneIn(P, E, k) <=> GoneIn(N, E, k)
    BY <1>5, <2>1, GoneSame DEF SameEntry
  <2> QED BY <2>2 DEF Suits
<1>8. ASSUME NEW x \in new PROVE ~GoneIn(P, E, Child(d, x))
  <2>1. CASE Child(d, x) = Card
    BY <1>3, <2>1 DEF GoneIn, Fresh
  <2>2. CASE Child(d, x) # Card
    <3>1. x.disk = N[d].disk /\ EntryOf(x) \in Holds(N, E, d)
      BY <1>1, <2>2, FreshDisk DEF Suits
    <3>2. P[d].loc = N[d].loc
      BY <1>2 DEF SameEntry
    <3> QED BY <1>3, <3>1, <3>2 DEF GoneIn, Holds
  <2> QED BY <2>1, <2>2
<1>9. Nodelike(P)
  <2>1. IsFiniteSet(Made(d, new)) /\ Made(d, new) \subseteq Keys
    BY <1>1, MadeCount
  <2>2. IsFiniteSet(DOMAIN P)
    <3>1. IsFiniteSet(DOMAIN N)
      BY <1>1 DEF Nodelike
    <3>2. IsFiniteSet(DOMAIN N \cup Made(d, new))
      BY <2>1, <3>1, FS_Union
    <3> QED BY <1>2, <3>2
  <2> QED BY <1>1, <1>2, <2>1, <2>2 DEF Nodelike
<1>10. Linked(P)
  <2>1. <<>> \in DOMAIN P /\ P[<<>>].parent = NULL
    BY <1>1, <1>2, <1>5 DEF Linked, SameEntry
  <2>2. ASSUME NEW n \in DOMAIN P, n # <<>>
        PROVE  /\ P[n].parent \in DOMAIN P /\ n = Append(P[n].parent, P[n].name)
               /\ P[P[n].parent].kind = "dir" /\ P[P[n].parent].loaded
               /\ n \in P[P[n].parent].kids
    <3>1. CASE n \in DOMAIN N
      <4> PICK e : e = N[n].parent
        OBVIOUS
      <4>1. /\ e \in DOMAIN N /\ n = Append(e, N[n].name)
            /\ N[e].kind = "dir" /\ N[e].loaded /\ n \in N[e].kids
        BY <1>1, <2>2, <3>1 DEF Linked
      <4>2. P[n].parent = e /\ P[n].name = N[n].name /\ P[e].kind = "dir"
        BY <1>5, <3>1, <4>1 DEF SameEntry
      <4>3. P[e].loaded /\ n \in P[e].kids
        BY <1>2, <4>1
      <4> QED BY <1>2, <4>1, <4>2, <4>3
    <3>2. CASE n \notin DOMAIN N
      <4>1. PICK x \in new : n = Child(d, x)
        BY <1>2, <1>4, <2>2, <3>2
      <4>2. P[n].parent = d /\ P[n].name = x.name /\ n \in Made(d, new)
        BY <1>3, <4>1
      <4>3. P[d].kind = "dir" /\ P[d].loaded /\ n \in P[d].kids
        BY <1>2, <4>2 DEF SameEntry
      <4> QED BY <1>2, <4>1, <4>2, <4>3 DEF Child
    <3> QED BY <3>1, <3>2
  <2>3. ASSUME NEW n \in DOMAIN P, NEW k \in P[n].kids
        PROVE  k \in DOMAIN P /\ k # <<>> /\ P[k].parent = n
    <3>1. CASE n \in DOMAIN N /\ k \in N[n].kids
      <4>1. k \in DOMAIN N /\ k # <<>> /\ N[k].parent = n
        BY <1>1, <3>1 DEF Linked
      <4> QED BY <1>2, <1>5, <4>1 DEF SameEntry
    <3>2. CASE n = d /\ k \in Made(d, new)
      BY <1>3, <1>4, <3>2
    <3>3. CASE n \notin DOMAIN N
      BY <1>2, <1>3, <1>4, <3>3
    <3> QED BY <1>2, <3>1, <3>2, <3>3
  <2> QED BY <2>1, <2>2, <2>3 DEF Linked
<1>11. Placed(P)
  <2> SUFFICES ASSUME NEW n \in DOMAIN P
               PROVE  /\ P[n].disk = Volume(n) /\ (Volume(n) = "CF" => Card \in DOMAIN P)
                      /\ P[n].kind = "file" => P[n].loc = ROOT /\ ~P[n].loaded
                      /\ n \in {<<>>, Card} => P[n].kind = "dir" /\ P[n].loc = ROOT
                      /\ n \notin {<<>>, Card} => P[n].name \in Names
                                                  /\ (P[n].kind = "dir" => P[n].loc # ROOT)
                      /\ P[n].loaded => Len(n) <= 2
    BY DEF Placed
  <2>1. CASE n \in DOMAIN N /\ n # d
    BY <1>1, <1>2, <2>1 DEF Placed
  <2>2. CASE n = d
    BY <1>1, <1>2, <2>2 DEF Placed, SameEntry
  <2>3. CASE n \notin DOMAIN N
    <3>1. PICK x \in new : n = Child(d, x)
      BY <1>2, <1>4, <2>3
    <3>2. Volume(n) = "CF" => Card \in DOMAIN P
      BY <1>1, <1>2, <3>1, FreshDisk
    <3>3. x.loaded => Len(n) <= 2
      <4>1. Len(n) = Len(d) + 1 /\ Len(d) \in 0..3
        BY <1>1, <3>1, FreshChild, KeyLen, NodeFacts
      <4> QED BY <4>1 DEF Fresh
    <3> QED BY <1>3, <3>1, <3>2, <3>3 DEF Fresh
  <2> QED BY <2>1, <2>2, <2>3
<1>12. Mirrored(P, E)
  <2> SUFFICES ASSUME NEW n \in DOMAIN P, P[n].loaded, ~GoneIn(P, E, n)
               PROVE  /\ \A k \in P[n].kids : P[k].kind = "file" => EntryOf(P[k]) \in Holds(P, E, n)
                      /\ \A e \in Holds(P, E, n) : Child(n, e) \in DOMAIN P
                                                   /\ EntryOf(P[Child(n, e)]) = e
    BY DEF Mirrored
  <2>0. n \in DOMAIN N /\ N[n].loaded =>
          /\ \A k \in N[n].kids : P[k].kind = "file" => EntryOf(P[k]) \in Holds(N, D, n)
          /\ \A e \in Holds(N, D, n) : Child(n, e) \in DOMAIN P /\ EntryOf(P[Child(n, e)]) = e
    <3> HAVE n \in DOMAIN N /\ N[n].loaded
    <3>1. ~GoneIn(N, D, n) /\ N[n].kids \subseteq DOMAIN N
      BY <1>1, <1>7 DEF Linked
    <3>2. /\ \A k \in N[n].kids : N[k].kind = "file" => EntryOf(N[k]) \in Holds(N, D, n)
          /\ \A e \in Holds(N, D, n) : Child(n, e) \in DOMAIN N /\ EntryOf(N[Child(n, e)]) = e
      BY <1>1, <3>1 DEF Mirrored
    <3>3. \A k \in DOMAIN N : P[k].kind = N[k].kind /\ EntryOf(P[k]) = EntryOf(N[k]) /\ k \in DOMAIN P
      BY <1>2, <1>5 DEF SameEntry
    <3> QED BY <3>1, <3>2, <3>3
  <2>1. CASE n \in DOMAIN N /\ n # d
    <3>1. P[n] = N[n] /\ Holds(P, E, n) = Holds(N, D, n)
      BY <1>2, <1>7, <2>1 DEF Suits, Holds
    <3> QED BY <2>0, <2>1, <3>1
  <2>2. CASE n = d
    <3>1. Holds(P, E, d) = Holds(N, E, d)
      BY <1>2 DEF Holds, SameEntry
    <3>2. ASSUME NEW k \in P[n].kids, P[k].kind = "file"
          PROVE  EntryOf(P[k]) \in Holds(N, E, d)
      <4>1. CASE k \in N[d].kids
        BY <1>6, <2>0, <2>2, <3>2, <4>1 DEF Suits
      <4>2. CASE k \in Made(d, new)
        <5>1. PICK x \in new : k = Child(d, x)
          BY <1>4, <4>2
        <5>2. Child(d, x) # Card
          BY <1>3, <3>2, <5>1 DEF Fresh
        <5> QED BY <1>3, <5>1, <5>2 DEF Suits
      <4> QED BY <1>2, <2>2, <4>1, <4>2
    <3>3. ASSUME NEW e \in Holds(N, E, d)
          PROVE  Child(d, e) \in DOMAIN P /\ EntryOf(P[Child(d, e)]) = e
      <4>1. CASE N[d].loaded /\ e \in Holds(N, D, d)
        BY <2>0, <2>2, <4>1
      <4>2. CASE \E x \in new : e = EntryOf(x)
        <5>1. PICK x \in new : e = EntryOf(x)
          BY <4>2
        <5>2. Child(d, e) = Child(d, x)
          BY <5>1, EntryParts DEF Child
        <5> QED BY <1>3, <5>1, <5>2
      <4> QED BY <3>3, <4>1, <4>2 DEF Suits
    <3> QED BY <2>2, <3>1, <3>2, <3>3
  <2>3. CASE n \notin DOMAIN N
    <3>1. PICK x \in new : n = Child(d, x)
      BY <1>2, <1>4, <2>3
    <3>2. P[n].kids = {} /\ Holds(P, E, n) = {}
      BY <1>3, <3>1 DEF Suits, Holds
    <3> QED BY <3>2
  <2> QED BY <2>1, <2>2, <2>3
<1>13. Ghosts(P, E)
  <2> SUFFICES ASSUME NEW n \in DOMAIN P, GoneIn(P, E, n) PROVE P[n].loaded /\ P[n].kids = {}
    BY DEF Ghosts
  <2>1. n \in DOMAIN N
    BY <1>2, <1>4, <1>8
  <2>2. GoneIn(N, D, n)
    BY <1>7, <2>1
  <2> QED BY <1>1, <1>2, <2>1, <2>2 DEF Ghosts
<1>14. OneDir(P, E)
  <2> SUFFICES ASSUME NEW m \in DOMAIN P, NEW n \in DOMAIN P, P[m].kind = "dir", P[n].kind = "dir",
                      ~GoneIn(P, E, m), ~GoneIn(P, E, n), P[m].disk = P[n].disk,
                      P[m].loc = P[n].loc
               PROVE  m = n
    BY DEF OneDir
  <2>1. \A k \in DOMAIN N : P[k].kind = N[k].kind /\ P[k].disk = N[k].disk /\ P[k].loc = N[k].loc
    BY <1>5 DEF SameEntry
  <2>2. CASE m \in DOMAIN N /\ n \in DOMAIN N
    BY <1>1, <1>7, <2>1, <2>2 DEF OneDir
  <2>3. CASE m \in DOMAIN N /\ n \notin DOMAIN N
    <3>1. PICK x \in new : n = Child(d, x)
      BY <1>2, <1>4, <2>3
    <3> QED BY <1>3, <1>7, <2>1, <2>3, <3>1 DEF Suits
  <2>4. CASE m \notin DOMAIN N /\ n \in DOMAIN N
    <3>1. PICK x \in new : m = Child(d, x)
      BY <1>2, <1>4, <2>4
    <3> QED BY <1>3, <1>7, <2>1, <2>4, <3>1 DEF Suits
  <2>5. CASE m \notin DOMAIN N /\ n \notin DOMAIN N
    <3>1. PICK x \in new, y \in new : m = Child(d, x) /\ n = Child(d, y)
      BY <1>2, <1>4, <2>5
    <3> QED BY <1>3, <3>1 DEF Suits
  <2> QED BY <2>2, <2>3, <2>4, <2>5
<1> QED BY <1>9, <1>10, <1>11, <1>12, <1>13, <1>14 DEF Tree

\* What a directory refers to itself with, once it is loaded.
Dots(x) == IF x.loc # ROOT THEN 2 ELSE 0

LEMMA GraftCounted ==
  ASSUME NEW N, NEW P, Nodelike(N), Linked(N), Counted(N), NEW d \in DOMAIN N, Len(d) <= 2,
         NEW new, Fresh(N, d, new), \A x \in new : Exact(x), NEW i,
         i = Cardinality(new) + (IF N[d].loaded THEN 0 ELSE Dots(N[d])),
         Grafted(N, P, d, new, TRUE, i)
  PROVE  Counted(P)
<1> SUFFICES ASSUME NEW k \in DOMAIN P PROVE Exact(P[k])
  BY DEF Counted
<1>1. CASE k \in DOMAIN N /\ k # d
  BY <1>1 DEF Counted, Grafted
<1>2. CASE k = d
  <2>1. /\ IsFiniteSet(Made(d, new)) /\ Cardinality(Made(d, new)) = Cardinality(new)
        /\ Cardinality(new) \in Nat /\ Made(d, new) \cap DOMAIN N = {}
    BY MadeCount
  <2>2. /\ N[d].kids \subseteq DOMAIN N /\ IsFiniteSet(N[d].kids)
        /\ Cardinality(N[d].kids) \in Nat
    BY KidsCount
  <2>3. /\ P[d].loc = N[d].loc /\ P[d].opened = N[d].opened /\ P[d].loaded
        /\ P[d].kids = N[d].kids \cup Made(d, new) /\ P[d].ref = N[d].ref + i
    BY DEF Grafted, SameEntry
  <2>4. Cardinality(P[d].kids) = Cardinality(N[d].kids) + Cardinality(new)
    <3>1. N[d].kids \cap Made(d, new) = {}
      BY <2>1, <2>2
    <3>2. Cardinality(N[d].kids \cup Made(d, new))
            = Cardinality(N[d].kids) + Cardinality(Made(d, new)) - Cardinality(N[d].kids \cap Made(d, new))
      BY <2>1, <2>2, FS_Union
    <3>3. Cardinality(N[d].kids \cap Made(d, new)) = 0
      BY <3>1, FS_EmptySet
    <3> PICK a, b, c, e : /\ a = Cardinality(N[d].kids) /\ b = Cardinality(Made(d, new))
                          /\ c = Cardinality(N[d].kids \cup Made(d, new))
                          /\ e = Cardinality(N[d].kids \cap Made(d, new))
      OBVIOUS
    <3>4. c = a + b - e /\ e = 0 /\ a \in Nat /\ b \in Nat
      BY <2>1, <2>2, <3>2, <3>3
    <3>5. c = a + b
      BY <3>4
    <3> QED BY <2>1, <2>3, <3>5
  <2>5. N[d].ref = Cardinality(N[d].kids) + DotsOf(N[d]) + User(N[d])
    BY DEF Counted, Exact
  <2>6. User(P[d]) = User(N[d])
    BY <2>3 DEF User
  <2>7. DotsOf(P[d]) = DotsOf(N[d]) + (IF N[d].loaded THEN 0 ELSE Dots(N[d]))
    <3>1. DotsOf(P[d]) = Dots(N[d])
      BY <2>3 DEF DotsOf, Dots
    <3>2. DotsOf(N[d]) = IF N[d].loaded THEN Dots(N[d]) ELSE 0
      BY DEF DotsOf, Dots
    <3>3. Dots(N[d]) \in Int
      BY DEF Dots
    <3> QED BY <3>1, <3>2, <3>3
  <2> PICK a, b, c, e, j : /\ a = Cardinality(N[d].kids) /\ b = Cardinality(new)
                           /\ c = DotsOf(N[d]) /\ e = User(N[d])
                           /\ j = IF N[d].loaded THEN 0 ELSE Dots(N[d])
    OBVIOUS
  <2>8. a \in Int /\ b \in Int /\ c \in Int /\ e \in Int /\ j \in Int
    BY <2>1, <2>2 DEF DotsOf, User, Dots
  <2>9. P[d].ref = (a + b) + (c + j) + e
    <3>1. i = b + j /\ N[d].ref = a + c + e /\ P[d].ref = N[d].ref + i
      BY <2>3, <2>5
    <3> QED BY <2>8, <3>1
  <2> QED BY <1>2, <2>4, <2>6, <2>7, <2>9 DEF Exact
<1>3. CASE k \notin DOMAIN N
  <2>1. PICK x \in new : k = Child(d, x)
    BY <1>3 DEF Grafted, Made
  <2>2. P[k] = [x EXCEPT !.parent = d] /\ x \in NodeType /\ Exact(x)
    BY <2>1 DEF Grafted, Fresh
  <2> PICK y : y = P[k]
    OBVIOUS
  <2>3. y.ref = x.ref /\ y.kids = x.kids /\ y.loaded = x.loaded /\ y.loc = x.loc
        /\ y.opened = x.opened
    BY <2>2 DEF NodeType
  <2>4. DotsOf(y) = DotsOf(x) /\ User(y) = User(x)
    BY <2>3 DEF DotsOf, User
  <2> QED BY <2>2, <2>3, <2>4 DEF Exact
<1> QED BY <1>1, <1>2, <1>3

LEMMA GraftOpened ==
  ASSUME NEW N, NEW P, Nodelike(N), NEW d \in DOMAIN N, Len(d) <= 2,
         NEW new, Fresh(N, d, new), \A x \in new : ~x.opened, NEW l, NEW i,
         Grafted(N, P, d, new, l, i)
  PROVE  /\ Opened(P) = Opened(N) /\ OpenFiles(P) = OpenFiles(N)
         /\ \A v \in Disks : OpenOn(P, v) = OpenOn(N, v)
<1>1. DOMAIN P = DOMAIN N \cup Made(d, new)
  BY DEF Grafted
<1>2. ASSUME NEW k \in DOMAIN N
      PROVE  P[k].opened = N[k].opened /\ P[k].disk = N[k].disk /\ P[k].kind = N[k].kind
  BY DEF Grafted, SameEntry
<1>3. ASSUME NEW k \in DOMAIN P, k \notin DOMAIN N PROVE ~P[k].opened
  <2>1. PICK x \in new : k = Child(d, x)
    BY <1>1, <1>3 DEF Made
  <2>2. P[k] = [x EXCEPT !.parent = d] /\ x \in NodeType /\ ~x.opened
    BY <2>1 DEF Grafted, Fresh
  <2>3. P[k].opened = x.opened
    BY <2>2 DEF NodeType
  <2> QED BY <2>2, <2>3
<1>4. DOMAIN N \subseteq DOMAIN P
  BY <1>1
<1>5. ASSUME NEW k PROVE k \in DOMAIN P /\ P[k].opened <=> k \in DOMAIN N /\ N[k].opened
  BY <1>2, <1>3, <1>4
<1> QED BY <1>2, <1>5 DEF Opened, OpenFiles, OpenOn

LEMMA GraftGrows ==
  ASSUME NEW q, NEW r, NEW D, Tree(q.node, q.dirs), NEW d \in DOMAIN q.node, Len(d) <= 2,
         ~q.node[d].loaded, NEW new, Fresh(q.node, d, new),
         \A x \in new : ~GoneIn(r.node, r.dirs, Child(d, x)),
         NEW l, NEW i, Grafted(q.node, r.node, d, new, l, i), Beside(q, r), r.dirs = q.dirs
  PROVE  Grows(q, r)
<1>1. ASSUME NEW n \in DOMAIN q.node
      PROVE  /\ SameEntry(r.node[n], q.node[n])
             /\ q.node[n].loaded => r.node[n].loaded /\ r.node[n].kids = q.node[n].kids
  <2>1. CASE n = d
    BY <2>1 DEF Grafted
  <2>2. CASE n # d
    BY <2>2 DEF Grafted, SameEntry
  <2> QED BY <2>1, <2>2
<1>2. ASSUME NEW n \in DOMAIN r.node, n \notin DOMAIN q.node
      PROVE  ~GoneIn(r.node, r.dirs, n)
  BY <1>2 DEF Grafted, Made
<1>3. DOMAIN q.node \subseteq DOMAIN r.node
  BY DEF Grafted
<1> QED BY <1>1, <1>2, <1>3 DEF Grows

(***************************************************************************)
(* Loading a directory.                                                    *)
(***************************************************************************)
Loading(q, d) ==
  {NewNode(e.name, e.kind, e.at, q.node[d].disk) : e \in Holds(q.node, q.dirs, d)}

LEMMA LoadFields ==
  ASSUME NEW q, IsFs(q), Nodelike(q.node), NEW d \in DOMAIN q.node, Len(d) <= 2,
         ~q.node[d].loaded, Fresh(q.node, d, Loading(q, d))
  PROVE  LET r == loadDir(q, d)
         IN  /\ IsFs(r) /\ Beside(q, r) /\ r.dirs = q.dirs /\ r.used = q.used
             /\ r.opened = q.opened
             /\ Grafted(q.node, r.node, d, Loading(q, d), TRUE,
                        Cardinality(Loading(q, d)) + Dots(q.node[d]))
<1> PICK new, a : new = Loading(q, d) /\ a = addChildren(q, d, new)
  OBVIOUS
<1>1. /\ IsFs(a) /\ Beside(q, a) /\ a.dirs = q.dirs /\ a.used = q.used /\ a.opened = q.opened
      /\ Grafted(q.node, a.node, d, new, q.node[d].loaded, Cardinality(new))
  BY AddFields
<1>2. /\ a.node \in [DOMAIN a.node -> NodeType] /\ DOMAIN a.node = DOMAIN q.node \cup Made(d, new)
      /\ \A x \in new : a.node[Child(d, x)] = [x EXCEPT !.parent = d]
      /\ \A k \in DOMAIN q.node : k # d => a.node[k] = q.node[k]
      /\ SameEntry(a.node[d], q.node[d]) /\ a.node[d].opened = q.node[d].opened
      /\ a.node[d].kids = q.node[d].kids \cup Made(d, new)
      /\ a.node[d].ref = q.node[d].ref + Cardinality(new)
  BY <1>1 DEF Grafted
<1> DEFINE y == [a.node[d] EXCEPT !.loaded = TRUE]
           z == [y EXCEPT !.ref = @ + DotsOf(y)]
           P == [a.node EXCEPT ![d] = z]
           r == [node |-> P, mount |-> a.mount, opened |-> a.opened, info |-> a.info,
                 mounted |-> a.mounted, used |-> a.used, dirs |-> a.dirs, hung |-> a.hung]
<1>3. loadDir(q, d) = r
  <2> DEFINE b == [a EXCEPT !.node[d].loaded = TRUE]
  <2>1. loadDir(q, d) = [b EXCEPT !.node[d].ref = @ + DotsOf(b.node[d])]
    <3>1. Loading(q, d) = {NewNode(e.name, e.kind, e.at, q.node[d].disk) : e \in q.dirs[q.node[d].disk][q.node[d].loc]}
      BY DEF Loading, Holds
    <3> QED BY <3>1, Zenon DEF loadDir
  <2>2. b.node = [a.node EXCEPT ![d] = y] /\ b = [a EXCEPT !.node = [a.node EXCEPT ![d] = y]]
    BY <1>1 DEF IsFs
  <2>3. d \in DOMAIN a.node
    BY <1>2
  <2> HIDE DEF b, y
  <2>4. b.node[d] = y
    BY <2>2, <2>3
  <2>5. [b EXCEPT !.node[d].ref = @ + DotsOf(b.node[d])] = [b EXCEPT !.node = [b.node EXCEPT ![d] = z]]
    BY <2>4
  <2>6. [b.node EXCEPT ![d] = z] = P
    BY <2>2
  <2> HIDE DEF P, z
  <2>7. loadDir(q, d) = [a EXCEPT !.node = P]
    <3>1. loadDir(q, d) = [b EXCEPT !.node = P]
      BY <2>1, <2>5, <2>6
    <3> PICK Y : Y = [a.node EXCEPT ![d] = y]
      OBVIOUS
    <3>2. b = [a EXCEPT !.node = Y]
      BY <2>2
    <3>3. [b EXCEPT !.node = P] = [a EXCEPT !.node = P]
      BY <3>2, <1>1 DEF IsFs
    <3> QED BY <3>1, <3>3
  <2> QED BY <2>7, <1>1 DEF IsFs
<1>4. a.node[d] \in NodeType /\ d \in DOMAIN a.node
  BY <1>2
<1>5. y \in NodeType /\ SameEntry(y, a.node[d]) /\ y.opened = a.node[d].opened /\ y.loaded = TRUE
      /\ y.kids = a.node[d].kids /\ y.ref = a.node[d].ref
  <2> PICK x : x = a.node[d]
    OBVIOUS
  <2>1. y = [x EXCEPT !.loaded = TRUE] /\ x \in NodeType
    BY <1>4
  <2> HIDE DEF y
  <2> QED BY <2>1 DEF NodeType, SameEntry
<1>6. DotsOf(y) = Dots(q.node[d]) /\ Dots(q.node[d]) \in Int
  BY <1>2, <1>5 DEF DotsOf, Dots, SameEntry
<1>7. z \in NodeType /\ SameEntry(z, y) /\ z.opened = y.opened /\ z.loaded = TRUE
      /\ z.kids = y.kids /\ z.ref = y.ref + Dots(q.node[d])
  <2> HIDE DEF y
  <2> PICK j : j = y.ref + Dots(q.node[d])
    OBVIOUS
  <2>0. y.ref \in Int /\ j \in Int
    BY <1>5, <1>6 DEF NodeType
  <2>1. z = [y EXCEPT !.ref = j]
    BY <1>6
  <2> HIDE DEF z
  <2> QED BY <1>5, <2>0, <2>1 DEF NodeType, SameEntry
<1>8. Grafted(q.node, P, d, new, TRUE, Cardinality(new) + Dots(q.node[d]))
  <2> HIDE DEF z, y
  <2>1. P \in [DOMAIN P -> NodeType] /\ DOMAIN P = DOMAIN a.node /\ P[d] = z
        /\ \A k \in DOMAIN a.node : k # d => P[k] = a.node[k]
    BY <1>2, <1>4, <1>7
  <2> HIDE DEF P
  <2>2. \A x \in new : Child(d, x) \in DOMAIN a.node /\ Child(d, x) # d
    <3>1. \A x \in new : Child(d, x) \in Made(d, new) /\ Child(d, x) \notin DOMAIN q.node
      BY FreshChild
    <3> QED BY <1>2, <3>1
  <2>3. \A x \in new : P[Child(d, x)] = [x EXCEPT !.parent = d]
    BY <1>2, <2>1, <2>2
  <2>4. \A k \in DOMAIN q.node : k # d => P[k] = q.node[k]
    BY <1>2, <2>1
  <2>5. SameEntry(P[d], q.node[d])
    BY <1>2, <1>5, <1>7, <2>1 DEF SameEntry
  <2>6. P[d].ref = q.node[d].ref + (Cardinality(new) + Dots(q.node[d]))
    <3>1. q.node[d].ref \in Int /\ Cardinality(new) \in Nat
      BY NodeFacts, MadeCount
    <3>2. P[d].ref = (q.node[d].ref + Cardinality(new)) + Dots(q.node[d])
      BY <1>2, <1>5, <1>7, <2>1
    <3> PICK i, c, j : i = q.node[d].ref /\ c = Cardinality(new) /\ j = Dots(q.node[d])
      OBVIOUS
    <3> QED BY <1>6, <3>1, <3>2
  <2> QED BY <1>2, <1>5, <1>7, <2>1, <2>3, <2>4, <2>5, <2>6 DEF Grafted
<1>9. IsFs(r) /\ Beside(q, r) /\ r.dirs = q.dirs /\ r.used = q.used /\ r.opened = q.opened
      /\ r.node = P
  <2> HIDE DEF P
  <2> QED BY <1>1 DEF IsFs, Beside
<1> HIDE DEF r, P
<1> QED BY <1>3, <1>8, <1>9

LEMMA NewNodeFacts ==
  ASSUME NEW name \in AllNames, NEW kind \in Kinds, NEW loc \in Dirs, NEW disk \in Disks
  PROVE  LET x == NewNode(name, kind, loc, disk)
         IN  /\ x \in NodeType /\ x.name = name /\ x.kind = kind /\ x.loc = loc
             /\ x.disk = disk /\ x.kids = {} /\ x.ref = 0 /\ ~x.loaded /\ ~x.opened /\ Exact(x)
<1> PICK x : x = NewNode(name, kind, loc, disk)
  OBVIOUS
<1>1. /\ x \in NodeType /\ x.name = name /\ x.kind = kind /\ x.loc = loc
      /\ x.disk = disk /\ x.kids = {} /\ x.ref = 0 /\ ~x.loaded /\ ~x.opened
  BY DEF NewNode, NodeType
<1>2. DotsOf(x) = 0 /\ User(x) = 0 /\ Cardinality(x.kids) = 0
  BY <1>1, FS_EmptySet DEF DotsOf, User
<1>3. Exact(x)
  BY <1>1, <1>2 DEF Exact
<1> QED BY <1>1, <1>3

LEMMA EntryFacts ==
  ASSUME NEW D, DiskOK(D), NEW v \in Disks, NEW c \in Dirs, NEW e \in D[v][c]
  PROVE  /\ e \in Entries /\ e.name \in Names /\ e.name \in AllNames /\ e.kind \in Kinds
         /\ e.at \in Dirs /\ (e.kind = "file" <=> e.at = ROOT) /\ (e.kind = "dir" <=> e.at # ROOT)
         /\ e = [name |-> e.name, kind |-> e.kind, at |-> e.at]
<1>1. e \in Entries /\ (e.kind = "file" <=> e.at = ROOT)
  BY DEF DiskOK
<1>2. e.name \in Names /\ e.kind \in Kinds /\ e.at \in Dirs
      /\ e = [name |-> e.name, kind |-> e.kind, at |-> e.at]
  BY <1>1 DEF Entries
<1>3. e.kind = "file" \/ e.kind = "dir"
  BY <1>2 DEF Kinds
<1> QED BY <1>1, <1>2, <1>3, KeyFacts

\* The directory with this cluster has one parent: where its entry is.
LEMMA EntryPlace ==
  ASSUME NEW N, NEW D, Tree(N, D), NEW d \in DOMAIN N, N[d].kind = "dir", ~GoneIn(N, D, d),
         NEW e \in Holds(N, D, d), e.kind = "dir", NEW m \in DOMAIN N, N[m].kind = "dir",
         ~GoneIn(N, D, m), N[m].disk = N[d].disk, N[m].loc = e.at
  PROVE  N[d].loaded /\ N[m].parent = d
<1>1. /\ Nodelike(N) /\ Linked(N) /\ Placed(N) /\ Mirrored(N, D) /\ Ghosts(N, D)
      /\ OneDir(N, D) /\ DiskOK(D)
  BY DEF Tree
<1>2. N[d].disk \in Disks /\ N[d].loc \in Dirs
  BY <1>1, NodeFacts
<1>3. e.at # ROOT
  BY <1>1, <1>2, EntryFacts DEF Holds
<1>4. m # <<>>
  BY <1>1, <1>3 DEF Placed
<1> PICK p : p = N[m].parent
  OBVIOUS
<1>5. p \in DOMAIN N /\ N[p].kind = "dir" /\ N[p].loaded /\ m \in N[p].kids /\ N[p].loc \in Dirs
  BY <1>1, <1>4, ParentFacts, NodeFacts
<1>6. EntryOf(N[m]) \in D[N[m].disk][N[p].loc]
  BY <1>3 DEF GoneIn
<1>7. EntryOf(N[m]).kind = "dir" /\ EntryOf(N[m]).at = e.at
  BY EntryParts
<1>8. N[p].loc = N[d].loc
  BY <1>1, <1>2, <1>5, <1>6, <1>7 DEF DiskOK, Holds
<1>9. ~GoneIn(N, D, p)
  BY <1>1, <1>5 DEF Ghosts
<1>10. N[p].disk = N[m].disk
  <2>1. N[m].disk = Volume(m) /\ N[p].disk = Volume(p) /\ m \notin {<<>>, Card} /\ N[m].name \in Names
    BY <1>1, <1>3, <1>5 DEF Placed
  <2>2. m = Append(p, N[m].name) /\ p \in Keys /\ Len(p) <= 2
    BY <1>1, <1>4, <1>5, ParentFacts DEF Placed
  <2>3. Volume(m) = Volume(p)
    <3>1. N[m].name \in AllNames /\ N[m].name # CF_0
      BY <2>1, KeyFacts
    <3>2. CASE p = <<>>
      BY <2>2, <3>1, <3>2, ChildKey, KeyFacts
    <3>3. CASE p # <<>>
      BY <2>2, <3>1, <3>3, ChildKey
    <3> QED BY <3>2, <3>3
  <2> QED BY <2>1, <2>3
<1>11. p = d
  BY <1>1, <1>5, <1>8, <1>9, <1>10 DEF OneDir
<1> QED BY <1>5, <1>11

LEMMA LoadFresh ==
  ASSUME NEW q, Tree(q.node, q.dirs), NEW d \in DOMAIN q.node, Len(d) <= 2,
         ~q.node[d].loaded, q.node[d].kind = "dir", ~GoneIn(q.node, q.dirs, d)
  PROVE  /\ Fresh(q.node, d, Loading(q, d)) /\ Suits(q.node, q.dirs, q.dirs, d, Loading(q, d))
         /\ \A x \in Loading(q, d) : Exact(x) /\ ~x.opened /\ Child(d, x) # Card
<1> PICK N, D, new, v, c : /\ N = q.node /\ D = q.dirs /\ new = Loading(q, d)
                           /\ v = N[d].disk /\ c = N[d].loc
  OBVIOUS
<1>1. /\ Nodelike(N) /\ Linked(N) /\ Placed(N) /\ Mirrored(N, D) /\ Ghosts(N, D)
      /\ OneDir(N, D) /\ DiskOK(D)
  BY DEF Tree
<1>2. v \in Disks /\ c \in Dirs /\ d \in Keys /\ Holds(N, D, d) = D[v][c]
  BY <1>1, NodeFacts DEF Holds
<1> DEFINE nodeOf(e) == NewNode(e.name, e.kind, e.at, v)
<1>3. ASSUME NEW e \in D[v][c]
      PROVE  LET x == nodeOf(e)
             IN  /\ x \in NodeType /\ x.name = e.name /\ x.kind = e.kind /\ x.loc = e.at
                 /\ x.disk = v /\ x.kids = {} /\ ~x.loaded /\ ~x.opened /\ Exact(x)
                 /\ EntryOf(x) = e /\ x.name \in Names /\ x.name \in AllNames
                 /\ (x.kind = "file" <=> x.loc = ROOT) /\ (x.kind = "dir" <=> x.loc # ROOT)
  <2>1. /\ e.name \in Names /\ e.name \in AllNames /\ e.kind \in Kinds
        /\ e.at \in Dirs /\ (e.kind = "file" <=> e.at = ROOT) /\ (e.kind = "dir" <=> e.at # ROOT)
        /\ e = [name |-> e.name, kind |-> e.kind, at |-> e.at]
    BY <1>1, <1>2, EntryFacts
  <2>2. LET x == nodeOf(e)
        IN  /\ x \in NodeType /\ x.name = e.name /\ x.kind = e.kind /\ x.loc = e.at
            /\ x.disk = v /\ x.kids = {} /\ ~x.loaded /\ ~x.opened /\ Exact(x)
    BY <1>2, <2>1, NewNodeFacts
  <2> HIDE DEF nodeOf
  <2>3. EntryOf(nodeOf(e)) = e
    BY <2>1, <2>2 DEF EntryOf
  <2> QED BY <2>1, <2>2, <2>3
<1>4. new = {nodeOf(e) : e \in D[v][c]}
  BY <1>2 DEF Loading
<1>5. ASSUME NEW x \in new PROVE \E e \in D[v][c] : x = nodeOf(e)
  BY <1>4
<1> HIDE DEF nodeOf
<1>6. ASSUME NEW x \in new
      PROVE  /\ x \in NodeType /\ x.disk = v /\ x.kids = {} /\ ~x.loaded /\ ~x.opened /\ Exact(x)
             /\ EntryOf(x) \in D[v][c] /\ x.name \in Names /\ x.name \in AllNames
             /\ (x.kind = "file" <=> x.loc = ROOT) /\ (x.kind = "dir" <=> x.loc # ROOT)
  BY <1>3, <1>5
<1>7. ASSUME NEW x \in new
      PROVE  Child(d, x) \notin DOMAIN N /\ x.disk = Volume(Child(d, x)) /\ Child(d, x) # Card
  <2>1. x.name \in Names /\ x.name \in AllNames /\ x.name # CF_0 /\ v = Volume(d)
    BY <1>1, <1>6, KeyFacts DEF Placed
  <2>2. Child(d, x) \notin DOMAIN N
    BY <1>1, <2>1, KidOf DEF Child
  <2>3. Volume(Child(d, x)) = v /\ Child(d, x) # Card
    <3>1. CASE d = <<>>
      BY <1>2, <2>1, <3>1, ChildKey, KeyFacts DEF Child
    <3>2. CASE d # <<>>
      BY <1>2, <2>1, <3>2, ChildKey DEF Child
    <3> QED BY <3>1, <3>2
  <2> QED BY <1>6, <2>2, <2>3
<1>8. IsFiniteSet(new)
  <2>1. IsFiniteSet(D[v][c])
    BY <1>1, <1>2 DEF DiskOK
  <2> DEFINE f == [e \in D[v][c] |-> nodeOf(e)]
  <2>2. f \in Surjection(D[v][c], new)
    BY <1>4 DEF Surjection
  <2> HIDE DEF f
  <2> QED BY <2>1, <2>2, FS_Surjection
<1>9. \A x, y \in new : x.name = y.name => x = y
  <2> SUFFICES ASSUME NEW x \in new, NEW y \in new, x.name = y.name PROVE x = y
    OBVIOUS
  <2>1. PICK e \in D[v][c], f \in D[v][c] : x = nodeOf(e) /\ y = nodeOf(f)
    BY <1>5
  <2>2. e.name = f.name
    BY <1>3, <2>1
  <2>3. e = f
    BY <1>1, <1>2, <2>2 DEF DiskOK
  <2> QED BY <2>1, <2>3
<1>10. Fresh(N, d, new)
  BY <1>6, <1>7, <1>8, <1>9 DEF Fresh
<1>11. ASSUME NEW x \in new, x.kind = "dir"
       PROVE  /\ \A m \in DOMAIN N : N[m].kind = "dir" /\ ~GoneIn(N, D, m) /\ N[m].disk = x.disk
                                     => N[m].loc # x.loc
              /\ \A y \in new : y.kind = "dir" /\ y.loc = x.loc => x = y
  <2>1. PICK e \in D[v][c] : x = nodeOf(e)
    BY <1>5
  <2>2. e.kind = "dir" /\ e.at = x.loc
    BY <1>3, <1>11, <2>1
  <2>3. ASSUME NEW m \in DOMAIN N, N[m].kind = "dir", ~GoneIn(N, D, m), N[m].disk = x.disk
        PROVE  N[m].loc # x.loc
    <3>1. N[m].disk = N[d].disk /\ e \in Holds(N, D, d)
      BY <1>2, <1>6, <2>3
    <3> QED BY <2>2, <2>3, <3>1, EntryPlace
  <2>4. ASSUME NEW y \in new, y.kind = "dir", y.loc = x.loc PROVE x = y
    <3>1. PICK f \in D[v][c] : y = nodeOf(f)
      BY <1>5
    <3>2. f.kind = "dir" /\ f.at = e.at
      BY <1>3, <2>2, <2>4, <3>1
    <3>3. e = f
      BY <1>1, <1>2, <2>2, <3>2 DEF DiskOK
    <3> QED BY <2>1, <3>1, <3>3
  <2> QED BY <2>3, <2>4
<1>12. ASSUME NEW e \in Holds(N, D, d) PROVE \E x \in new : e = EntryOf(x)
  <2>1. e \in D[v][c]
    BY <1>2
  <2>2. nodeOf(e) \in new
    BY ONLY <1>4, <2>1
  <2>3. EntryOf(nodeOf(e)) = e
    BY ONLY <1>3, <2>1
  <2> QED BY ONLY <2>2, <2>3
<1>13. Suits(N, D, D, d, new)
  <2>1. \A x \in new : EntryOf(x) \in Holds(N, D, d) /\ ~x.loaded
    BY <1>2, <1>6
  <2>2. ~N[d].loaded
    OBVIOUS
  <2> QED BY ONLY <1>11, <1>12, <2>1, <2>2 DEF Suits
<1> QED BY <1>6, <1>7, <1>10, <1>13

LEMMA LoadGood ==
  ASSUME NEW q, Good(q), NEW d \in DOMAIN q.node, Len(d) <= 2, q.node[d].kind = "dir",
         ~GoneIn(q.node, q.dirs, d)
  PROVE  LET r == loadDir(q, d)
         IN  /\ Good(r) /\ Grows(q, r) /\ Opened(r.node) = Opened(q.node) /\ r.used = q.used
             /\ d \in DOMAIN r.node /\ r.node[d].loaded
<1> PICK r : r = loadDir(q, d)
  OBVIOUS
<1>0. /\ IsFs(q) /\ q.hung = FALSE /\ Tree(q.node, q.dirs) /\ Counted(q.node) /\ Listed(q)
      /\ Volumes(q) /\ Nodelike(q.node) /\ Linked(q.node) /\ DiskOK(q.dirs)
  BY DEF Good, Tree
<1>1. CASE q.node[d].loaded
  <2>1. r = q
    BY <1>1, Zenon DEF loadDir
  <2>2. Grows(q, q)
    BY DEF Grows, Beside, SameEntry
  <2> QED BY <1>1, <2>1, <2>2, Zenon
<1>2. CASE ~q.node[d].loaded
  <2> PICK new, i : new = Loading(q, d) /\ i = Cardinality(new) + Dots(q.node[d])
    OBVIOUS
  <2>1. /\ Fresh(q.node, d, new) /\ Suits(q.node, q.dirs, q.dirs, d, new)
        /\ \A x \in new : Exact(x) /\ ~x.opened /\ Child(d, x) # Card
    BY <1>0, <1>2, LoadFresh
  <2>2. /\ IsFs(r) /\ Beside(q, r) /\ r.dirs = q.dirs /\ r.used = q.used
        /\ r.opened = q.opened /\ Grafted(q.node, r.node, d, new, TRUE, i)
    BY <1>0, <1>2, <2>1, LoadFields
  <2>3. Tree(r.node, r.dirs)
    BY <1>0, <2>1, <2>2, GraftTree
  <2>4. Counted(r.node)
    <3>1. i = Cardinality(new) + (IF q.node[d].loaded THEN 0 ELSE Dots(q.node[d]))
      BY <1>2
    <3> QED BY <1>0, <2>1, <2>2, <3>1, GraftCounted
  <2>5. /\ Opened(r.node) = Opened(q.node) /\ OpenFiles(r.node) = OpenFiles(q.node)
        /\ \A v \in Disks : OpenOn(r.node, v) = OpenOn(q.node, v)
    BY <1>0, <2>1, <2>2, GraftOpened
  <2>6. Listed(r)
    BY <1>0, <2>2, <2>5 DEF Listed
  <2>7. DOMAIN r.node = DOMAIN q.node \cup Made(d, new) /\ r.node[d].loaded
    BY <2>2 DEF Grafted
  <2>8. Volumes(r) /\ r.hung = FALSE
    <3>1. Card \in DOMAIN q.node <=> Card \in DOMAIN r.node
      BY <2>1, <2>7 DEF Made
    <3> QED BY <1>0, <2>2, <3>1, VolumesStay DEF Beside
  <2>9. Good(r)
    BY <2>2, <2>3, <2>4, <2>6, <2>8 DEF Good
  <2>10. \A x \in new : ~GoneIn(r.node, r.dirs, Child(d, x))
    <3> SUFFICES ASSUME NEW x \in new PROVE ~GoneIn(r.node, r.dirs, Child(d, x))
      OBVIOUS
    <3>1. /\ EntryOf(x) \in Holds(q.node, q.dirs, d) /\ x.disk = q.node[d].disk
      BY <1>0, <2>1, FreshDisk DEF Suits, Tree
    <3>2. r.node[Child(d, x)] = [x EXCEPT !.parent = d] /\ x \in NodeType
      BY <2>1, <2>2 DEF Grafted, Fresh
    <3> PICK y : y = r.node[Child(d, x)]
      OBVIOUS
    <3>3. y.parent = d /\ y.name = x.name /\ y.kind = x.kind /\ y.loc = x.loc /\ y.disk = x.disk
      BY <3>2 DEF NodeType
    <3>4. EntryOf(y) = EntryOf(x)
      BY <3>3, EntryEqual
    <3>5. r.node[d].loc = q.node[d].loc
      BY <2>2 DEF Grafted, SameEntry
    <3> QED BY <2>2, <3>1, <3>3, <3>4, <3>5 DEF GoneIn, Holds
  <2>11. Grows(q, r)
    BY <1>0, <1>2, <2>1, <2>2, <2>10, GraftGrows
  <2> QED BY <2>2, <2>5, <2>7, <2>9, <2>11
<1> QED BY <1>1, <1>2

(***************************************************************************)
(* Looking up a path: each step loads a directory and goes to a child.     *)
(***************************************************************************)
LEMMA DirLoaded ==
  ASSUME NEW q, Good(q), NEW d \in DOMAIN q.node, Len(d) <= 2, q.node[d].kind = "dir"
  PROVE  LET r == loadDir(q, d)
         IN  /\ Good(r) /\ Grows(q, r) /\ Opened(r.node) = Opened(q.node) /\ r.used = q.used
             /\ d \in DOMAIN r.node /\ r.node[d].loaded
<1>1. CASE ~GoneIn(q.node, q.dirs, d)
  BY <1>1, LoadGood
<1>2. CASE GoneIn(q.node, q.dirs, d)
  <2>1. q.node[d].loaded
    BY <1>2 DEF Good, Tree, Ghosts
  <2>2. loadDir(q, d) = q
    BY <2>1 DEF loadDir
  <2>3. Grows(q, q)
    BY DEF Grows, Beside, SameEntry
  <2> QED BY <2>1, <2>2, <2>3
<1> QED BY <1>1, <1>2

LEMMA NamedIs ==
  ASSUME NEW q, Nodelike(q.node), Linked(q.node), NEW d \in DOMAIN q.node, NEW c \in AllNames
  PROVE  Named(q, d, c) = IF Append(d, c) \in DOMAIN q.node THEN {Append(d, c)} ELSE {}
<1> PICK N : N = q.node
  OBVIOUS
<1>1. ASSUME NEW n \in N[d].kids, N[n].name = c PROVE n = Append(d, c) /\ n \in DOMAIN N
  <2>1. n \in DOMAIN N /\ n # <<>> /\ N[n].parent = d
    BY DEF Linked
  <2> QED BY <1>1, <2>1 DEF Linked
<1>2. ASSUME Append(d, c) \in DOMAIN N
      PROVE  Append(d, c) \in N[d].kids /\ N[Append(d, c)].name = c
  BY <1>2, KidOf
<1>3. Named(q, d, c) = {n \in N[d].kids : N[n].name = c}
  BY DEF Named
<1> QED BY <1>1, <1>2, <1>3

LookDown(path, r, a, i) ==
  LET found == Named(a, r.n, path[i])
      n == CHOOSE k \in found : TRUE
  IN  IF found = {} THEN [r EXCEPT !.q = a]
      ELSE IF i < Len(path) /\ a.node[n].kind = "file" THEN [r EXCEPT !.q = a, !.bad = TRUE]
      ELSE [r EXCEPT !.q = a, !.n = n, !.left = @ - 1]
LookStep(path, r, i) ==
  IF r.bad \/ r.left # Len(path) - i + 1 THEN r ELSE LookDown(path, r, loadDir(r.q, r.n), i)

LookStart(q, path) == [q |-> q, n |-> q.mount["HD"], left |-> Len(path), bad |-> FALSE]

\* r is at node n of q with left names to go; b when n is a file and may not be.
IsLook(r) == DOMAIN r = {"q", "n", "left", "bad"}
At(r, q, n, left)    == IsLook(r) /\ r.q = q /\ r.n = n /\ r.left = left /\ ~r.bad
Stuck(r, q, n, left) == IsLook(r) /\ r.q = q /\ r.n = n /\ r.left = left /\ r.bad

LEMMA LookupUnrolled ==
  ASSUME NEW q, NEW path, NEW L \in 0..2, Len(path) = L
  PROVE  lookup(q, path) =
           LET s0 == LookStart(q, path)
               s1 == LookStep(path, s0, 1)
           IN  IF L = 0 THEN s0 ELSE IF L = 1 THEN s1 ELSE LookStep(path, s1, 2)
<1> DEFINE s0 == LookStart(q, path)
           s1 == LookStep(path, s0, 1)
           s2 == LookStep(path, s1, 2)
           Turn(f, i) == IF i = 0 THEN s0 ELSE LookStep(path, f[i - 1], i)
           w == [i \in 0..L |-> IF i = 0 THEN s0 ELSE IF i = 1 THEN s1 ELSE s2]
           at == CHOOSE f : f = [i \in 0..L |-> Turn(f, i)]
<1>1. lookup(q, path) = at[L]
  BY DEF lookup, LookStep, LookDown, LookStart
<1> HIDE DEF s0, s1, s2
<1>2. w = [i \in 0..L |-> Turn(w, i)]
  <2> SUFFICES ASSUME NEW i \in 0..L PROVE w[i] = Turn(w, i)
    BY Zenon
  <2>1. i = 0 \/ i = 1 \/ i = 2
    OBVIOUS
  <2>2. i = 1 => w[i - 1] = s0 /\ w[i] = s1
    OBVIOUS
  <2>3. i = 2 => w[i - 1] = s1 /\ w[i] = s2
    OBVIOUS
  <2>4. i = 0 => w[i] = s0
    OBVIOUS
  <2> HIDE DEF w
  <2> QED BY <2>1, <2>2, <2>3, <2>4 DEF s1, s2
<1>3. at = [i \in 0..L |-> Turn(at, i)]
  <2> HIDE DEF w, Turn
  <2> QED BY <1>2
<1> HIDE DEF at
<1>4. at[0] = s0
  BY <1>3
<1>5. L >= 1 => at[1] = s1
  <2> HAVE L >= 1
  <2>1. 1 \in 0..L /\ 1 - 1 = 0
    OBVIOUS
  <2>2. at[1] = Turn(at, 1)
    <3> HIDE DEF Turn
    <3> QED BY <1>3, <2>1
  <2> QED BY <1>4, <2>1, <2>2 DEF s1
<1>6. L = 2 => at[2] = s2
  <2> HAVE L = 2
  <2>1. 2 \in 0..L /\ 2 - 1 = 1
    OBVIOUS
  <2>2. at[2] = Turn(at, 2)
    <3> HIDE DEF Turn
    <3> QED BY <1>3, <2>1
  <2> QED BY <1>5, <2>1, <2>2 DEF s2
<1>7. L = 0 \/ L = 1 \/ L = 2
  OBVIOUS
<1> QED BY <1>1, <1>4, <1>5, <1>6, <1>7 DEF s0, s1, s2

LEMMA LookupShort ==
  ASSUME NEW q, NEW path, Len(path) = 0
  PROVE  lookup(q, path) = LookStart(q, path)
BY LookupUnrolled

LEMMA LookupOne ==
  ASSUME NEW q, NEW path, Len(path) = 1
  PROVE  lookup(q, path) = LookStep(path, LookStart(q, path), 1)
BY LookupUnrolled

LEMMA LookupTwo ==
  ASSUME NEW q, NEW path, Len(path) = 2
  PROVE  lookup(q, path) = LookStep(path, LookStep(path, LookStart(q, path), 1), 2)
<1>1. 2 \in 0..2
  OBVIOUS
<1> QED BY <1>1, LookupUnrolled

LEMMA StartAt ==
  ASSUME NEW q, NEW path
  PROVE  At(LookStart(q, path), q, q.mount["HD"], Len(path))
BY DEF At, IsLook, LookStart

\* r is at the directory d of b and c is the next name of the path, with m to go
\* after it; s is what the step from r gives.
Ready(b, d, path, i, c, l, m, r) ==
  /\ Good(b) /\ d \in DOMAIN b.node /\ b.node[d].kind = "dir" /\ Len(d) <= 2
  /\ c \in AllNames /\ path[i] = c /\ l = Len(path) - i + 1 /\ m = l - 1 /\ At(r, b, d, l)
Stepped(b, d, path, i, c, l, m, s) ==
  LET a == loadDir(b, d)
      n == Append(d, c)
  IN  \/ n \notin DOMAIN a.node /\ At(s, a, d, l)
      \/ i < Len(path) /\ n \in DOMAIN a.node /\ a.node[n].kind = "file" /\ Stuck(s, a, d, l)
      \/ n \in DOMAIN a.node /\ (i < Len(path) => a.node[n].kind = "dir") /\ At(s, a, n, m)

LEMMA StepTaken ==
  ASSUME NEW b, NEW d, NEW path, NEW i, NEW c, NEW l, NEW m, NEW r,
         Ready(b, d, path, i, c, l, m, r)
  PROVE  Stepped(b, d, path, i, c, l, m, LookStep(path, r, i))
<1>0. /\ Good(b) /\ d \in DOMAIN b.node /\ b.node[d].kind = "dir" /\ Len(d) <= 2
      /\ c \in AllNames /\ path[i] = c /\ l = Len(path) - i + 1 /\ m = l - 1 /\ At(r, b, d, l)
  BY DEF Ready
<1> PICK a, n, s : a = loadDir(b, d) /\ n = Append(d, c) /\ s = LookStep(path, r, i)
  OBVIOUS
<1>1. Good(a) /\ Nodelike(a.node) /\ Linked(a.node) /\ d \in DOMAIN a.node
  BY <1>0, DirLoaded DEF Good, Tree
<1>2. r.q = b /\ r.n = d /\ r.left = l /\ ~r.bad
  BY <1>0 DEF At
<1>3. s = LookDown(path, r, a, i)
  BY <1>0, <1>2 DEF LookStep
<1>4. Named(a, d, c) = IF n \in DOMAIN a.node THEN {n} ELSE {}
  BY <1>0, <1>1, NamedIs
<1>5. CASE n \notin DOMAIN a.node
  <2>1. s = [r EXCEPT !.q = a]
    BY <1>0, <1>2, <1>3, <1>4, <1>5 DEF LookDown
  <2>2. At(s, a, d, l)
    BY <1>0, <2>1 DEF At, IsLook
  <2> QED BY <1>5, <2>2 DEF Stepped
<1>6. CASE n \in DOMAIN a.node
  <2>1. Named(a, d, c) = {n} /\ (CHOOSE k \in {n} : TRUE) = n
    BY <1>4, <1>6
  <2>2. a.node[n].kind \in Kinds
    BY <1>1, <1>6, NodeFacts
  <2>3. s = IF i < Len(path) /\ a.node[n].kind = "file" THEN [r EXCEPT !.q = a, !.bad = TRUE]
            ELSE [r EXCEPT !.q = a, !.n = n, !.left = @ - 1]
    BY <1>0, <1>2, <1>3, <2>1 DEF LookDown
  <2>4. CASE i < Len(path) /\ a.node[n].kind = "file"
    <3>1. s = [r EXCEPT !.q = a, !.bad = TRUE]
      BY <2>3, <2>4
    <3>2. Stuck(s, a, d, l)
      BY <1>0, <3>1 DEF At, Stuck, IsLook
    <3> QED BY <1>6, <2>4, <3>2 DEF Stepped
  <2>5. CASE ~(i < Len(path) /\ a.node[n].kind = "file")
    <3>1. s = [r EXCEPT !.q = a, !.n = n, !.left = @ - 1]
      BY <2>3, <2>5
    <3>2. At(s, a, n, m)
      BY <1>0, <3>1 DEF At, IsLook
    <3>3. i < Len(path) => a.node[n].kind = "dir"
      BY <2>2, <2>5 DEF Kinds
    <3> QED BY <1>6, <3>2, <3>3 DEF Stepped
  <2> QED BY <2>4, <2>5
<1> QED BY <1>5, <1>6 DEF Stepped

(***************************************************************************)
(* Where a path leads.                                                     *)
(***************************************************************************)
LEMMA PrefixThere ==
  ASSUME NEW N, Nodelike(N), Linked(N), NEW d \in Keys, NEW c \in AllNames,
         Append(d, c) \in DOMAIN N
  PROVE  d \in DOMAIN N /\ N[d].kind = "dir" /\ N[d].loaded
<1> DEFINE k == Append(d, c)
<1>1. k # <<>> /\ k \in DOMAIN N
  BY KeyLen, AppendParts
<1>2. /\ N[k].parent \in DOMAIN N /\ k = Append(N[k].parent, N[k].name)
      /\ N[N[k].parent].kind = "dir" /\ N[N[k].parent].loaded
      /\ N[k].parent \in Keys /\ N[k].name \in AllNames
  BY <1>1, ParentFacts
<1>3. N[k].parent = d
  <2> HIDE DEF k
  <2> PICK e, b : e = N[k].parent /\ b = N[k].name
    OBVIOUS
  <2>1. Append(d, c) = Append(e, b) /\ e \in Keys /\ b \in AllNames
    BY <1>2 DEF k
  <2> QED BY <2>1, SameChild
<1> QED BY <1>2, <1>3

LEMMA OneName ==
  ASSUME NEW a \in AllNames
  PROVE  /\ <<a>> \in Keys /\ Len(<<a>>) = 1 /\ <<a>>[1] = a /\ <<a>> = Append(<<>>, a)
         /\ SubSeq(<<a>>, 1, 0) = <<>>
<1>1. <<a>> \in Seq(AllNames) /\ Len(<<a>>) = 1 /\ <<a>>[1] = a /\ <<a>> = Append(<<>>, a)
  OBVIOUS
<1>2. SubSeq(<<a>>, 1, 0) = <<>>
  OBVIOUS
<1> QED BY <1>1, <1>2 DEF Keys

LEMMA TwoNames ==
  ASSUME NEW a \in AllNames, NEW b \in AllNames
  PROVE  /\ <<a, b>> \in Keys /\ Len(<<a, b>>) = 2 /\ <<a, b>>[1] = a /\ <<a, b>>[2] = b
         /\ <<a, b>> = Append(<<a>>, b) /\ SubSeq(<<a, b>>, 1, 1) = <<a>>
         /\ SubSeq(<<a, b>>, 1, 2) = <<a, b>>
<1>1. <<a, b>> \in Seq(AllNames) /\ Len(<<a, b>>) = 2 /\ <<a, b>>[1] = a /\ <<a, b>>[2] = b
      /\ <<a, b>> = Append(<<a>>, b)
  OBVIOUS
<1> PICK s, t : s = <<a, b>> /\ t = <<a>>
  OBVIOUS
<1>0. s \in Seq(AllNames) /\ Len(s) = 2 /\ s[1] = a /\ t \in Seq(AllNames) /\ Len(t) = 1 /\ t[1] = a
  OBVIOUS
<1>2. SubSeq(s, 1, 1) = t
  <2>1. /\ SubSeq(s, 1, 1) \in Seq(AllNames) /\ Len(SubSeq(s, 1, 1)) = 1
        /\ \A i \in 1..1 : SubSeq(s, 1, 1)[i] = s[i]
    BY <1>0, SubSeqProperties
  <2>2. \A i \in 1..1 : SubSeq(s, 1, 1)[i] = t[i]
    BY <1>0, <2>1
  <2> QED BY <1>0, <2>1, <2>2, SeqEqual
<1>3. SubSeq(s, 1, 2) = s
  <2>1. /\ SubSeq(s, 1, 2) \in Seq(AllNames) /\ Len(SubSeq(s, 1, 2)) = 2
        /\ \A i \in 1..2 : SubSeq(s, 1, 2)[i] = s[i]
    BY <1>0, SubSeqProperties
  <2> QED BY <1>0, <2>1, SeqEqual
<1> QED BY <1>1, <1>2, <1>3 DEF Keys

\* The path of a call is none, one or two names; its front is the directory
\* that the last name is in.
Front(path) == SubSeq(path, 1, Len(path) - 1)
Last(path)  == path[Len(path)]

LEMMA PathShape ==
  ASSUME NEW path \in Paths
  PROVE  \/ path = <<>>
         \/ \E a \in AllNames : path = <<a>>
         \/ \E a \in AllNames, b \in Names : path = <<a, b>>
BY DEF Paths, AllNames

LEMMA PathLen ==
  ASSUME NEW path \in Paths
  PROVE  Len(path) \in 0..2
<1>1. CASE path = <<>>
  BY <1>1
<1>2. ASSUME NEW a \in AllNames, path = <<a>> PROVE Len(path) \in 0..2
  BY <1>2, OneName
<1>3. ASSUME NEW a \in AllNames, NEW b \in Names, path = <<a, b>> PROVE Len(path) \in 0..2
  BY <1>3, TwoNames, KeyFacts
<1> QED BY <1>1, <1>2, <1>3, PathShape

\* A step of the path fails, and loading directories does not help it.
Missing(q, path) ==
  \E d \in DOMAIN q.node, c \in AllNames :
    /\ q.node[d].loaded \/ q.node[d].kind = "file"
    /\ Append(d, c) \notin DOMAIN q.node
    /\ path = Append(d, c) \/ \E b \in AllNames : path = Append(Append(d, c), b)

\* r is what a look-up of path in q gives.
Reached(q, path, r) ==
  /\ Good(r.q) /\ Grows(q, r.q) /\ Opened(r.q.node) = Opened(q.node) /\ r.q.used = q.used
  /\ r.n \in DOMAIN r.q.node /\ r.left \in 0..Len(path)
  /\ r.left = 0 <=> path \in DOMAIN r.q.node
  /\ r.left = 0 => r.n = path /\ ~r.bad
  /\ r.left # 0 => Missing(r.q, path)
  /\ r.left = 1 /\ ~r.bad =>
       /\ r.q.node[r.n].kind = "dir" /\ r.q.node[r.n].loaded /\ Len(r.n) <= 1
       /\ path = Append(r.n, Last(path)) /\ r.n = Front(path) /\ Last(path) \in AllNames

LEMMA GrowsSelf ==
  ASSUME NEW q
  PROVE  Grows(q, q)
BY DEF Grows, Beside, SameEntry

LEMMA RootThere ==
  ASSUME NEW q, Good(q)
  PROVE  /\ <<>> \in DOMAIN q.node /\ q.node[<<>>].kind = "dir" /\ q.mount["HD"] = <<>>
         /\ Nodelike(q.node) /\ Linked(q.node) /\ Placed(q.node)
BY DEF Good, Tree, Linked, Placed, Volumes

LEMMA LookupReaches ==
  ASSUME NEW q, Good(q), NEW path \in Paths
  PROVE  Reached(q, path, lookup(q, path))
<1> PICK s0 : s0 = LookStart(q, path)
  OBVIOUS
<1>0. At(s0, q, <<>>, Len(path)) /\ <<>> \in DOMAIN q.node /\ q.node[<<>>].kind = "dir"
  <2>1. At(s0, q, q.mount["HD"], Len(path))
    BY StartAt
  <2> QED BY <2>1, RootThere
<1>e. Len(<<>>) = 0
  OBVIOUS
<1>1. CASE path = <<>>
  <2>1. Len(path) = 0
    BY <1>1, <1>e
  <2>2. lookup(q, path) = s0
    BY <2>1, LookupShort
  <2>3. s0.q = q /\ s0.n = <<>> /\ s0.left = 0 /\ ~s0.bad
    BY <1>0, <2>1 DEF At
  <2> QED BY <1>0, <1>1, <2>1, <2>2, <2>3, GrowsSelf DEF Reached
<1>2. ASSUME NEW a \in AllNames, path = <<a>> PROVE Reached(q, path, lookup(q, path))
  <2>1. Len(path) = 1 /\ path[1] = a /\ path = Append(<<>>, a) /\ Front(path) = <<>> /\ Last(path) = a
    BY <1>2, OneName DEF Front, Last
  <2> PICK b, s : b = loadDir(q, <<>>) /\ s = LookStep(path, s0, 1)
    OBVIOUS
  <2>2. lookup(q, path) = s
    BY <2>1, LookupOne
  <2>3. /\ Good(b) /\ Grows(q, b) /\ Opened(b.node) = Opened(q.node) /\ b.used = q.used
        /\ <<>> \in DOMAIN b.node /\ b.node[<<>>].loaded
    BY <1>0, <1>e, DirLoaded
  <2>4. b.node[<<>>].kind = "dir"
    BY <2>3, RootThere
  <2>5. \/ path \notin DOMAIN b.node /\ At(s, b, <<>>, 1)
        \/ path \in DOMAIN b.node /\ At(s, b, path, 0)
    <3>1. Ready(q, <<>>, path, 1, a, 1, 0, s0)
      BY <1>0, <1>e, <2>1 DEF Ready
    <3>2. Stepped(q, <<>>, path, 1, a, 1, 0, s)
      BY <3>1, StepTaken
    <3>3. ~(1 < Len(path))
      BY <2>1
    <3> QED BY <2>1, <3>2, <3>3 DEF Stepped
  <2>6. CASE path \notin DOMAIN b.node /\ At(s, b, <<>>, 1)
    <3>1. s.q = b /\ s.n = <<>> /\ s.left = 1 /\ ~s.bad
      BY <2>6 DEF At
    <3>2. Missing(b, path)
      BY <2>1, <2>3, <2>6 DEF Missing
    <3> QED BY <1>e, <2>1, <2>2, <2>3, <2>4, <2>6, <3>1, <3>2 DEF Reached
  <2>7. CASE path \in DOMAIN b.node /\ At(s, b, path, 0)
    <3>1. s.q = b /\ s.n = path /\ s.left = 0 /\ ~s.bad
      BY <2>7 DEF At
    <3> QED BY <2>1, <2>2, <2>3, <2>7, <3>1 DEF Reached
  <2> QED BY <2>5, <2>6, <2>7
<1>3. ASSUME NEW a \in AllNames, NEW c \in Names, path = <<a, c>>
      PROVE  Reached(q, path, lookup(q, path))
  <2> PICK d : d = <<a>>
    OBVIOUS
  <2>1. /\ Len(path) = 2 /\ path[1] = a /\ path[2] = c /\ path = Append(d, c) /\ Front(path) = d
        /\ Last(path) = c /\ c \in AllNames /\ d \in Keys /\ Len(d) = 1 /\ d = Append(<<>>, a)
    BY <1>3, OneName, TwoNames, KeyFacts DEF Front, Last
  <2> PICK b, s, t : b = loadDir(q, <<>>) /\ s = LookStep(path, s0, 1) /\ t = LookStep(path, s, 2)
    OBVIOUS
  <2>2. lookup(q, path) = t
    BY <2>1, LookupTwo
  <2>3. /\ Good(b) /\ Grows(q, b) /\ Opened(b.node) = Opened(q.node) /\ b.used = q.used
        /\ <<>> \in DOMAIN b.node /\ b.node[<<>>].loaded /\ Nodelike(b.node) /\ Linked(b.node)
    BY <1>0, <1>e, DirLoaded, RootThere
  <2>5. \/ d \notin DOMAIN b.node /\ At(s, b, <<>>, 2)
        \/ d \in DOMAIN b.node /\ b.node[d].kind = "file" /\ Stuck(s, b, <<>>, 2)
        \/ d \in DOMAIN b.node /\ b.node[d].kind = "dir" /\ At(s, b, d, 1)
    <3>1. Ready(q, <<>>, path, 1, a, 2, 1, s0)
      BY <1>0, <1>e, <2>1 DEF Ready
    <3>2. Stepped(q, <<>>, path, 1, a, 2, 1, s)
      BY <3>1, StepTaken
    <3>3. 1 < Len(path)
      BY <2>1
    <3> QED BY <2>1, <3>2, <3>3 DEF Stepped
  <2>6. CASE (d \notin DOMAIN b.node /\ At(s, b, <<>>, 2))
             \/ (d \in DOMAIN b.node /\ b.node[d].kind = "file" /\ Stuck(s, b, <<>>, 2))
    <3>1. s.q = b /\ s.n = <<>> /\ s.left = 2
      BY <2>6 DEF At, Stuck
    <3>2. t = s
      <4>1. s.left # Len(path) - 2 + 1
        BY <2>1, <3>1
      <4> QED BY <4>1 DEF LookStep
    <3>3. path \notin DOMAIN b.node
      <4>1. d \notin DOMAIN b.node \/ b.node[d].kind # "dir"
        BY <2>6
      <4> QED BY <2>1, <2>3, <4>1, PrefixThere
    <3>4. Missing(b, path)
      <4>1. CASE d \notin DOMAIN b.node
        <5>1. <<>> \in DOMAIN b.node /\ b.node[<<>>].loaded
          BY <2>3
        <5>2. Append(<<>>, a) \notin DOMAIN b.node /\ path = Append(Append(<<>>, a), c)
          BY <2>1, <4>1
        <5> QED BY <2>1, <5>1, <5>2 DEF Missing
      <4>2. CASE d \in DOMAIN b.node /\ b.node[d].kind = "file"
        BY <2>1, <3>3, <4>2 DEF Missing
      <4> QED BY <2>6, <4>1, <4>2
    <3> QED BY <2>1, <2>2, <2>3, <3>1, <3>2, <3>3, <3>4 DEF Reached
  <2>7. CASE d \in DOMAIN b.node /\ b.node[d].kind = "dir" /\ At(s, b, d, 1)
    <3> PICK e : e = loadDir(b, d)
      OBVIOUS
    <3>1. /\ Good(e) /\ Grows(b, e) /\ Opened(e.node) = Opened(b.node) /\ e.used = b.used
          /\ d \in DOMAIN e.node /\ e.node[d].loaded
      <4>1. Len(d) <= 2
        BY <2>1
      <4> QED BY <2>3, <2>7, <4>1, DirLoaded
    <3>2. Grows(q, e) /\ e.node[d].kind = "dir"
      <4>1. Tree(b.node, b.dirs)
        BY <2>3 DEF Good
      <4> QED BY <2>3, <2>7, <3>1, <4>1, GrowsTwice DEF Grows, SameEntry
    <3>3. \/ path \notin DOMAIN e.node /\ At(t, e, d, 1)
          \/ path \in DOMAIN e.node /\ At(t, e, path, 0)
      <4>1. Ready(b, d, path, 2, c, 1, 0, s)
        <5>1. Len(d) <= 2 /\ 1 = Len(path) - 2 + 1 /\ 0 = 1 - 1
          BY <2>1
        <5> QED BY <2>1, <2>3, <2>7, <5>1 DEF Ready
      <4>2. Stepped(b, d, path, 2, c, 1, 0, t)
        BY <4>1, StepTaken
      <4>3. ~(2 < Len(path))
        BY <2>1
      <4> QED BY <2>1, <4>2, <4>3 DEF Stepped
    <3>4. CASE path \notin DOMAIN e.node /\ At(t, e, d, 1)
      <4>1. t.q = e /\ t.n = d /\ t.left = 1 /\ ~t.bad
        BY <3>4 DEF At
      <4>2. t.left \in 0..Len(path) /\ Len(t.n) <= 1
        BY ONLY <2>1, <4>1
      <4>3. Opened(e.node) = Opened(q.node) /\ e.used = q.used
        BY <2>3, <3>1
      <4>4. t.left = 0 <=> path \in DOMAIN e.node
        BY <3>4, <4>1
      <4> HIDE DEF Last, Front
      <4>5. /\ t.q.node[t.n].kind = "dir" /\ t.q.node[t.n].loaded /\ t.n = Front(path)
            /\ path = Append(t.n, Last(path)) /\ Last(path) \in AllNames
        BY <2>1, <3>1, <3>2, <4>1
      <4>6. Good(t.q) /\ Grows(q, t.q) /\ t.n \in DOMAIN t.q.node /\ t.left # 0
        BY <3>1, <3>2, <4>1
      <4>7. Missing(e, path)
        BY <2>1, <3>1, <3>4 DEF Missing
      <4> QED BY <2>2, <4>1, <4>2, <4>3, <4>4, <4>5, <4>6, <4>7 DEF Reached
    <3>5. CASE path \in DOMAIN e.node /\ At(t, e, path, 0)
      <4>1. t.q = e /\ t.n = path /\ t.left = 0 /\ ~t.bad
        BY <3>5 DEF At
      <4>2. t.left \in 0..Len(path)
        BY <2>1, <4>1
      <4>3. Opened(e.node) = Opened(q.node) /\ e.used = q.used
        BY <2>3, <3>1
      <4>4. Good(t.q) /\ Grows(q, t.q) /\ t.n \in DOMAIN t.q.node /\ t.left # 1
        BY <3>1, <3>2, <3>5, <4>1
      <4> QED BY <2>2, <3>5, <4>1, <4>2, <4>3, <4>4 DEF Reached
    <3> QED BY <3>3, <3>4, <3>5
  <2> QED BY <2>5, <2>6, <2>7
<1> QED BY <1>1, <1>2, <1>3, PathShape

LEMMA MissingStays ==
  ASSUME NEW q, NEW s, Good(q), Good(s), Grows(q, s), NEW path, Missing(q, path)
  PROVE  path \notin DOMAIN s.node
<1>1. Nodelike(q.node) /\ Linked(q.node) /\ Nodelike(s.node) /\ Linked(s.node)
  BY DEF Good, Tree
<1>2. PICK d \in DOMAIN q.node, c \in AllNames :
        /\ q.node[d].loaded \/ q.node[d].kind = "file"
        /\ Append(d, c) \notin DOMAIN q.node
        /\ path = Append(d, c) \/ \E b \in AllNames : path = Append(Append(d, c), b)
  BY DEF Missing
<1>3. /\ d \in DOMAIN s.node /\ s.node[d].kind = q.node[d].kind /\ d \in Keys
      /\ q.node[d].loaded => s.node[d].kids = q.node[d].kids
  BY <1>1, NodeFacts DEF Grows, SameEntry
<1>4. Append(d, c) \notin DOMAIN s.node
  <2> SUFFICES ASSUME Append(d, c) \in DOMAIN s.node PROVE FALSE
    OBVIOUS
  <2>1. Append(d, c) \in s.node[d].kids /\ s.node[d].kind = "dir"
    BY <1>1, <1>3, KidOf
  <2>2. Append(d, c) \in q.node[d].kids
    BY <1>2, <1>3, <2>1
  <2>3. Append(d, c) \in DOMAIN q.node
    BY <1>1, <2>2 DEF Linked
  <2> QED BY <1>2, <2>3
<1>5. ASSUME NEW b \in AllNames, path = Append(Append(d, c), b)
      PROVE  path \notin DOMAIN s.node
  <2> SUFFICES ASSUME path \in DOMAIN s.node PROVE FALSE
    OBVIOUS
  <2>1. path # <<>> /\ Append(d, c) \in Seq(AllNames)
    BY <1>3, <1>5, KeyLen, AppendParts
  <2>2. /\ s.node[path].parent \in DOMAIN s.node /\ s.node[path].parent \in Keys
        /\ path = Append(s.node[path].parent, s.node[path].name) /\ s.node[path].name \in AllNames
    BY <1>1, <2>1, ParentFacts
  <2>3. s.node[path].parent = Append(d, c)
    <3> PICK e, f : e = s.node[path].parent /\ f = s.node[path].name
      OBVIOUS
    <3> PICK k : k = Append(d, c)
      OBVIOUS
    <3>1. e \in Seq(AllNames) /\ f \in AllNames /\ Append(k, b) = Append(e, f)
      BY <1>5, <2>2, KeyLen
    <3>2. k \in Seq(AllNames)
      BY <2>1
    <3>3. k = e
      BY <3>1, <3>2, AppendSplits
    <3> QED BY <3>3
  <2> QED BY <1>4, <2>2, <2>3
<1> QED BY <1>2, <1>4, <1>5

\* n is no directory that was removed.
Kept(q, n) == n \in DOMAIN q.node => ~GoneIn(q.node, q.dirs, n)

LEMMA KeptGrows ==
  ASSUME NEW q, NEW r, Good(q), Grows(q, r), NEW n, Kept(q, n)
  PROVE  Kept(r, n)
<1>1. CASE n \in DOMAIN q.node
  BY <1>1, GrowsGone DEF Good, Kept
<1>2. CASE n \notin DOMAIN q.node
  BY <1>2 DEF Grows, Kept
<1> QED BY <1>1, <1>2

(***************************************************************************)
(* Opening files and directories.                                          *)
(***************************************************************************)
\* r is what a call leaves of q: O is open.
Called(q, r, O) ==
  /\ Good(r) /\ Beside(q, r) /\ Opened(r.node) = O
  /\ q.node[<<>>].loaded => r.node[<<>>].loaded

\* What the opening of path gives: nothing, or a node of the kind that is open.
Tried(q, path, kind, o) ==
  /\ Good(o.q) /\ Grows(q, o.q)
  /\ \/ o.fd = NULL /\ Opened(o.q.node) = Opened(q.node) /\ o.q.used = q.used
     \/ /\ o.fd = path /\ path # NULL /\ path \in DOMAIN o.q.node /\ path \notin Opened(q.node)
        /\ Opened(o.q.node) = Opened(q.node) \cup {path} /\ o.q.node[path].kind = kind
        /\ kind = "dir" => o.q.node[path].loaded
        /\ kind = "file" => q.used # MAX_OPEN

LEMMA GrowsCalled ==
  ASSUME NEW q, NEW r, Good(q), Good(r), Grows(q, r), NEW O, Opened(r.node) = O
  PROVE  Called(q, r, O)
BY RootThere DEF Grows, Called

LEMMA TriedDir ==
  ASSUME NEW q, Good(q), NEW path \in Paths
  PROVE  Tried(q, path, "dir", openDir(q, path))
<1> PICK r, o : r = lookup(q, path) /\ o = openDir(q, path)
  OBVIOUS
<1>1. Reached(q, path, r)
  BY LookupReaches
<1>2. /\ Good(r.q) /\ Grows(q, r.q) /\ Opened(r.q.node) = Opened(q.node) /\ r.q.used = q.used
      /\ r.left = 0 => r.n = path /\ ~r.bad /\ path \in DOMAIN r.q.node
  BY <1>1 DEF Reached
<1>3. o = IF r.bad \/ r.left > 0 \/ r.q.node[r.n].opened \/ r.q.node[r.n].kind = "file"
          THEN [q |-> r.q, fd |-> NULL]
          ELSE nodeOpened(loadDir(r.q, r.n), r.n)
  BY DEF openDir
<1>4. CASE r.bad \/ r.left > 0 \/ r.q.node[r.n].opened \/ r.q.node[r.n].kind = "file"
  <2>1. o.q = r.q /\ o.fd = NULL
    BY <1>3, <1>4
  <2> QED BY <1>2, <2>1 DEF Tried
<1>5. CASE ~(r.bad \/ r.left > 0 \/ r.q.node[r.n].opened \/ r.q.node[r.n].kind = "file")
  <2>1. r.left = 0
    <3>1. r.left \in 0..Len(path)
      BY <1>1 DEF Reached
    <3> QED BY <1>5, <3>1
  <2>2. r.n = path /\ path \in DOMAIN r.q.node /\ ~r.q.node[path].opened
    BY <1>2, <1>5, <2>1
  <2>3. path \in Keys /\ Len(path) <= 2 /\ path # NULL
    <3>1. path \in Keys /\ path # NULL
      BY <1>2, <2>2, NodeFacts, KeyFacts DEF Good, Tree
    <3>2. Len(path) <= 2
      BY PathLen
    <3> QED BY <3>1, <3>2
  <2>4. r.q.node[path].kind = "dir"
    <3>1. r.q.node[path].kind \in Kinds
      BY <1>2, <2>2, NodeFacts DEF Good, Tree
    <3> QED BY <1>5, <2>2, <3>1 DEF Kinds
  <2> PICK a : a = loadDir(r.q, path)
    OBVIOUS
  <2>5. /\ Good(a) /\ Grows(r.q, a) /\ Opened(a.node) = Opened(r.q.node) /\ a.used = r.q.used
        /\ path \in DOMAIN a.node /\ a.node[path].loaded
    BY <1>2, <2>2, <2>3, <2>4, DirLoaded
  <2>6. o = nodeOpened(a, path)
    BY <1>3, <1>5, <2>2
  <2>7. a.node[path].kind = "dir" /\ ~a.node[path].opened
    BY <2>2, <2>4, <2>5 DEF Grows, SameEntry, Opened
  <2>8. Caching(a, a, a.node[path])
    BY <2>7 DEF Caching
  <2>9. /\ Good(o.q) /\ Grows(a, o.q) /\ Opened(o.q.node) = Opened(a.node) \cup {path}
        /\ o.fd = path /\ DOMAIN o.q.node = DOMAIN a.node
    <3>0. Good(a) /\ path \in DOMAIN a.node /\ ~a.node[path].opened /\ Caching(a, a, a.node[path])
      BY <2>5, <2>7, <2>8
    <3>1. NowOpen(a, path, nodeOpened(a, path))
      BY <3>0, GoodOpen
    <3> QED BY <2>6, <3>1 DEF NowOpen
  <2>10. Grows(q, o.q)
    BY <1>2, <2>5, <2>9, GrowsTwice DEF Good
  <2>11. o.q.node[path].kind = "dir" /\ o.q.node[path].loaded
    BY <2>5, <2>7, <2>9 DEF Grows, SameEntry
  <2>12. path \notin Opened(q.node)
    BY <1>2, <2>2 DEF Opened
  <2> QED BY <1>2, <2>3, <2>5, <2>9, <2>10, <2>11, <2>12 DEF Tried
<1> QED BY <1>4, <1>5

\* What open does with what the look up found.
OpenFound(r, path, create) ==
  LET x == NewNode(path[Len(path)], "file", 0, r.q.node[r.n].disk)
  IN  IF r.bad \/ r.left > 1 \/ (r.left = 1 /\ ~create) THEN [q |-> r.q, fd |-> NULL]
      ELSE IF r.left = 1
      THEN fat_fileOpen(addChild(putEntry(r.q, r.n, EntryOf(x)), r.n, x), Child(r.n, x))
      ELSE IF r.q.node[r.n].opened \/ r.q.node[r.n].kind = "dir" THEN [q |-> r.q, fd |-> NULL]
      ELSE fat_fileOpen(r.q, r.n)

LEMMA OpenFileIs ==
  ASSUME NEW q, NEW path, NEW create
  PROVE  openFile(q, path, create) = OpenFound(lookup(q, path), path, create)
BY DEF openFile, OpenFound

LEMMA OpenFoundIs ==
  ASSUME NEW r, NEW path, NEW create, NEW o, o = OpenFound(r, path, create)
  PROVE  /\ r.bad \/ r.left > 1 \/ (r.left = 1 /\ ~create) => o = [q |-> r.q, fd |-> NULL]
         /\ ~(r.bad \/ r.left > 1 \/ (r.left = 1 /\ ~create)) =>
              /\ r.left = 1 => LET x == NewNode(path[Len(path)], "file", 0, r.q.node[r.n].disk)
                               IN  o = fat_fileOpen(addChild(putEntry(r.q, r.n, EntryOf(x)), r.n, x),
                                                Child(r.n, x))
              /\ r.left # 1 /\ (r.q.node[r.n].opened \/ r.q.node[r.n].kind = "dir")
                   => o = [q |-> r.q, fd |-> NULL]
              /\ r.left # 1 /\ ~(r.q.node[r.n].opened \/ r.q.node[r.n].kind = "dir")
                   => o = fat_fileOpen(r.q, r.n)
BY Zenon DEF OpenFound

Taken(a, n, o) == \/ a.used = MAX_OPEN /\ o.q = a /\ o.fd = NULL
                  \/ a.used # MAX_OPEN /\ NowOpen(a, n, o)

LEMMA FileTaken ==
  ASSUME NEW a, Good(a), NEW n \in DOMAIN a.node, ~a.node[n].opened, a.node[n].kind = "file"
  PROVE  Taken(a, n, fat_fileOpen(a, n))
<1>1. CASE a.used = MAX_OPEN
  BY <1>1 DEF fat_fileOpen, Taken
<1>2. CASE a.used # MAX_OPEN
  <2> PICK p : p = [a EXCEPT !.used = @ + 1]
    OBVIOUS
  <2>1. fat_fileOpen(a, n) = nodeOpened(p, n)
    BY <1>2 DEF fat_fileOpen
  <2>2. Caching(a, p, a.node[n])
    BY DEF Caching
  <2> QED BY <1>2, <2>1, <2>2, GoodOpen DEF Taken
<1> QED BY <1>1, <1>2

\* Why a file that is looked for was not opened.
Refused(q, path, o) ==
  o.fd = NULL => LET r == lookup(q, path)
                 IN  /\ o.q = r.q
                     /\ \/ r.left # 0 \/ r.q.node[r.n].opened \/ r.q.node[r.n].kind = "dir"
                        \/ r.q.used = MAX_OPEN

LEMMA TriedFile ==
  ASSUME NEW q, Good(q), NEW path \in Paths
  PROVE  /\ Tried(q, path, "file", openFile(q, path, FALSE))
         /\ Refused(q, path, openFile(q, path, FALSE))
<1> PICK r, o : r = lookup(q, path) /\ o = openFile(q, path, FALSE)
  OBVIOUS
<1>0. /\ r.bad \/ r.left > 1 \/ r.left = 1 => o.q = r.q /\ o.fd = NULL
      /\ ~(r.bad \/ r.left > 1 \/ r.left = 1) =>
           /\ r.q.node[r.n].opened \/ r.q.node[r.n].kind = "dir" => o.q = r.q /\ o.fd = NULL
           /\ ~(r.q.node[r.n].opened \/ r.q.node[r.n].kind = "dir") => o = fat_fileOpen(r.q, r.n)
  <2> PICK create : create = FALSE
    OBVIOUS
  <2>1. o = OpenFound(r, path, create)
    BY OpenFileIs
  <2>2. /\ r.bad \/ r.left > 1 \/ (r.left = 1 /\ ~create) => o = [q |-> r.q, fd |-> NULL]
        /\ ~(r.bad \/ r.left > 1 \/ (r.left = 1 /\ ~create)) =>
             /\ r.left # 1 /\ (r.q.node[r.n].opened \/ r.q.node[r.n].kind = "dir")
                  => o = [q |-> r.q, fd |-> NULL]
             /\ r.left # 1 /\ ~(r.q.node[r.n].opened \/ r.q.node[r.n].kind = "dir")
                  => o = fat_fileOpen(r.q, r.n)
    BY ONLY <2>1, OpenFoundIs
  <2>3. o = [q |-> r.q, fd |-> NULL] => o.q = r.q /\ o.fd = NULL
    BY ONLY <2>2
  <2> QED BY ONLY create = FALSE, <2>2, <2>3
<1>1. Reached(q, path, r)
  BY LookupReaches
<1>2. /\ Good(r.q) /\ Grows(q, r.q) /\ Opened(r.q.node) = Opened(q.node) /\ r.q.used = q.used
      /\ r.left = 0 => r.n = path /\ ~r.bad /\ path \in DOMAIN r.q.node
      /\ r.left \in 0..Len(path)
  BY <1>1 DEF Reached
<1>3. r.left = 0 \/ r.left = 1 \/ r.left > 1
  BY <1>2, PathLen
<1>4. CASE r.bad \/ r.left > 1 \/ r.left = 1 \/ r.q.node[r.n].opened \/ r.q.node[r.n].kind = "dir"
  <2>1. o.q = r.q /\ o.fd = NULL
    <3>1. CASE r.bad \/ r.left > 1 \/ r.left = 1
      BY ONLY <1>0, <3>1
    <3>2. CASE ~(r.bad \/ r.left > 1 \/ r.left = 1)
      BY ONLY <1>0, <1>4, <3>2
    <3> QED BY <3>1, <3>2
  <2>2. r.left # 0 \/ r.q.node[r.n].opened \/ r.q.node[r.n].kind = "dir"
    BY <1>2, <1>4
  <2> QED BY <1>2, <2>1, <2>2 DEF Tried, Refused
<1>5. CASE ~(r.bad \/ r.left > 1 \/ r.left = 1 \/ r.q.node[r.n].opened \/ r.q.node[r.n].kind = "dir")
  <2>1. r.left = 0 /\ r.n = path /\ path \in DOMAIN r.q.node /\ ~r.q.node[path].opened
    BY <1>2, <1>3, <1>5
  <2>2. o = fat_fileOpen(r.q, path)
    BY ONLY <1>0, <1>5, <2>1
  <2>3. r.q.node[path].kind = "file" /\ path \in Keys /\ path # NULL
    <3>1. r.q.node[path].kind \in Kinds /\ path \in Keys
      BY <1>2, <2>1, NodeFacts DEF Good, Tree
    <3> QED BY <1>5, <2>1, <3>1, KeyFacts DEF Kinds
  <2>4. CASE r.q.used = MAX_OPEN /\ o.q = r.q /\ o.fd = NULL
    BY <1>2, <2>4 DEF Tried, Refused
  <2>5. CASE r.q.used # MAX_OPEN /\ NowOpen(r.q, path, o)
    <3>1. /\ Good(o.q) /\ Grows(r.q, o.q) /\ Opened(o.q.node) = Opened(r.q.node) \cup {path}
          /\ o.fd = path /\ DOMAIN o.q.node = DOMAIN r.q.node
      BY <2>5 DEF NowOpen
    <3>2. Grows(q, o.q)
      BY <1>2, <3>1, GrowsTwice DEF Good
    <3>3. o.q.node[path].kind = "file"
      BY <2>1, <2>3, <3>1 DEF Grows, SameEntry
    <3>4. path \notin Opened(q.node)
      BY <1>2, <2>1 DEF Opened
    <3> QED BY <1>2, <2>1, <2>3, <2>5, <3>1, <3>2, <3>3, <3>4 DEF Tried, Refused
  <2> QED BY <1>2, <2>1, <2>2, <2>3, <2>4, <2>5, FileTaken DEF Taken
<1> QED BY <1>4, <1>5

(***************************************************************************)
(* Adding one node, with its entry.                                        *)
(***************************************************************************)
\* s is q with node x under d, and its entry on the volume.
LEMMA AddGood ==
  ASSUME NEW q, Good(q), NEW d \in DOMAIN q.node, Len(d) <= 1, q.node[d].kind = "dir",
         q.node[d].loaded, ~GoneIn(q.node, q.dirs, d), NEW x, Fresh(q.node, d, {x}),
         Child(d, x) # Card, Exact(x), ~x.opened, NEW s, IsFs(s), Beside(q, s),
         s.opened = q.opened, s.used = q.used, Grafted(q.node, s.node, d, {x}, TRUE, 1),
         DiskOK(s.dirs), Suits(q.node, q.dirs, s.dirs, d, {x})
  PROVE  /\ Called(q, s, Opened(q.node)) /\ DOMAIN s.node = DOMAIN q.node \cup {Child(d, x)}
         /\ Child(d, x) \notin DOMAIN q.node
<1>0. /\ q.hung = FALSE /\ Tree(q.node, q.dirs) /\ Counted(q.node) /\ Listed(q)
      /\ Volumes(q) /\ Nodelike(q.node) /\ Linked(q.node)
  BY DEF Good, Tree
<1>1. Cardinality({x}) = 1 /\ Made(d, {x}) = {Child(d, x)} /\ Len(d) <= 2
  <2>1. Cardinality({x}) = 1
    BY FS_Singleton
  <2>2. Len(d) <= 2
    <3>1. Len(d) \in 0..3
      BY <1>0, NodeFacts, KeyLen
    <3> QED BY <3>1
  <2> QED BY <2>1, <2>2 DEF Made
<1>2. Tree(s.node, s.dirs)
  BY <1>0, <1>1, GraftTree
<1>3. Counted(s.node)
  <2>1. 1 = Cardinality({x}) + (IF q.node[d].loaded THEN 0 ELSE Dots(q.node[d]))
    BY <1>1
  <2>2. \A y \in {x} : Exact(y)
    OBVIOUS
  <2> QED BY <1>0, <1>1, <2>1, <2>2, GraftCounted
<1>4. /\ Opened(s.node) = Opened(q.node) /\ OpenFiles(s.node) = OpenFiles(q.node)
      /\ \A v \in Disks : OpenOn(s.node, v) = OpenOn(q.node, v)
  <2>1. \A y \in {x} : ~y.opened
    OBVIOUS
  <2> PICK l, i : l = TRUE /\ i = 1
    OBVIOUS
  <2>2. Grafted(q.node, s.node, d, {x}, l, i)
    OBVIOUS
  <2> QED BY <1>0, <1>1, <2>1, <2>2, GraftOpened
<1>5. Listed(s)
  BY <1>0, <1>4 DEF Listed
<1>6. DOMAIN s.node = DOMAIN q.node \cup {Child(d, x)} /\ Child(d, x) \notin DOMAIN q.node
  BY <1>1 DEF Grafted, Fresh
<1>7. Volumes(s) /\ s.hung = FALSE
  <2>1. Card \in DOMAIN q.node <=> Card \in DOMAIN s.node
    BY <1>6
  <2> QED BY <1>0, <2>1, VolumesStay DEF Beside
<1>8. q.node[<<>>].loaded => s.node[<<>>].loaded
  BY RootThere DEF Grafted
<1> QED BY <1>2, <1>3, <1>4, <1>5, <1>6, <1>7, <1>8 DEF Good, Called

\* E is D with the entries S in directory c of volume v.
Written(D, E, v, c, S) ==
  /\ E \in [Disks -> [Dirs -> SUBSET Entries]] /\ E[v][c] = S
  /\ \A w \in Disks, b \in Dirs : (w # v \/ b # c) => E[w][b] = D[w][b]

LEMMA EntryWritten ==
  ASSUME NEW D \in [Disks -> [Dirs -> SUBSET Entries]], NEW v \in Disks, NEW c \in Dirs,
         NEW S \in SUBSET Entries
  PROVE  Written(D, [D EXCEPT ![v][c] = S], v, c, S)
<1> DEFINE F == [D[v] EXCEPT ![c] = S]
           E == [D EXCEPT ![v] = F]
<1>1. F \in [Dirs -> SUBSET Entries] /\ F[c] = S /\ \A b \in Dirs : b # c => F[b] = D[v][b]
  OBVIOUS
<1> HIDE DEF F
<1>2. E \in [Disks -> [Dirs -> SUBSET Entries]] /\ E[v] = F /\ \A w \in Disks : w # v => E[w] = D[w]
  BY <1>1
<1>3. E = [D EXCEPT ![v][c] = S]
  BY DEF F
<1> HIDE DEF E
<1>4. Written(D, E, v, c, S)
  BY <1>1, <1>2, Zenon DEF Written
<1> QED BY <1>3, <1>4

\* p is q but for the volumes.
Twin(p, q) ==
  IsFs(p) /\ Beside(q, p) /\ p.node = q.node /\ p.opened = q.opened /\ p.used = q.used

LEMMA PutFields ==
  ASSUME NEW q, IsFs(q), Nodelike(q.node), DiskOK(q.dirs), NEW d \in DOMAIN q.node,
         NEW e \in Entries
  PROVE  LET p == putEntry(q, d, e)
         IN  Twin(p, q) /\ Written(q.dirs, p.dirs, q.node[d].disk, q.node[d].loc,
                                   Holds(q.node, q.dirs, d) \cup {e})
<1> PICK p, D, v, c : p = putEntry(q, d, e) /\ D = q.dirs /\ v = q.node[d].disk /\ c = q.node[d].loc
  OBVIOUS
<1>1. v \in Disks /\ c \in Dirs
  BY NodeFacts
<1>2. D \in [Disks -> [Dirs -> SUBSET Entries]]
  BY DEF DiskOK
<1> PICK S : S = D[v][c] \cup {e}
  OBVIOUS
<1>3. S \in SUBSET Entries
  BY <1>1, <1>2
<1> PICK E : E = [D EXCEPT ![v][c] = S]
  OBVIOUS
<1>4. Written(D, E, v, c, S)
  BY <1>1, <1>2, <1>3, EntryWritten
<1>5. p = [q EXCEPT !.dirs = E]
  BY DEF putEntry, IsFs
<1>6. Twin(p, q) /\ p.dirs = E
  BY <1>5 DEF Twin, IsFs, Beside
<1> QED BY <1>4, <1>6, Zenon DEF Holds

\* A directory that is loaded and there is the only node of its cluster, and
\* has no entry for a node that it does not have.
LEMMA DirAlone ==
  ASSUME NEW N, NEW D, Tree(N, D), NEW d \in DOMAIN N, N[d].kind = "dir", N[d].loaded,
         ~GoneIn(N, D, d)
  PROVE  /\ \A n \in DOMAIN N : n # d /\ N[n].loaded /\ ~GoneIn(N, D, n) =>
              N[n].disk # N[d].disk \/ N[n].loc # N[d].loc
         /\ \A e \in Holds(N, D, d) : Child(d, e) \in DOMAIN N /\ EntryOf(N[Child(d, e)]) = e
         /\ N[d].disk \in Disks /\ N[d].loc \in Dirs
<1>1. Nodelike(N) /\ Placed(N) /\ Mirrored(N, D) /\ OneDir(N, D)
  BY DEF Tree
<1>2. \A n \in DOMAIN N : N[n].loaded => N[n].kind = "dir"
  BY <1>1, NodeFacts DEF Placed, Kinds
<1>3. N[d].disk \in Disks /\ N[d].loc \in Dirs
  BY <1>1, NodeFacts
<1> QED BY <1>1, <1>2, <1>3 DEF OneDir, Mirrored

\* A node for a new file.
NewFile(N, d, x) ==
  /\ x \in NodeType /\ x.kind = "file" /\ x.loc = ROOT /\ ~x.loaded /\ x.kids = {} /\ x.ref = 0
  /\ ~x.opened /\ x.name \in Names /\ x.disk = Volume(Child(d, x)) /\ Child(d, x) \notin DOMAIN N

LEMMA FileSuits ==
  ASSUME NEW N, NEW D, Tree(N, D), NEW d \in DOMAIN N, N[d].kind = "dir", N[d].loaded,
         ~GoneIn(N, D, d), NEW x, NewFile(N, d, x), NEW E,
         Written(D, E, N[d].disk, N[d].loc, Holds(N, D, d) \cup {EntryOf(x)})
  PROVE  DiskOK(E) /\ Suits(N, D, E, d, {x})
<1> PICK e, v, c : e = EntryOf(x) /\ v = N[d].disk /\ c = N[d].loc
  OBVIOUS
<1>1. /\ Nodelike(N) /\ Linked(N) /\ Placed(N) /\ DiskOK(D)
      /\ v \in Disks /\ c \in Dirs
      /\ \A n \in DOMAIN N : n # d /\ N[n].loaded /\ ~GoneIn(N, D, n) =>
              N[n].disk # v \/ N[n].loc # c
      /\ \A f \in D[v][c] : Child(d, f) \in DOMAIN N
  BY DirAlone DEF Tree, Holds
<1>2. e.name = x.name /\ e.kind = "file" /\ e.at = ROOT
  BY EntryParts DEF NewFile
<1>3. /\ E \in [Disks -> [Dirs -> SUBSET Entries]] /\ E[v][c] = D[v][c] \cup {e}
      /\ \A w \in Disks, b \in Dirs : (w # v \/ b # c) => E[w][b] = D[w][b]
  BY DEF Written, Holds
<1>4. ASSUME NEW f \in D[v][c] PROVE f.name # e.name
  BY <1>1, <1>2 DEF Child, NewFile
<1>5. \A w \in Disks, b \in Dirs : \A f \in E[w][b] : f \in D[w][b] \/ (f = e /\ w = v /\ b = c)
  BY <1>3
<1>6. DiskOK(E)
  <2>1. ASSUME NEW w \in Disks, NEW b \in Dirs
        PROVE  /\ IsFiniteSet(E[w][b])
               /\ \A f \in E[w][b] : f.kind = "file" <=> f.at = ROOT
               /\ \A f, g \in E[w][b] : f.name = g.name => f = g
    <3>0. /\ IsFiniteSet(D[w][b]) /\ \A f \in D[w][b] : f.kind = "file" <=> f.at = ROOT
          /\ \A f, g \in D[w][b] : f.name = g.name => f = g
      BY <1>1 DEF DiskOK
    <3>1. IsFiniteSet(D[w][b] \cup {e})
      BY <3>0, FS_AddElement
    <3>2. E[w][b] = D[w][b] \/ (E[w][b] = D[w][b] \cup {e} /\ w = v /\ b = c)
      BY <1>3
    <3>3. \A f, g \in E[w][b] : f.name = g.name => f = g
      BY <1>4, <3>0, <3>2
    <3> QED BY <1>2, <3>0, <3>1, <3>2, <3>3
  <2>2. \A w \in Disks, b, g \in Dirs : \A f \in E[w][b], h \in E[w][g] :
          f.kind = "dir" /\ h.kind = "dir" /\ f.at = h.at => b = g /\ f = h
    <3> SUFFICES ASSUME NEW w \in Disks, NEW b \in Dirs, NEW g \in Dirs, NEW f \in E[w][b],
                        NEW h \in E[w][g], f.kind = "dir", h.kind = "dir", f.at = h.at
                 PROVE  b = g /\ f = h
      OBVIOUS
    <3>1. f \in D[w][b] /\ h \in D[w][g]
      BY <1>2, <1>5
    <3> QED BY <1>1, <3>1 DEF DiskOK
  <2> QED BY <1>3, <2>1, <2>2 DEF DiskOK
<1>7. ASSUME NEW n \in DOMAIN N PROVE GoneIn(N, E, n) <=> GoneIn(N, D, n)
  <2>1. CASE N[n].kind = "dir" /\ N[n].loc # ROOT
    <3>1. EntryOf(N[n]) # e
      BY <1>2, <2>1, EntryParts
    <3>2. N[n].parent \in DOMAIN N
      BY <1>1, <2>1 DEF Linked, Placed
    <3>3. N[n].disk \in Disks /\ N[N[n].parent].loc \in Dirs
      BY <1>1, <3>2, NodeFacts
    <3>4. EntryOf(N[n]) \in E[N[n].disk][N[N[n].parent].loc]
            <=> EntryOf(N[n]) \in D[N[n].disk][N[N[n].parent].loc]
      BY <1>3, <1>5, <3>1, <3>3
    <3> QED BY <3>4 DEF GoneIn
  <2>2. CASE ~(N[n].kind = "dir" /\ N[n].loc # ROOT)
    BY <2>2 DEF GoneIn
  <2> QED BY <2>1, <2>2
<1>8. ASSUME NEW n \in DOMAIN N, n # d, N[n].loaded, ~GoneIn(N, D, n)
      PROVE  Holds(N, E, n) = Holds(N, D, n)
  <2>1. N[n].disk \in Disks /\ N[n].loc \in Dirs
    BY <1>1, NodeFacts
  <2> QED BY <1>1, <1>3, <1>8, <2>1 DEF Holds
<1>9. Holds(N, E, d) = Holds(N, D, d) \cup {e}
  BY <1>3 DEF Holds
<1>10. x.kind = "file" /\ ~x.loaded
  BY DEF NewFile
<1> QED BY <1>6, <1>7, <1>8, <1>9, <1>10 DEF Suits

\* s is q with a new file.
FileAdded(q, d, x, s) ==
  /\ Called(q, s, Opened(q.node)) /\ s.used = q.used
  /\ DOMAIN s.node = DOMAIN q.node \cup {Child(d, x)} /\ Child(d, x) \notin DOMAIN q.node
  /\ s.node[Child(d, x)].kind = "file" /\ ~s.node[Child(d, x)].opened
  /\ \A n \in DOMAIN q.node : SameEntry(s.node[n], q.node[n])

LEMMA AddFile ==
  ASSUME NEW q, Good(q), NEW d \in DOMAIN q.node, Len(d) <= 1, q.node[d].kind = "dir",
         q.node[d].loaded, ~GoneIn(q.node, q.dirs, d), NEW x, NewFile(q.node, d, x)
  PROVE  FileAdded(q, d, x, addChild(putEntry(q, d, EntryOf(x)), d, x))
<1> PICK e, p, s : e = EntryOf(x) /\ p = putEntry(q, d, e) /\ s = addChild(p, d, x)
  OBVIOUS
<1>0. /\ IsFs(q) /\ Tree(q.node, q.dirs) /\ Nodelike(q.node) /\ DiskOK(q.dirs)
  BY DEF Good, Tree
<1>1. e \in Entries
  BY KeyFacts DEF EntryOf, Entries, NewFile, NodeType, Kinds
<1>2. Twin(p, q) /\ Written(q.dirs, p.dirs, q.node[d].disk, q.node[d].loc,
                            Holds(q.node, q.dirs, d) \cup {e})
  BY <1>0, <1>1, PutFields
<1>3. DiskOK(p.dirs) /\ Suits(q.node, q.dirs, p.dirs, d, {x})
  BY <1>0, <1>2, FileSuits
<1>4. Child(d, x) # Card
  <2>1. x.name \in Names /\ CF_0 \notin Names /\ Card = Append(<<>>, CF_0) /\ x.name \in AllNames
        /\ CF_0 \in AllNames /\ <<>> \in Keys /\ d \in Keys
    BY <1>0, KeyFacts, NodeFacts DEF NewFile
  <2>2. Append(d, x.name) # Append(<<>>, CF_0)
    BY <2>1, SameChild
  <2> QED BY <2>1, <2>2 DEF Child
<1>5. Fresh(q.node, d, {x})
  <2>1. IsFiniteSet({x})
    BY FS_Singleton
  <2> QED BY <1>4, <2>1 DEF Fresh, NewFile
<1>6. Exact(x) /\ ~x.opened
  BY FS_EmptySet DEF NewFile, Exact, DotsOf, User
<1>7. Len(d) <= 2
  <2>1. Len(d) \in 0..3
    BY <1>0, NodeFacts, KeyLen
  <2> QED BY <2>1
<1>8. /\ IsFs(s) /\ Beside(p, s) /\ s.dirs = p.dirs /\ s.used = p.used /\ s.opened = p.opened
      /\ Grafted(p.node, s.node, d, {x}, p.node[d].loaded, Cardinality({x}))
  <2>1. s = addChildren(p, d, {x})
    BY DEF addChild
  <2>2. IsFs(p) /\ Nodelike(p.node) /\ d \in DOMAIN p.node /\ Fresh(p.node, d, {x})
    BY <1>0, <1>2, <1>5 DEF Twin
  <2> QED BY <1>7, <2>1, <2>2, AddFields
<1>9. Grafted(q.node, s.node, d, {x}, TRUE, 1)
  <2>1. p.node = q.node /\ Cardinality({x}) = 1
    BY <1>2, FS_Singleton DEF Twin
  <2>2. p.node[d].loaded = TRUE
    BY <1>0, <2>1, NodeFacts
  <2> PICK l, i : l = p.node[d].loaded /\ i = Cardinality({x})
    OBVIOUS
  <2>3. Grafted(q.node, s.node, d, {x}, l, i)
    BY <1>8, <2>1
  <2>4. l = TRUE /\ i = 1
    BY <2>1, <2>2
  <2> QED BY <2>3, <2>4
<1>10. Beside(q, s) /\ s.opened = q.opened /\ s.used = q.used
  BY <1>2, <1>8 DEF Twin, Beside
<1>11. /\ Called(q, s, Opened(q.node)) /\ DOMAIN s.node = DOMAIN q.node \cup {Child(d, x)}
       /\ Child(d, x) \notin DOMAIN q.node
  <2>1. /\ Good(q) /\ d \in DOMAIN q.node /\ Len(d) <= 1 /\ q.node[d].kind = "dir"
        /\ q.node[d].loaded /\ ~GoneIn(q.node, q.dirs, d) /\ Fresh(q.node, d, {x})
        /\ Child(d, x) # Card /\ Exact(x) /\ ~x.opened /\ IsFs(s) /\ Beside(q, s)
        /\ s.opened = q.opened /\ s.used = q.used /\ Grafted(q.node, s.node, d, {x}, TRUE, 1)
        /\ DiskOK(s.dirs) /\ Suits(q.node, q.dirs, s.dirs, d, {x})
    BY <1>3, <1>4, <1>5, <1>6, <1>8, <1>9, <1>10
  <2> QED BY ONLY <2>1, AddGood
<1>12. ASSUME NEW n \in DOMAIN q.node PROVE SameEntry(s.node[n], q.node[n])
  BY <1>9 DEF Grafted, SameEntry
<1>13. s.node[Child(d, x)].kind = "file" /\ ~s.node[Child(d, x)].opened
  <2>1. s.node[Child(d, x)] = [x EXCEPT !.parent = d]
    BY <1>9 DEF Grafted
  <2> QED BY <2>1 DEF NewFile, NodeType
<1> QED BY <1>10, <1>11, <1>12, <1>13 DEF FileAdded

\* A new name under a directory that a look-up gave.
LEMMA NewNode_File ==
  ASSUME NEW q, Good(q), NEW d \in DOMAIN q.node, NEW name \in Names,
         Append(d, name) \notin DOMAIN q.node, Len(d) <= 1
  PROVE  LET x == NewNode(name, "file", 0, q.node[d].disk)
         IN  NewFile(q.node, d, x) /\ Child(d, x) = Append(d, name)
<1> PICK x : x = NewNode(name, "file", 0, q.node[d].disk)
  OBVIOUS
<1>0. /\ Nodelike(q.node) /\ Placed(q.node) /\ d \in Keys /\ q.node[d].disk = Volume(d)
      /\ q.node[d].disk \in Disks
  BY NodeFacts DEF Good, Tree, Placed
<1>1. /\ x \in NodeType /\ x.name = name /\ x.kind = "file" /\ x.loc = 0
      /\ x.disk = q.node[d].disk /\ x.kids = {} /\ x.ref = 0 /\ ~x.loaded /\ ~x.opened
  <2>1. name \in AllNames /\ "file" \in Kinds /\ 0 \in Dirs
    BY KeyFacts DEF Kinds, ROOT
  <2> QED BY <1>0, <2>1, NewNodeFacts
<1>2. Child(d, x) = Append(d, name)
  BY <1>1 DEF Child
<1>3. Volume(Append(d, name)) = Volume(d)
  <2>0. name \in AllNames /\ name # CF_0 /\ Len(d) <= 2
    <3>1. Len(d) \in 0..3
      BY <1>0, KeyLen
    <3> QED BY <3>1, KeyFacts
  <2>1. CASE d = <<>>
    BY <1>0, <2>0, <2>1, ChildKey, KeyFacts
  <2>2. CASE d # <<>>
    BY <1>0, <2>0, <2>2, ChildKey
  <2> QED BY <2>1, <2>2
<1> QED BY <1>0, <1>1, <1>2, <1>3 DEF NewFile, ROOT

\* What an open may leave of q: path is open, or nothing is.
Created(q, path, o) ==
  \/ o.fd = NULL /\ Called(q, o.q, Opened(q.node))
  \/ /\ o.fd = path /\ path # NULL /\ path \notin Opened(q.node)
     /\ Called(q, o.q, Opened(q.node) \cup {path})

LEMMA CalledTwice ==
  ASSUME NEW q, NEW r, NEW s, NEW O, NEW M, Called(q, r, O), Called(r, s, M)
  PROVE  Called(q, s, M)
<1>1. Good(s) /\ Beside(q, s) /\ Opened(s.node) = M
  BY DEF Called, Beside
<1>2. q.node[<<>>].loaded => s.node[<<>>].loaded
  BY DEF Called
<1> QED BY <1>1, <1>2 DEF Called

LEMMA TriedCreated ==
  ASSUME NEW q, Good(q), NEW path, NEW kind, NEW o, Tried(q, path, kind, o)
  PROVE  Created(q, path, o)
BY GrowsCalled DEF Tried, Created

LEMMA CreateFile ==
  ASSUME NEW q, Good(q), NEW path \in Paths, path # <<>>, Last(path) # CF_0,
         Kept(q, Front(path)), NEW create
  PROVE  Created(q, path, openFile(q, path, create))
<1> PICK r, o : r = lookup(q, path) /\ o = openFile(q, path, create)
  OBVIOUS
<1>0. o = OpenFound(r, path, create)
  BY OpenFileIs
<1>1. Reached(q, path, r)
  BY LookupReaches
<1>2. /\ Good(r.q) /\ Grows(q, r.q) /\ Opened(r.q.node) = Opened(q.node) /\ r.q.used = q.used
      /\ r.left \in 0..Len(path) /\ r.n \in DOMAIN r.q.node
  BY <1>1 DEF Reached
<1>3. r.left = 0 \/ r.left = 1 \/ r.left > 1
  BY <1>2, PathLen
<1>4. CASE r.bad \/ r.left > 1 \/ (r.left = 1 /\ ~create)
  <2>1. o.q = r.q /\ o.fd = NULL
    <3>1. o = [q |-> r.q, fd |-> NULL]
      BY ONLY <1>0, <1>4, OpenFoundIs
    <3> QED BY ONLY <3>1
  <2> QED BY <1>2, <2>1, GrowsCalled DEF Created
<1>5. CASE ~r.bad /\ r.left = 0
  <2>1. o = openFile(q, path, FALSE)
    <3> PICK never : never = FALSE
      OBVIOUS
    <3>1. openFile(q, path, never) = OpenFound(r, path, never)
      BY ONLY r = lookup(q, path), OpenFileIs
    <3>2. OpenFound(r, path, create) = OpenFound(r, path, never)
      BY ONLY <1>5 DEF OpenFound
    <3> QED BY ONLY never = FALSE, <1>0, <3>1, <3>2
  <2> QED BY <2>1, TriedFile, TriedCreated
<1>6. CASE ~r.bad /\ r.left = 1 /\ create
  <2> PICK a, d, name : a = r.q /\ d = r.n /\ name = Last(path)
    OBVIOUS
  <2>1. /\ a.node[d].kind = "dir" /\ a.node[d].loaded /\ Len(d) <= 1 /\ d \in DOMAIN a.node
        /\ path = Append(d, name) /\ d = Front(path) /\ name \in AllNames
        /\ path \notin DOMAIN a.node
    BY <1>1, <1>6 DEF Reached
  <2>2. ~GoneIn(a.node, a.dirs, d) /\ name \in Names
    BY <1>2, <2>1, KeptGrows DEF Kept, AllNames
  <2> PICK x : x = NewNode(name, "file", 0, a.node[d].disk)
    BY Zenon
  <2>3. NewFile(a.node, d, x) /\ Child(d, x) = path
    BY <1>2, <2>1, <2>2, NewNode_File, Zenon
  <2> PICK s : s = addChild(putEntry(a, d, EntryOf(x)), d, x)
    BY Zenon
  <2>4. FileAdded(a, d, x, s)
    BY <1>2, <2>1, <2>2, <2>3, AddFile, Zenon
  <2>5. o = fat_fileOpen(s, path)
    <3>1. ~(r.left > 1) /\ x = NewNode(path[Len(path)], "file", 0, r.q.node[r.n].disk)
      BY <1>6 DEF Last
    <3>2. LET z == NewNode(path[Len(path)], "file", 0, r.q.node[r.n].disk)
          IN  o = fat_fileOpen(addChild(putEntry(r.q, r.n, EntryOf(z)), r.n, z), Child(r.n, z))
      BY ONLY <1>0, <1>6, <3>1, OpenFoundIs, Zenon
    <3>3. o = fat_fileOpen(addChild(putEntry(a, d, EntryOf(x)), d, x), Child(d, x))
      BY <3>1, <3>2, Zenon
    <3> QED BY <2>3, <3>3
  <2>6. /\ Called(a, s, Opened(a.node)) /\ path \in DOMAIN s.node
        /\ s.node[path].kind = "file" /\ ~s.node[path].opened
    BY <2>3, <2>4, Zenon DEF FileAdded
  <2>7. Called(q, s, Opened(q.node))
    <3>1. Called(q, a, Opened(a.node))
      BY <1>2, GrowsCalled, Zenon
    <3>3. Called(a, s, Opened(a.node))
      BY <2>6, Zenon
    <3>2. Called(q, s, Opened(a.node))
      BY <3>1, <3>3, CalledTwice
    <3> QED BY <1>2, <3>2
  <2>8. CASE s.used = MAX_OPEN /\ o.q = s /\ o.fd = NULL
    BY <2>7, <2>8, Zenon DEF Created
  <2>9. CASE s.used # MAX_OPEN /\ NowOpen(s, path, o)
    <3>1. /\ Good(o.q) /\ Grows(s, o.q) /\ Opened(o.q.node) = Opened(s.node) \cup {path} /\ o.fd = path
      BY <2>9, Zenon DEF NowOpen
    <3>2. Opened(s.node) = Opened(q.node) /\ Good(s)
      BY <2>7, Zenon DEF Called
    <3>3. Called(q, o.q, Opened(q.node) \cup {path})
      <4>1. Called(s, o.q, Opened(q.node) \cup {path})
        BY <3>1, <3>2, GrowsCalled, Zenon
      <4> QED BY ONLY <2>7, <4>1, CalledTwice
    <3>4. path # NULL
      <4>1. Nodelike(s.node)
        BY <3>2, Zenon DEF Good, Tree
      <4>2. path \in Keys
        BY <2>6, <4>1, Zenon DEF Nodelike
      <4> QED BY <4>2, KeyFacts
    <3>5. path \notin Opened(q.node)
      BY <2>6, <3>2, Zenon DEF Opened
    <3> QED BY <3>1, <3>3, <3>4, <3>5, Zenon DEF Created
  <2>10. Good(s)
    BY <2>7, Zenon DEF Called
  <2>11. \/ s.used = MAX_OPEN /\ o.q = s /\ o.fd = NULL
         \/ s.used # MAX_OPEN /\ NowOpen(s, path, o)
    <3>1. path \in DOMAIN s.node /\ ~s.node[path].opened /\ s.node[path].kind = "file"
      BY <2>6, Zenon
    <3>2. Taken(s, path, fat_fileOpen(s, path))
      BY <2>10, <3>1, FileTaken, Zenon
    <3>3. Taken(s, path, o)
      BY <2>5, <3>2
    <3> QED BY <3>3, Zenon DEF Taken
  <2> QED BY <2>8, <2>9, <2>11
<1> QED BY <1>3, <1>4, <1>5, <1>6

(***************************************************************************)
(* Removing a file, with its entry.                                        *)
(***************************************************************************)
\* P is N without node n, a child of d.
Pruned(N, P, d, n) ==
  /\ P \in [DOMAIN P -> NodeType] /\ DOMAIN P = DOMAIN N \ {n}
  /\ \A k \in DOMAIN N : k # d /\ k # n => P[k] = N[k]
  /\ SameEntry(P[d], N[d]) /\ P[d].opened = N[d].opened /\ P[d].loaded = N[d].loaded
  /\ P[d].kids = N[d].kids \ {n} /\ P[d].ref = N[d].ref - 1

LEMMA FileFacts ==
  ASSUME NEW N, NEW D, Tree(N, D), NEW n \in DOMAIN N, N[n].kind = "file"
  PROVE  /\ n \notin {<<>>, Card} /\ N[n].kids = {} /\ ~N[n].loaded /\ N[n].parent # n
         /\ N[n].parent \in DOMAIN N /\ N[N[n].parent].kind = "dir" /\ N[N[n].parent].loaded
         /\ n \in N[N[n].parent].kids /\ ~GoneIn(N, D, N[n].parent)
         /\ EntryOf(N[n]) \in Holds(N, D, N[n].parent) /\ N[n].loc = ROOT
<1>1. Nodelike(N) /\ Linked(N) /\ Placed(N) /\ Mirrored(N, D) /\ Ghosts(N, D)
  BY DEF Tree
<1>2. n \notin {<<>>, Card} /\ ~N[n].loaded /\ N[n].loc = ROOT
  BY <1>1 DEF Placed
<1> PICK d : d = N[n].parent
  OBVIOUS
<1>3. d \in DOMAIN N /\ N[d].kind = "dir" /\ N[d].loaded /\ n \in N[d].kids
  BY <1>1, <1>2, ParentFacts
<1>4. N[n].kids = {}
  <2> SUFFICES ASSUME NEW k \in N[n].kids PROVE FALSE
    OBVIOUS
  <2>1. k \in DOMAIN N /\ k # <<>> /\ N[k].parent = n
    BY <1>1 DEF Linked
  <2>2. N[n].kind = "dir"
    BY <1>1, <2>1, ParentFacts
  <2> QED BY <2>2
<1>5. ~GoneIn(N, D, d)
  BY <1>1, <1>3 DEF Ghosts
<1>6. EntryOf(N[n]) \in Holds(N, D, d)
  BY <1>1, <1>3, <1>5 DEF Mirrored
<1> QED BY <1>2, <1>3, <1>4, <1>5, <1>6

LEMMA PruneTree ==
  ASSUME NEW N, NEW P, NEW D, NEW E, Tree(N, D), NEW n \in DOMAIN N, N[n].kind = "file",
         NEW d, d = N[n].parent, Pruned(N, P, d, n),
         Written(D, E, N[d].disk, N[d].loc, Holds(N, D, d) \ {EntryOf(N[n])})
  PROVE  Tree(P, E)
<1> PICK e, v, c : e = EntryOf(N[n]) /\ v = N[d].disk /\ c = N[d].loc
  OBVIOUS
<1>0. /\ Nodelike(N) /\ Linked(N) /\ Placed(N) /\ DiskOK(D) /\ Mirrored(N, D) /\ Ghosts(N, D)
      /\ OneDir(N, D)
  BY DEF Tree
<1>1. /\ n \notin {<<>>, Card} /\ N[n].kids = {} /\ n # d /\ d \in DOMAIN N /\ N[d].kind = "dir"
      /\ N[d].loaded /\ n \in N[d].kids /\ ~GoneIn(N, D, d) /\ e \in Holds(N, D, d)
      /\ e.name = N[n].name /\ e.kind = "file" /\ v \in Disks /\ c \in Dirs
  BY <1>0, FileFacts, EntryParts, NodeFacts
<1>2. /\ P \in [DOMAIN P -> NodeType] /\ DOMAIN P = DOMAIN N \ {n}
      /\ \A k \in DOMAIN P : /\ SameEntry(P[k], N[k]) /\ P[k].loaded = N[k].loaded
                             /\ P[k].kids = N[k].kids \ {n}
  <2>1. ASSUME NEW k \in DOMAIN N, k # n
        PROVE  /\ SameEntry(P[k], N[k]) /\ P[k].loaded = N[k].loaded
               /\ P[k].kids = N[k].kids \ {n}
    <3>1. CASE k = d
      BY <3>1 DEF Pruned
    <3>2. CASE k # d
      <4>1. P[k] = N[k]
        BY <2>1, <3>2 DEF Pruned
      <4>2. n \notin N[k].kids
        BY <1>0, <3>2 DEF Linked
      <4> QED BY <4>1, <4>2 DEF SameEntry
    <3> QED BY <3>1, <3>2
  <2> QED BY <2>1 DEF Pruned
<1>3. Nodelike(P)
  <2>1. IsFiniteSet(DOMAIN P)
    BY <1>0, <1>2, FS_Subset DEF Nodelike
  <2> QED BY <1>0, <1>2, <2>1 DEF Nodelike
<1>4. Linked(P)
  <2>1. ASSUME NEW k \in DOMAIN P, k # <<>>
        PROVE  /\ P[k].parent \in DOMAIN P /\ k = Append(P[k].parent, P[k].name)
               /\ P[P[k].parent].kind = "dir" /\ P[P[k].parent].loaded
               /\ k \in P[P[k].parent].kids
    <3>1. /\ N[k].parent \in DOMAIN N /\ k = Append(N[k].parent, N[k].name)
          /\ N[N[k].parent].kind = "dir" /\ N[N[k].parent].loaded /\ k \in N[N[k].parent].kids
      BY <1>0, <1>2, <2>1 DEF Linked
    <3>2. N[k].parent # n
      BY <3>1
    <3>3. N[k].parent \in DOMAIN P /\ P[k].parent = N[k].parent /\ P[k].name = N[k].name
      BY <1>2, <3>1, <3>2 DEF SameEntry
    <3> QED BY <1>2, <3>1, <3>3 DEF SameEntry
  <2>2. ASSUME NEW m \in DOMAIN P, NEW k \in P[m].kids
        PROVE  k \in DOMAIN P /\ k # <<>> /\ P[k].parent = m
    <3>1. k \in N[m].kids /\ k # n
      BY <1>2
    <3> QED BY <1>0, <1>2, <3>1 DEF Linked, SameEntry
  <2>3. <<>> \in DOMAIN P /\ P[<<>>].parent = NULL
    BY <1>0, <1>1, <1>2 DEF Linked, SameEntry
  <2> QED BY <2>1, <2>2, <2>3 DEF Linked
<1>5. Placed(P)
  BY <1>0, <1>1, <1>2 DEF Placed, SameEntry
<1>6. /\ E \in [Disks -> [Dirs -> SUBSET Entries]] /\ E[v][c] = D[v][c] \ {e}
      /\ \A w \in Disks, b \in Dirs : (w # v \/ b # c) => E[w][b] = D[w][b]
  BY DEF Written, Holds
<1>7. \A w \in Disks, b \in Dirs : \A f : f \in E[w][b] <=> f \in D[w][b] /\ ~(f = e /\ w = v /\ b = c)
  BY <1>6
<1>8. DiskOK(E)
  <2>1. \A w \in Disks, b \in Dirs : E[w][b] \subseteq D[w][b]
    BY <1>7
  <2>2. \A w \in Disks, b \in Dirs : IsFiniteSet(E[w][b])
    BY <1>0, <2>1, FS_Subset DEF DiskOK
  <2>3. /\ \A w \in Disks, b \in Dirs : \A f \in E[w][b] : f.kind = "file" <=> f.at = ROOT
        /\ \A w \in Disks, b \in Dirs : \A f, g \in E[w][b] : f.name = g.name => f = g
    BY <1>0, <2>1 DEF DiskOK
  <2>4. \A w \in Disks, b, g \in Dirs : \A f \in E[w][b], h \in E[w][g] :
          f.kind = "dir" /\ h.kind = "dir" /\ f.at = h.at => b = g /\ f = h
    BY <1>0, <2>1 DEF DiskOK
  <2> QED BY <1>6, <2>2, <2>3, <2>4 DEF DiskOK
<1>9. ASSUME NEW k \in DOMAIN P
      PROVE  /\ GoneIn(P, E, k) <=> GoneIn(N, D, k)
             /\ EntryOf(P[k]) = EntryOf(N[k]) /\ k \in DOMAIN N /\ k # n
  <2>1. SameEntry(P[k], N[k]) /\ k \in DOMAIN N /\ k # n
    BY <1>2
  <2>2. EntryOf(P[k]) = EntryOf(N[k])
    BY <2>1, EntryEqual DEF SameEntry
  <2>3. CASE N[k].kind = "dir" /\ N[k].loc # ROOT
    <3>1. EntryOf(N[k]) # e
      BY <1>1, <2>3, EntryParts
    <3>2. N[k].parent \in DOMAIN P
      <4>1. k # <<>>
        BY <1>0, <2>1, <2>3 DEF Placed
      <4>2. N[k].parent \in DOMAIN N /\ N[N[k].parent].kind = "dir"
        BY <1>0, <2>1, <4>1 DEF Linked
      <4> QED BY <1>2, <4>2
    <3>3. /\ N[k].disk \in Disks /\ N[N[k].parent].loc \in Dirs
          /\ P[P[k].parent].loc = N[N[k].parent].loc
      BY <1>0, <1>2, <2>1, <3>2, NodeFacts DEF SameEntry
    <3>4. EntryOf(N[k]) \in E[N[k].disk][N[N[k].parent].loc]
            <=> EntryOf(N[k]) \in D[N[k].disk][N[N[k].parent].loc]
      BY <1>7, <3>1, <3>3
    <3> QED BY <2>1, <2>2, <3>3, <3>4 DEF GoneIn, SameEntry
  <2>4. CASE ~(N[k].kind = "dir" /\ N[k].loc # ROOT)
    BY <2>1, <2>2, <2>4 DEF GoneIn, SameEntry
  <2> QED BY <2>1, <2>2, <2>3, <2>4
<1>10. Mirrored(P, E)
  <2> SUFFICES ASSUME NEW m \in DOMAIN P, P[m].loaded, ~GoneIn(P, E, m)
               PROVE  /\ \A k \in P[m].kids : P[k].kind = "file" => EntryOf(P[k]) \in Holds(P, E, m)
                      /\ \A f \in Holds(P, E, m) : Child(m, f) \in DOMAIN P
                                                   /\ EntryOf(P[Child(m, f)]) = f
    BY DEF Mirrored
  <2>1. N[m].loaded /\ ~GoneIn(N, D, m) /\ m \in DOMAIN N /\ N[m].disk \in Disks /\ N[m].loc \in Dirs
    BY <1>0, <1>2, <1>9, NodeFacts
  <2>2. /\ \A k \in N[m].kids : N[k].kind = "file" => EntryOf(N[k]) \in Holds(N, D, m)
        /\ \A f \in Holds(N, D, m) : Child(m, f) \in DOMAIN N /\ EntryOf(N[Child(m, f)]) = f
    BY <1>0, <2>1 DEF Mirrored
  <2>3. Holds(P, E, m) = IF m = d THEN Holds(N, D, m) \ {e} ELSE Holds(N, D, m)
    <3>1. CASE m = d
      BY <1>2, <1>6, <3>1 DEF Holds, SameEntry
    <3>2. CASE m # d
      <4>1. N[m].disk # v \/ N[m].loc # c
        BY <1>1, <2>1, <3>2, DirAlone
      <4>2. P[m].disk = N[m].disk /\ P[m].loc = N[m].loc
        BY <1>2, <2>1 DEF SameEntry
      <4>3. E[N[m].disk][N[m].loc] = D[N[m].disk][N[m].loc]
        BY <1>6, <2>1, <4>1
      <4> QED BY ONLY <3>2, <4>2, <4>3 DEF Holds
    <3> QED BY <3>1, <3>2, Zenon
  <2>4. ASSUME NEW k \in P[m].kids, P[k].kind = "file" PROVE EntryOf(P[k]) \in Holds(P, E, m)
    <3>1. k \in N[m].kids /\ k # n /\ k \in DOMAIN P
      BY <1>2, <1>4 DEF Linked
    <3>2. N[k].kind = "file" /\ EntryOf(P[k]) = EntryOf(N[k])
      BY <1>2, <1>9, <2>4, <3>1 DEF SameEntry
    <3>3. EntryOf(N[k]) \in Holds(N, D, m)
      BY <2>2, <3>1, <3>2
    <3>4. m = d => EntryOf(N[k]) # e
      <4> SUFFICES ASSUME m = d, EntryOf(N[k]) = e PROVE FALSE
        OBVIOUS
      <4>1. N[k].name = N[n].name
        BY EntryEqual
      <4>2. k \in DOMAIN N /\ k # <<>> /\ N[k].parent = d
        BY <1>0, <2>1, <3>1 DEF Linked
      <4>3. k = Append(d, N[k].name) /\ n = Append(d, N[n].name)
        BY <1>0, <1>1, <4>2 DEF Linked
      <4> QED BY <3>1, <4>1, <4>3
    <3> QED BY <2>3, <3>2, <3>3, <3>4
  <2>5. ASSUME NEW f \in Holds(P, E, m) PROVE Child(m, f) \in DOMAIN P /\ EntryOf(P[Child(m, f)]) = f
    <3>1. f \in Holds(N, D, m) /\ (m = d => f # e)
      BY <2>3
    <3>2. Child(m, f) \in DOMAIN N /\ EntryOf(N[Child(m, f)]) = f
      BY <2>2, <3>1
    <3>3. Child(m, f) # n
      <4> SUFFICES ASSUME Child(m, f) = n PROVE FALSE
        OBVIOUS
      <4>1. f.name \in AllNames
        <5>1. f \in D[N[m].disk][N[m].loc]
          BY <3>1 DEF Holds
        <5> QED BY <1>0, <2>1, <5>1, EntryFacts
      <4>2. N[n].parent = m
        <5> PICK a : a = f.name
          OBVIOUS
        <5>1. a \in AllNames /\ Append(m, a) = n
          BY <4>1 DEF Child
        <5>2. Append(m, a) \in DOMAIN N /\ m \in DOMAIN N /\ Nodelike(N) /\ Linked(N) /\ a \in AllNames
          BY <1>0, <2>1, <5>1
        <5>3. N[Append(m, a)].parent = m
          BY <5>2, KidOf
        <5> QED BY <5>1, <5>3
      <4> QED BY <3>1, <3>2, <4>2
    <3> QED BY <1>2, <1>9, <3>2, <3>3
  <2> QED BY <2>4, <2>5
<1>11. Ghosts(P, E)
  <2> SUFFICES ASSUME NEW k \in DOMAIN P, GoneIn(P, E, k) PROVE P[k].loaded /\ P[k].kids = {}
    BY DEF Ghosts
  <2>1. N[k].loaded /\ N[k].kids = {}
    BY <1>0, <1>9 DEF Ghosts
  <2> QED BY <1>2, <2>1
<1>12. OneDir(P, E)
  BY <1>0, <1>2, <1>9 DEF OneDir, SameEntry
<1> QED BY <1>3, <1>4, <1>5, <1>8, <1>10, <1>11, <1>12 DEF Tree

LEMMA PruneCounted ==
  ASSUME NEW N, NEW P, NEW D, Tree(N, D), Counted(N), NEW n \in DOMAIN N, N[n].kind = "file",
         ~N[n].opened, NEW d, d = N[n].parent, Pruned(N, P, d, n)
  PROVE  /\ Counted(P) /\ Opened(P) = Opened(N) /\ OpenFiles(P) = OpenFiles(N)
         /\ \A v \in Disks : OpenOn(P, v) = OpenOn(N, v)
<1>1. Nodelike(N) /\ Linked(N) /\ d \in DOMAIN N /\ n # d /\ n \in N[d].kids
  BY FileFacts DEF Tree
<1>2. ASSUME NEW k \in DOMAIN N, k # n PROVE Exact(P[k])
  <2>1. CASE k # d
    BY <1>2, <2>1 DEF Pruned, Counted
  <2>2. CASE k = d
    <3>1. /\ P[d].loaded = N[d].loaded /\ P[d].loc = N[d].loc /\ P[d].opened = N[d].opened
          /\ P[d].kids = N[d].kids \ {n} /\ P[d].ref = N[d].ref - 1
      BY DEF Pruned, SameEntry
    <3>2. N[d].ref = Cardinality(N[d].kids) + DotsOf(N[d]) + User(N[d])
      BY <1>1 DEF Counted, Exact
    <3>3. DotsOf(P[d]) = DotsOf(N[d]) /\ User(P[d]) = User(N[d])
      BY <3>1 DEF DotsOf, User
    <3>4. Cardinality(P[d].kids) = Cardinality(N[d].kids) - 1 /\ Cardinality(N[d].kids) \in Nat
      <4>1. IsFiniteSet(N[d].kids) /\ Cardinality(N[d].kids) \in Nat
        BY <1>1, KidsCount
      <4>2. Cardinality(N[d].kids \ {n}) = Cardinality(N[d].kids) - 1
        BY <1>1, <4>1, FS_RemoveElement
      <4> QED BY <3>1, <4>1, <4>2
    <3>5. DotsOf(N[d]) \in Int /\ User(N[d]) \in Int
      BY DEF DotsOf, User
    <3>6. P[d].ref = Cardinality(P[d].kids) + DotsOf(P[d]) + User(P[d])
      BY <3>1, <3>2, <3>3, <3>4, <3>5
    <3> QED BY <2>2, <3>6 DEF Exact
  <2> QED BY <2>1, <2>2
<1>3. DOMAIN P = DOMAIN N \ {n}
  BY DEF Pruned
<1>4. ASSUME NEW k \in DOMAIN P
      PROVE  P[k].opened = N[k].opened /\ P[k].kind = N[k].kind /\ P[k].disk = N[k].disk
  <2>1. CASE k = d
    BY <2>1 DEF Pruned, SameEntry
  <2>2. CASE k # d
    BY <1>3, <2>2 DEF Pruned
  <2> QED BY <2>1, <2>2
<1>5. Opened(P) = Opened(N) /\ OpenFiles(P) = OpenFiles(N)
  BY <1>3, <1>4 DEF Opened, OpenFiles
<1>6. ASSUME NEW v \in Disks PROVE OpenOn(P, v) = OpenOn(N, v)
  BY <1>3, <1>4 DEF OpenOn
<1> QED BY <1>2, <1>3, <1>5, <1>6 DEF Counted

LEMMA PruneFields ==
  ASSUME NEW p, IsFs(p), Nodelike(p.node), NEW n \in DOMAIN p.node, NEW d, d = p.node[n].parent,
         d \in DOMAIN p.node, d # NULL, d # n, p.node[n].ref = 0
  PROVE  LET r == rmNodeFromTree(p, n)
         IN  /\ IsFs(r) /\ Beside(p, r) /\ r.dirs = p.dirs /\ r.used = p.used /\ r.opened = p.opened
             /\ Pruned(p.node, r.node, d, n)
<1> DEFINE N == p.node
           y == [N[d] EXCEPT !.kids = @ \ {n}, !.ref = @ - 1]
           M == [N EXCEPT ![d] = y]
           P == [k \in DOMAIN N \ {n} |-> M[k]]
           r == [node |-> P, mount |-> p.mount, opened |-> p.opened, info |-> p.info,
                 mounted |-> p.mounted, used |-> p.used, dirs |-> p.dirs, hung |-> p.hung]
<1>0. N[d] \in NodeType /\ N[d].ref \in Int /\ N[d].kids \subseteq Keys
  BY NodeFacts
<1>1. /\ y.kids = N[d].kids \ {n} /\ y.ref = N[d].ref - 1 /\ y.opened = N[d].opened
      /\ y.loaded = N[d].loaded /\ SameEntry(y, N[d]) /\ y \in NodeType
  <2> PICK S, i : S = N[d].kids \ {n} /\ i = N[d].ref - 1
    OBVIOUS
  <2>1. S \in SUBSET Keys /\ i \in Int
    BY <1>0
  <2>2. y = [N[d] EXCEPT !.kids = S, !.ref = i]
    BY <1>0 DEF NodeType
  <2> HIDE DEF y, N
  <2>3. y \in NodeType
    BY <1>0, <2>1, <2>2 DEF NodeType
  <2>4. SameEntry(y, N[d]) /\ y.opened = N[d].opened /\ y.loaded = N[d].loaded
        /\ y.kids = S /\ y.ref = i
    BY <1>0, <2>2 DEF NodeType, SameEntry
  <2> QED BY <2>3, <2>4
<1>2. rmNodeFromTree(p, n) = r
  <2> DEFINE a == [p EXCEPT !.node[d].kids = @ \ {n}, !.node[d].ref = @ - 1]
  <2>1. a = [p EXCEPT !.node = M]
    BY DEF IsFs
  <2>2. rmNodeFromTree(p, n) = freeNodes(a, {n})
    BY DEF rmNodeFromTree
  <2> HIDE DEF a
  <2>3. a.node = M /\ a = [p EXCEPT !.node = M]
    BY <2>1 DEF IsFs
  <2>4. DOMAIN M = DOMAIN N
    OBVIOUS
  <2> HIDE DEF M
  <2>5. freeNodes(a, {n}) = [a EXCEPT !.node = P]
    BY <2>3, <2>4 DEF freeNodes, Live
  <2> HIDE DEF P
  <2> QED BY <2>2, <2>3, <2>5, ZenonT(40) DEF IsFs
<1> HIDE DEF y
<1>3. DOMAIN M = DOMAIN N /\ M[d] = y /\ \A k \in DOMAIN N : k # d => M[k] = N[k]
  OBVIOUS
<1> HIDE DEF M
<1>4. DOMAIN P = DOMAIN N \ {n} /\ \A k \in DOMAIN P : P[k] = M[k]
  OBVIOUS
<1>5. P \in [DOMAIN P -> NodeType]
  <2>1. \A k \in DOMAIN N : N[k] \in NodeType
    BY NodeFacts
  <2>2. ASSUME NEW k \in DOMAIN P PROVE P[k] \in NodeType
    BY <1>1, <1>3, <1>4, <2>1
  <2> QED BY <2>2
<1>6. IsFs(r) /\ Beside(p, r) /\ r.dirs = p.dirs /\ r.used = p.used /\ r.opened = p.opened
      /\ r.node = P
  <2> HIDE DEF P
  <2> QED BY DEF IsFs, Beside
<1> HIDE DEF r, P
<1>7. \A k \in DOMAIN N : k # d /\ k # n => P[k] = N[k]
  BY <1>3, <1>4
<1>8. P[d] = y
  BY <1>3, <1>4
<1>9. Pruned(N, P, d, n)
  BY <1>1, <1>4, <1>5, <1>7, <1>8 DEF Pruned
<1> QED BY <1>2, <1>6, <1>9

LEMMA RemoveGood ==
  ASSUME NEW q, Good(q), NEW n \in DOMAIN q.node, q.node[n].kind = "file", ~q.node[n].opened,
         NEW d, d = q.node[n].parent, NEW p, Twin(p, q),
         Written(q.dirs, p.dirs, q.node[d].disk, q.node[d].loc,
                 Holds(q.node, q.dirs, d) \ {EntryOf(q.node[n])})
  PROVE  Called(q, rmNodeFromTree(p, n), Opened(q.node))
<1> PICK r : r = rmNodeFromTree(p, n)
  OBVIOUS
<1>0. /\ q.hung = FALSE /\ Tree(q.node, q.dirs) /\ Counted(q.node) /\ Listed(q)
      /\ Volumes(q) /\ Nodelike(q.node) /\ Linked(q.node)
  BY DEF Good, Tree
<1>1. d \in DOMAIN q.node /\ d # n /\ n \notin {<<>>, Card} /\ q.node[n].kids = {} /\ ~q.node[n].loaded
  BY <1>0, FileFacts
<1>2. d # NULL
  BY <1>0, <1>1, NodeFacts, KeyFacts
<1>3. q.node[n].ref = 0
  <2>1. Exact(q.node[n])
    BY <1>0 DEF Counted
  <2>2. Cardinality(q.node[n].kids) = 0 /\ DotsOf(q.node[n]) = 0 /\ User(q.node[n]) = 0
    BY <1>1, FS_EmptySet DEF DotsOf, User
  <2> QED BY <2>1, <2>2 DEF Exact
<1>4. /\ IsFs(p) /\ Beside(q, p) /\ p.node = q.node /\ p.opened = q.opened /\ p.used = q.used
  BY DEF Twin
<1>5. /\ IsFs(r) /\ Beside(p, r) /\ r.dirs = p.dirs /\ r.used = p.used /\ r.opened = p.opened
      /\ Pruned(p.node, r.node, d, n)
  <2>1. /\ Nodelike(p.node) /\ n \in DOMAIN p.node /\ d = p.node[n].parent /\ d \in DOMAIN p.node
        /\ d # NULL /\ d # n /\ p.node[n].ref = 0 /\ IsFs(p)
    BY <1>0, <1>1, <1>2, <1>3, <1>4
  <2> QED BY <2>1, PruneFields
<1>6. Pruned(q.node, r.node, d, n)
  BY <1>4, <1>5
<1>7. Tree(r.node, r.dirs)
  BY <1>0, <1>5, <1>6, PruneTree
<1>8. /\ Counted(r.node) /\ Opened(r.node) = Opened(q.node) /\ OpenFiles(r.node) = OpenFiles(q.node)
      /\ \A v \in Disks : OpenOn(r.node, v) = OpenOn(q.node, v)
  BY <1>0, <1>6, PruneCounted
<1>9. Listed(r)
  BY <1>0, <1>4, <1>5, <1>8 DEF Listed
<1>10. Beside(q, r)
  BY <1>4, <1>5 DEF Beside
<1>11. Volumes(r) /\ r.hung = FALSE
  <2>1. Card \in DOMAIN q.node <=> Card \in DOMAIN r.node
    BY <1>1, <1>6, Zenon DEF Pruned
  <2> QED BY <1>0, <1>10, <2>1, VolumesStay, Zenon DEF Beside
<1>12. q.node[<<>>].loaded => r.node[<<>>].loaded
  BY <1>1, <1>6, RootThere DEF Pruned
<1> QED BY <1>5, <1>7, <1>8, <1>9, <1>10, <1>11, <1>12 DEF Good, Called

LEMMA TwinClose ==
  ASSUME NEW q, IsFs(q), Nodelike(q.node), NEW n \in DOMAIN q.node, NEW p, Twin(p, q)
  PROVE  /\ Twin(closeNode(p, n), closeNode(q, n))
         /\ closeNode(p, n).dirs = p.dirs /\ closeNode(q, n).dirs = q.dirs
<1> PICK s, r : s = closeNode(p, n) /\ r = closeNode(q, n)
  OBVIOUS
<1>1. IsFs(r) /\ Beside(q, r) /\ r.dirs = q.dirs
  BY CloseFields
<1>2. IsFs(s) /\ Beside(p, s) /\ s.dirs = p.dirs
  BY CloseFields DEF Twin
<1>3. p.node = q.node /\ p.opened = q.opened /\ p.used = q.used /\ Beside(q, p)
  BY DEF Twin
<1>4. s.node = r.node /\ s.opened = r.opened /\ s.used = r.used
  <2>1. /\ r.node = [[q.node EXCEPT ![n].opened = FALSE] EXCEPT ![n].ref = @ - 1]
        /\ r.opened = [q.opened EXCEPT ![q.node[n].disk] = @ \ {n}]
        /\ r.used = IF q.node[n].kind = "file" THEN q.used - 1 ELSE q.used
    BY DEF closeNode, IsFs
  <2>2. IsFs(p)
    BY DEF Twin
  <2>3. /\ s.node = [[p.node EXCEPT ![n].opened = FALSE] EXCEPT ![n].ref = @ - 1]
        /\ s.opened = [p.opened EXCEPT ![p.node[n].disk] = @ \ {n}]
        /\ s.used = IF p.node[n].kind = "file" THEN p.used - 1 ELSE p.used
    BY <2>2 DEF closeNode, IsFs
  <2> QED BY <1>3, <2>1, <2>3
<1>5. Beside(r, s)
  BY <1>1, <1>2, <1>3, Zenon DEF Beside
<1> QED BY <1>1, <1>2, <1>4, <1>5 DEF Twin

LEMMA RmFields ==
  ASSUME NEW q, IsFs(q), Nodelike(q.node), DiskOK(q.dirs), NEW n \in DOMAIN q.node,
         NEW d, d = q.node[n].parent, d \in DOMAIN q.node
  PROVE  Twin(rmEntry(q, n), q) /\ Written(q.dirs, rmEntry(q, n).dirs, q.node[d].disk, q.node[d].loc,
                                           Holds(q.node, q.dirs, d) \ {EntryOf(q.node[n])})
<1> PICK p, D, v, c, e : /\ p = rmEntry(q, n) /\ D = q.dirs /\ v = q.node[d].disk
                         /\ c = q.node[d].loc /\ e = EntryOf(q.node[n])
  OBVIOUS
<1>1. v \in Disks /\ c \in Dirs
  BY NodeFacts
<1>2. D \in [Disks -> [Dirs -> SUBSET Entries]]
  BY DEF DiskOK
<1> PICK S : S = D[v][c] \ {e}
  OBVIOUS
<1>3. S \in SUBSET Entries
  BY <1>1, <1>2, Zenon
<1> PICK E : E = [D EXCEPT ![v][c] = S]
  BY Zenon
<1>4. Written(D, E, v, c, S)
  BY <1>1, <1>2, <1>3, EntryWritten, Zenon
<1>5. p = [q EXCEPT !.dirs = E]
  BY Zenon DEF rmEntry, IsFs
<1>6. Twin(p, q) /\ p.dirs = E
  BY <1>5, Zenon DEF Twin, IsFs, Beside
<1> QED BY <1>4, <1>6, Zenon DEF Holds

\* The entry of file n goes first, then some nodes are closed, n too, and n goes.
Closing(q, c) ==
  /\ Good(c) /\ c.dirs = q.dirs /\ DOMAIN c.node = DOMAIN q.node
  /\ \A k \in DOMAIN q.node : Alike(c.node[k], q.node[k])

LEMMA RemoveLater ==
  ASSUME NEW q, Good(q), NEW n \in DOMAIN q.node, q.node[n].kind = "file", NEW c, Closing(q, c),
         ~c.node[n].opened, NEW b, Twin(b, c), b.dirs = rmEntry(q, n).dirs
  PROVE  Called(c, rmNodeFromTree(b, n), Opened(c.node))
<1> PICK d, a, r : d = q.node[n].parent /\ a = rmEntry(q, n) /\ r = rmNodeFromTree(b, n)
  OBVIOUS
<1>0. IsFs(q) /\ Tree(q.node, q.dirs) /\ Nodelike(q.node) /\ DiskOK(q.dirs)
  BY DEF Good, Tree
<1>1. d \in DOMAIN q.node
  BY <1>0, FileFacts
<1>2. Twin(a, q) /\ Written(q.dirs, a.dirs, q.node[d].disk, q.node[d].loc,
                            Holds(q.node, q.dirs, d) \ {EntryOf(q.node[n])})
  BY <1>0, <1>1, RmFields
<1>5. /\ Good(c) /\ c.dirs = q.dirs /\ n \in DOMAIN c.node
      /\ Alike(c.node[n], q.node[n]) /\ Alike(c.node[d], q.node[d])
  BY <1>1 DEF Closing
<1>6. c.node[n].kind = "file" /\ ~c.node[n].opened /\ d = c.node[n].parent
  BY <1>5 DEF Alike
<1>7. /\ EntryOf(c.node[n]) = EntryOf(q.node[n]) /\ c.node[d].disk = q.node[d].disk
      /\ c.node[d].loc = q.node[d].loc
  BY <1>5, EntryEqual DEF Alike
<1>8. Holds(c.node, c.dirs, d) = Holds(q.node, q.dirs, d)
  BY <1>5, <1>7 DEF Holds
<1>9. Written(c.dirs, b.dirs, c.node[d].disk, c.node[d].loc,
              Holds(c.node, c.dirs, d) \ {EntryOf(c.node[n])})
  BY <1>2, <1>5, <1>7, <1>8
<1> QED BY <1>5, <1>6, <1>9, RemoveGood

LEMMA CloseClosing ==
  ASSUME NEW q, NEW c, Closing(q, c), NEW n \in DOMAIN q.node, c.node[n].opened
  PROVE  /\ Closing(q, closeNode(c, n)) /\ Opened(closeNode(c, n).node) = Opened(c.node) \ {n}
         /\ Called(c, closeNode(c, n), Opened(c.node) \ {n})
<1> PICK r, M : r = closeNode(c, n) /\ M = Opened(c.node) \ {n}
  OBVIOUS
<1>1. /\ Good(c) /\ c.dirs = q.dirs /\ DOMAIN c.node = DOMAIN q.node
      /\ \A k \in DOMAIN q.node : Alike(c.node[k], q.node[k])
  BY DEF Closing
<1>2. NowClosed(c, n, r)
  BY <1>1, GoodClose
<1>3. /\ Good(r) /\ Grows(c, r) /\ Opened(r.node) = M /\ DOMAIN r.node = DOMAIN c.node
      /\ \A k \in DOMAIN c.node : Alike(r.node[k], c.node[k])
  BY <1>2 DEF NowClosed
<1>4. \A k \in DOMAIN q.node : Alike(r.node[k], q.node[k])
  BY <1>1, <1>3 DEF Alike
<1>5. r.dirs = q.dirs
  BY <1>1, <1>3 DEF Grows
<1>6. Closing(q, r)
  BY <1>1, <1>3, <1>4, <1>5 DEF Closing
<1>7. Called(c, r, M)
  BY <1>1, <1>3, GrowsCalled
<1> QED BY <1>3, <1>6, <1>7

LEMMA RemoveOpened ==
  ASSUME NEW q, Good(q), NEW n \in DOMAIN q.node, q.node[n].kind = "file", q.node[n].opened
  PROVE  Called(q, rmNodeFromTree(closeNode(rmEntry(q, n), n), n), Opened(q.node) \ {n})
<1> PICK a, b, c, r, O : /\ a = rmEntry(q, n) /\ b = closeNode(a, n) /\ c = closeNode(q, n)
                         /\ r = rmNodeFromTree(b, n) /\ O = Opened(q.node) \ {n}
  OBVIOUS
<1>0. IsFs(q) /\ Tree(q.node, q.dirs) /\ Nodelike(q.node) /\ DiskOK(q.dirs)
  BY DEF Good, Tree
<1>1. Closing(q, q)
  BY DEF Closing, Alike
<1>2. Closing(q, c) /\ Opened(c.node) = O /\ Called(q, c, O)
  BY <1>1, CloseClosing
<1>3. ~c.node[n].opened
  BY <1>2 DEF Opened, Closing
<1>4. Twin(a, q)
  BY <1>0, FileFacts, RmFields
<1>5. Twin(b, c) /\ b.dirs = a.dirs
  BY <1>0, <1>4, TwinClose
<1>6. Called(c, r, O)
  BY <1>2, <1>3, <1>5, RemoveLater
<1>7. Called(q, r, O)
  BY ONLY <1>2, <1>6, CalledTwice
<1> QED BY <1>7

LEMMA RemoveFile ==
  ASSUME NEW q, Good(q), NEW path \in Paths
  PROVE  Called(q, removeFile(q, path), Opened(q.node))
<1> PICK o, r : o = openFile(q, path, FALSE) /\ r = removeFile(q, path)
  OBVIOUS
<1>1. Tried(q, path, "file", o)
  BY TriedFile
<1>2. Good(o.q) /\ Grows(q, o.q)
  BY <1>1 DEF Tried
<1>3. CASE o.fd = NULL /\ Opened(o.q.node) = Opened(q.node)
  <2>1. r = o.q
    BY <1>3 DEF removeFile
  <2> QED BY <1>2, <1>3, <2>1, GrowsCalled
<1>4. CASE /\ o.fd = path /\ path # NULL /\ path \in DOMAIN o.q.node /\ path \notin Opened(q.node)
           /\ Opened(o.q.node) = Opened(q.node) \cup {path} /\ o.q.node[path].kind = "file"
  <2>1. r = rmNodeFromTree(closeNode(rmEntry(o.q, path), path), path)
    BY <1>4 DEF removeFile
  <2>2. o.q.node[path].opened
    BY <1>4 DEF Opened
  <2>3. Called(o.q, r, Opened(o.q.node) \ {path})
    <3> PICK a, n : a = o.q /\ n = path
      OBVIOUS
    <3>1. /\ Good(a) /\ n \in DOMAIN a.node /\ a.node[n].kind = "file" /\ a.node[n].opened
          /\ r = rmNodeFromTree(closeNode(rmEntry(a, n), n), n)
      BY <1>2, <1>4, <2>1, <2>2
    <3>2. Called(a, rmNodeFromTree(closeNode(rmEntry(a, n), n), n), Opened(a.node) \ {n})
      BY ONLY <3>1, RemoveOpened
    <3> QED BY <3>1, <3>2
  <2>4. Called(q, o.q, Opened(o.q.node))
    BY <1>2, GrowsCalled
  <2>5. Called(q, r, Opened(o.q.node) \ {path})
    <3> PICK a, O, M : a = o.q /\ O = Opened(o.q.node) /\ M = O \ {path}
      OBVIOUS
    <3>1. Called(q, a, O) /\ Called(a, r, M)
      BY <2>3, <2>4
    <3>2. Called(q, r, M)
      BY ONLY <3>1, CalledTwice
    <3> QED BY <3>2
  <2>6. Opened(o.q.node) \ {path} = Opened(q.node)
    BY <1>4
  <2> QED BY <2>5, <2>6
<1> QED BY <1>1, <1>3, <1>4 DEF Tried

(***************************************************************************)
(* Making a directory.                                                     *)
(***************************************************************************)
LEMMA ParentDisk ==
  ASSUME NEW N, Nodelike(N), Linked(N), Placed(N), NEW n \in DOMAIN N, n \notin {<<>>, Card}
  PROVE  N[N[n].parent].disk = N[n].disk /\ N[n].parent \in DOMAIN N
<1> PICK d, a : d = N[n].parent /\ a = N[n].name
  OBVIOUS
<1>1. d \in DOMAIN N /\ n = Append(d, a) /\ d \in Keys /\ a \in AllNames /\ a \in Names
  BY ParentFacts DEF Placed
<1>2. Len(d) <= 2
  <2>1. Len(d) \in 0..3 /\ Len(n) \in 0..3 /\ d \in Seq(AllNames)
    BY <1>1, NodeFacts, KeyLen
  <2>2. Len(n) = Len(d) + 1
    BY <1>1, <2>1, AppendParts
  <2> QED BY <2>1, <2>2
<1>3. Volume(n) = Volume(d)
  <2>0. /\ d \in Keys /\ Len(d) <= 2 /\ a \in AllNames /\ n = Append(d, a)
    BY <1>1, <1>2
  <2>1. /\ d # <<>> => Volume(Append(d, a)) = Volume(d)
        /\ d = <<>> /\ a # CF_0 => Volume(Append(d, a)) = "HD"
    BY ONLY <2>0, ChildKey
  <2>2. d = <<>> => a # CF_0
    <3>1. n # Card
      OBVIOUS
    <3>2. Card = Append(<<>>, CF_0)
      BY KeyFacts
    <3> QED BY ONLY <2>0, <3>1, <3>2
  <2>3. Volume(<<>>) = "HD"
    BY KeyFacts
  <2> QED BY ONLY <2>0, <2>1, <2>2, <2>3
<1> QED BY <1>1, <1>3 DEF Placed

\* A directory that is there has an entry where its parent is.
LEMMA DirEntry ==
  ASSUME NEW N, NEW D, Tree(N, D), NEW n \in DOMAIN N, N[n].kind = "dir", N[n].loc # ROOT,
         ~GoneIn(N, D, n)
  PROVE  /\ EntryOf(N[n]) \in D[N[n].disk][N[N[n].parent].loc]
         /\ N[n].disk \in Disks /\ N[N[n].parent].loc \in Dirs /\ n \notin {<<>>, Card}
         /\ N[n].parent \in DOMAIN N /\ N[N[n].parent].disk = N[n].disk
         /\ EntryOf(N[n]).at = N[n].loc /\ EntryOf(N[n]).kind = "dir"
<1>1. Nodelike(N) /\ Linked(N) /\ Placed(N)
  BY DEF Tree
<1>2. n \notin {<<>>, Card}
  BY <1>1 DEF Placed
<1>3. N[n].parent \in DOMAIN N /\ N[N[n].parent].disk = N[n].disk
  BY <1>1, <1>2, ParentDisk
<1>4. N[n].disk \in Disks /\ N[N[n].parent].loc \in Dirs
  BY <1>1, <1>3, NodeFacts
<1> QED BY <1>2, <1>3, <1>4, EntryParts DEF GoneIn

\* A node for a new directory: no entry has its cluster.
NewDir(N, D, d, x) ==
  /\ x \in NodeType /\ x.kind = "dir" /\ x.loc # ROOT /\ x.loaded /\ x.kids = {} /\ x.ref = 2
  /\ ~x.opened /\ x.name \in Names /\ x.disk = Volume(Child(d, x)) /\ x.disk = N[d].disk
  /\ Child(d, x) \notin DOMAIN N
  /\ \A b \in Dirs : \A f \in D[x.disk][b] : f.at # x.loc

LEMMA DirSuits ==
  ASSUME NEW N, NEW D, Tree(N, D), NEW d \in DOMAIN N, N[d].kind = "dir", N[d].loaded,
         ~GoneIn(N, D, d), NEW x, NewDir(N, D, d, x), NEW F, NEW E,
         Written(D, F, N[d].disk, N[d].loc, Holds(N, D, d) \cup {EntryOf(x)}),
         Written(F, E, x.disk, x.loc, {})
  PROVE  DiskOK(E) /\ Suits(N, D, E, d, {x})
<1> PICK e, v, c, l : e = EntryOf(x) /\ v = N[d].disk /\ c = N[d].loc /\ l = x.loc
  OBVIOUS
<1>1. /\ Nodelike(N) /\ Linked(N) /\ Placed(N) /\ DiskOK(D) /\ Ghosts(N, D) /\ OneDir(N, D)
      /\ v \in Disks /\ c \in Dirs
      /\ \A n \in DOMAIN N : n # d /\ N[n].loaded /\ ~GoneIn(N, D, n) =>
              N[n].disk # v \/ N[n].loc # c
      /\ \A f \in D[v][c] : Child(d, f) \in DOMAIN N
  BY DirAlone DEF Tree, Holds
<1>2. /\ e.name = x.name /\ e.kind = "dir" /\ e.at = l /\ l # ROOT /\ l \in Dirs /\ x.disk = v
      /\ x.loaded /\ x.kind = "dir" /\ \A b \in Dirs : \A f \in D[v][b] : f.at # l
  BY EntryParts DEF NewDir, NodeType
<1>3. ASSUME NEW m \in DOMAIN N, N[m].kind = "dir", ~GoneIn(N, D, m), N[m].disk = v
      PROVE  N[m].loc # l
  <2>1. CASE N[m].loc = ROOT
    BY <1>2, <2>1
  <2>2. CASE N[m].loc # ROOT
    BY <1>2, <1>3, <2>2, DirEntry
  <2> QED BY <2>1, <2>2
<1>4. c # l
  BY <1>3
<1>5. /\ E \in [Disks -> [Dirs -> SUBSET Entries]] /\ E[v][c] = D[v][c] \cup {e} /\ E[v][l] = {}
      /\ \A w \in Disks, b \in Dirs : (w # v \/ (b # c /\ b # l)) => E[w][b] = D[w][b]
  BY <1>1, <1>2, <1>4 DEF Written, Holds
<1>6. ASSUME NEW f \in D[v][c] PROVE f.name # e.name
  BY <1>1, <1>2 DEF Child, NewDir
<1>7. \A w \in Disks, b \in Dirs : \A f \in E[w][b] : f \in D[w][b] \/ (f = e /\ w = v /\ b = c)
  BY <1>5
<1>8. DiskOK(E)
  <2>1. ASSUME NEW w \in Disks, NEW b \in Dirs
        PROVE  /\ IsFiniteSet(E[w][b])
               /\ \A f \in E[w][b] : f.kind = "file" <=> f.at = ROOT
               /\ \A f, g \in E[w][b] : f.name = g.name => f = g
    <3>0. /\ IsFiniteSet(D[w][b]) /\ \A f \in D[w][b] : f.kind = "file" <=> f.at = ROOT
          /\ \A f, g \in D[w][b] : f.name = g.name => f = g
      BY <1>1 DEF DiskOK
    <3>1. IsFiniteSet(D[w][b] \cup {e}) /\ IsFiniteSet({})
      BY <3>0, FS_AddElement, FS_EmptySet
    <3>2. E[w][b] = D[w][b] \/ E[w][b] = {} \/ (E[w][b] = D[w][b] \cup {e} /\ w = v /\ b = c)
      BY <1>5
    <3>3. \A f, g \in E[w][b] : f.name = g.name => f = g
      BY <1>6, <3>0, <3>2
    <3>4. \A f \in E[w][b] : f.kind = "file" <=> f.at = ROOT
      BY <1>2, <3>0, <3>2
    <3> QED BY <3>0, <3>1, <3>2, <3>3, <3>4
  <2>2. \A w \in Disks, b, g \in Dirs : \A f \in E[w][b], h \in E[w][g] :
          f.kind = "dir" /\ h.kind = "dir" /\ f.at = h.at => b = g /\ f = h
    <3> SUFFICES ASSUME NEW w \in Disks, NEW b \in Dirs, NEW g \in Dirs, NEW f \in E[w][b],
                        NEW h \in E[w][g], f.kind = "dir", h.kind = "dir", f.at = h.at
                 PROVE  b = g /\ f = h
      OBVIOUS
    <3>1. (f \in D[w][b] \/ (f = e /\ w = v /\ b = c)) /\ (h \in D[w][g] \/ (h = e /\ w = v /\ g = c))
      BY <1>7
    <3>2. CASE f \in D[w][b] /\ h \in D[w][g]
      BY <1>1, <3>2 DEF DiskOK
    <3>3. CASE (f = e /\ w = v /\ b = c) /\ (h = e /\ w = v /\ g = c)
      BY <3>3
    <3>4. CASE (f = e /\ w = v /\ b = c) /\ h \in D[w][g]
      BY <1>2, <3>4
    <3>5. CASE f \in D[w][b] /\ (h = e /\ w = v /\ g = c)
      BY <1>2, <3>5
    <3> QED BY <3>1, <3>2, <3>3, <3>4, <3>5
  <2> QED BY <1>5, <2>1, <2>2 DEF DiskOK
<1>9. ASSUME NEW n \in DOMAIN N PROVE GoneIn(N, E, n) <=> GoneIn(N, D, n)
  <2>1. CASE ~(N[n].kind = "dir" /\ N[n].loc # ROOT)
    BY <2>1 DEF GoneIn
  <2>2. CASE N[n].kind = "dir" /\ N[n].loc # ROOT
    <3> PICK m : m = N[n].parent
      OBVIOUS
    <3>1. /\ n \notin {<<>>, Card} /\ m \in DOMAIN N /\ N[m].disk = N[n].disk
          /\ N[n].disk \in Disks /\ N[m].loc \in Dirs /\ N[m].kind = "dir" /\ N[m].loaded
          /\ n \in N[m].kids /\ n = Append(m, N[n].name)
      <4>1. n \notin {<<>>, Card}
        BY <1>1, <2>2 DEF Placed
      <4>2. m \in DOMAIN N /\ N[m].disk = N[n].disk
        BY <1>1, <4>1, ParentDisk
      <4> QED BY <1>1, <4>1, <4>2, ParentFacts, NodeFacts
    <3>2. ~GoneIn(N, D, m)
      BY <1>1, <3>1 DEF Ghosts
    <3>3. EntryOf(N[n]) \in E[N[n].disk][N[m].loc] <=> EntryOf(N[n]) \in D[N[n].disk][N[m].loc]
      <4>1. CASE m = d
        <5>1. EntryOf(N[n]) # e
          <6> SUFFICES ASSUME EntryOf(N[n]) = e PROVE FALSE
            OBVIOUS
          <6>1. N[n].name = x.name
            BY <1>2, EntryParts
          <6>2. n = Child(d, x)
            BY <3>1, <4>1, <6>1 DEF Child
          <6> QED BY <6>2 DEF NewDir
        <5> QED BY <1>5, <3>1, <4>1, <5>1
      <4>2. CASE m # d
        <5>1. N[m].disk # v \/ (N[m].loc # c /\ N[m].loc # l)
          BY <1>1, <1>3, <3>1, <3>2, <4>2
        <5> QED BY <1>5, <3>1, <5>1
      <4> QED BY <4>1, <4>2
    <3> QED BY <3>3 DEF GoneIn
  <2> QED BY <2>1, <2>2
<1>10. ASSUME NEW n \in DOMAIN N, n # d, N[n].loaded, ~GoneIn(N, D, n)
       PROVE  Holds(N, E, n) = Holds(N, D, n)
  <2>1. N[n].disk \in Disks /\ N[n].loc \in Dirs /\ N[n].kind = "dir"
    BY <1>1, <1>10, NodeFacts DEF Placed, Kinds
  <2>2. N[n].disk # v \/ (N[n].loc # c /\ N[n].loc # l)
    BY <1>1, <1>3, <1>10, <2>1
  <2> QED BY <1>5, <2>1, <2>2 DEF Holds
<1>11. Holds(N, E, d) = Holds(N, D, d) \cup {e}
  BY <1>5 DEF Holds
<1>12. E[x.disk][x.loc] = {}
  BY <1>2, <1>5
<1>13. \A m \in DOMAIN N : N[m].kind = "dir" /\ ~GoneIn(N, D, m) /\ N[m].disk = x.disk
                           => N[m].loc # x.loc
  BY <1>2, <1>3
<1> QED BY <1>8, <1>9, <1>10, <1>11, <1>12, <1>13 DEF Suits

LEMMA AddDir ==
  ASSUME NEW q, Good(q), NEW d \in DOMAIN q.node, Len(d) <= 1, q.node[d].kind = "dir",
         q.node[d].loaded, ~GoneIn(q.node, q.dirs, d), NEW x, NewDir(q.node, q.dirs, d, x),
         NEW v, v = x.disk, NEW l, l = x.loc
  PROVE  Called(q, [addChild(putEntry(q, d, EntryOf(x)), d, x) EXCEPT !.dirs[v][l] = {}],
                Opened(q.node))
<1> PICK e, p, a, s : /\ e = EntryOf(x) /\ p = putEntry(q, d, e) /\ a = addChild(p, d, x)
                      /\ s = [a EXCEPT !.dirs[v][l] = {}]
  OBVIOUS
<1>0. /\ IsFs(q) /\ Tree(q.node, q.dirs) /\ Nodelike(q.node) /\ DiskOK(q.dirs)
      /\ v \in Disks /\ l \in Dirs
  BY DEF Good, Tree, NewDir, NodeType
<1>1. e \in Entries
  BY KeyFacts DEF EntryOf, Entries, NewDir, NodeType, Kinds
<1>2. Twin(p, q) /\ Written(q.dirs, p.dirs, q.node[d].disk, q.node[d].loc,
                            Holds(q.node, q.dirs, d) \cup {e})
  BY <1>0, <1>1, PutFields
<1>4. Child(d, x) # Card
  <2>1. x.name \in Names /\ CF_0 \notin Names /\ Card = Append(<<>>, CF_0) /\ x.name \in AllNames
        /\ CF_0 \in AllNames /\ <<>> \in Keys /\ d \in Keys
    BY <1>0, KeyFacts, NodeFacts DEF NewDir
  <2>2. Append(d, x.name) # Append(<<>>, CF_0)
    BY <2>1, SameChild
  <2> QED BY <2>1, <2>2 DEF Child
<1>5. Fresh(q.node, d, {x})
  <2>1. IsFiniteSet({x})
    BY FS_Singleton
  <2> QED BY <1>4, <2>1 DEF Fresh, NewDir
<1>6. Exact(x) /\ ~x.opened
  BY FS_EmptySet DEF NewDir, Exact, DotsOf, User
<1>7. Len(d) <= 2
  <2>1. Len(d) \in 0..3
    BY <1>0, NodeFacts, KeyLen
  <2> QED BY <2>1
<1>8. /\ IsFs(a) /\ Beside(p, a) /\ a.dirs = p.dirs /\ a.used = p.used /\ a.opened = p.opened
      /\ Grafted(p.node, a.node, d, {x}, p.node[d].loaded, Cardinality({x}))
  <2>1. a = addChildren(p, d, {x})
    BY DEF addChild
  <2>2. IsFs(p) /\ Nodelike(p.node) /\ d \in DOMAIN p.node /\ Fresh(p.node, d, {x})
    BY <1>0, <1>2, <1>5 DEF Twin
  <2> QED BY <1>7, <2>1, <2>2, AddFields
<1>9. Grafted(q.node, a.node, d, {x}, TRUE, 1)
  <2>1. p.node = q.node /\ Cardinality({x}) = 1
    BY <1>2, FS_Singleton DEF Twin
  <2>2. p.node[d].loaded = TRUE
    BY <1>0, <2>1, NodeFacts
  <2> PICK b, i : b = p.node[d].loaded /\ i = Cardinality({x})
    OBVIOUS
  <2>3. Grafted(q.node, a.node, d, {x}, b, i)
    BY <1>8, <2>1
  <2>4. b = TRUE /\ i = 1
    BY <2>1, <2>2
  <2> QED BY <2>3, <2>4
<1>10. IsFs(s) /\ Beside(a, s) /\ s.node = a.node /\ s.opened = a.opened /\ s.used = a.used
       /\ Written(a.dirs, s.dirs, v, l, {})
  <2> PICK E : E = [a.dirs EXCEPT ![v][l] = {}]
    OBVIOUS
  <2>1. a.dirs \in [Disks -> [Dirs -> SUBSET Entries]]
    BY <1>2, <1>8 DEF Written
  <2>2. Written(a.dirs, E, v, l, {})
    BY <1>0, <2>1, EntryWritten
  <2>3. s = [a EXCEPT !.dirs = E]
    BY <1>8 DEF IsFs
  <2>4. s.dirs = E /\ IsFs(s) /\ Beside(a, s) /\ s.node = a.node /\ s.opened = a.opened /\ s.used = a.used
    BY <1>8, <2>3 DEF IsFs, Beside
  <2> QED BY <2>2, <2>4
<1>11. DiskOK(s.dirs) /\ Suits(q.node, q.dirs, s.dirs, d, {x})
  <2> PICK F : F = p.dirs
    OBVIOUS
  <2>1. Written(q.dirs, F, q.node[d].disk, q.node[d].loc, Holds(q.node, q.dirs, d) \cup {EntryOf(x)})
    BY <1>2
  <2>2. Written(F, s.dirs, x.disk, x.loc, {})
    BY <1>8, <1>10
  <2> QED BY <1>0, <2>1, <2>2, DirSuits
<1>12. Beside(q, s) /\ s.opened = q.opened /\ s.used = q.used /\ Grafted(q.node, s.node, d, {x}, TRUE, 1)
  BY <1>2, <1>8, <1>9, <1>10 DEF Twin, Beside
<1> QED BY <1>4, <1>5, <1>6, <1>10, <1>11, <1>12, AddGood

LEMMA FrontFacts ==
  ASSUME NEW path \in Paths, path # <<>>
  PROVE  /\ Front(path) \in Paths /\ path = Append(Front(path), Last(path)) /\ Last(path) \in AllNames
         /\ Front(path) \in Keys /\ Len(Front(path)) <= 1 /\ path \in Keys
<1>1. ASSUME NEW a \in AllNames, path = <<a>>
      PROVE  /\ Front(path) = <<>> /\ path = Append(<<>>, a) /\ Last(path) = a /\ path \in Keys
  BY <1>1, OneName DEF Front, Last
<1>2. ASSUME NEW a \in AllNames, NEW b \in Names, path = <<a, b>>
      PROVE  /\ Front(path) = <<a>> /\ path = Append(<<a>>, b) /\ Last(path) = b /\ path \in Keys
             /\ <<a>> \in Keys /\ Len(<<a>>) = 1 /\ b \in AllNames
  BY <1>2, OneName, TwoNames, KeyFacts DEF Front, Last
<1>3. <<>> \in Paths /\ <<>> \in Keys /\ Len(<<>>) = 0
  BY KeyFacts DEF Paths
<1>4. \A a \in AllNames : <<a>> \in Paths
  BY DEF Paths, AllNames
<1>5. CASE \E a \in AllNames : path = <<a>>
  <2> HIDE DEF Front, Last
  <2> QED BY <1>1, <1>3, <1>5
<1>6. CASE \E a \in AllNames, b \in Names : path = <<a, b>>
  <2> PICK a \in AllNames, b \in Names : path = <<a, b>>
    BY <1>6
  <2>1. /\ Front(path) = <<a>> /\ path = Append(<<a>>, b) /\ Last(path) = b /\ path \in Keys
        /\ <<a>> \in Keys /\ Len(<<a>>) = 1 /\ b \in AllNames
    BY <1>2
  <2>2. <<a>> \in Paths
    BY <1>4
  <2> PICK t : t = <<a>>
    OBVIOUS
  <2>3. Front(path) = t /\ path = Append(t, b) /\ t \in Keys /\ Len(t) = 1 /\ t \in Paths
    BY <2>1, <2>2
  <2> QED BY ONLY <2>1, <2>3
<1> QED BY <1>5, <1>6, PathShape

\* The volume of a path, as mkdir and mvfile ask for it.
LEMMA VolumeOfFront ==
  ASSUME NEW path \in Paths, path # <<>>, Last(path) # CF_0
  PROVE  Volume(Front(path)) = IF OnCard(path) THEN "CF" ELSE "HD"
<1>1. ASSUME NEW a \in AllNames, path = <<a>> PROVE Volume(Front(path)) = "HD" /\ ~OnCard(path)
  <2>1. Front(path) = <<>> /\ path[1] = a /\ Last(path) = a
    BY <1>1, OneName DEF Front, Last
  <2> QED BY <2>1, KeyFacts DEF OnCard
<1>2. ASSUME NEW a \in AllNames, NEW b \in Names, path = <<a, b>>
      PROVE  Volume(Front(path)) = IF OnCard(path) THEN "CF" ELSE "HD"
  <2> PICK t : t = <<a>>
    OBVIOUS
  <2>1. Front(path) = t /\ path[1] = a /\ t[1] = a /\ t # <<>>
    BY <1>2, OneName, TwoNames, KeyFacts DEF Front
  <2> QED BY <2>1 DEF OnCard, Volume
<1> QED BY <1>1, <1>2, PathShape

LEMMA CallClosed ==
  ASSUME NEW q, NEW s, NEW O, Called(q, s, O), NEW n \in DOMAIN s.node, s.node[n].opened
  PROVE  Called(q, closeNode(s, n), O \ {n})
<1> PICK r, M : r = closeNode(s, n) /\ M = O \ {n}
  OBVIOUS
<1>1. Good(s) /\ Opened(s.node) = O
  BY DEF Called
<1>2. NowClosed(s, n, r)
  BY <1>1, GoodClose
<1>3. Called(s, r, M)
  BY <1>1, <1>2, GrowsCalled DEF NowClosed
<1>4. Called(q, r, M)
  BY ONLY <1>3, Called(q, s, O), CalledTwice
<1> QED BY <1>4

\* x is the node that mkdir makes for name in directory d of volume v, at l.
DirNode(q, d, name, v, l, x) ==
  /\ Good(q) /\ d \in DOMAIN q.node /\ name \in Names /\ Append(d, name) \notin DOMAIN q.node
  /\ Len(d) <= 1 /\ l \in FreeDirs(q, v) /\ v = q.node[d].disk
  /\ x = [NewNode(name, "dir", l, v) EXCEPT !.loaded = TRUE, !.ref = 2]

LEMMA NewNode_Dir ==
  ASSUME NEW q, NEW d, NEW name, NEW v, NEW l, NEW x, DirNode(q, d, name, v, l, x)
  PROVE  NewDir(q.node, q.dirs, d, x) /\ x.disk = v /\ x.loc = l
<1>g. /\ Good(q) /\ d \in DOMAIN q.node /\ name \in Names /\ Append(d, name) \notin DOMAIN q.node
      /\ Len(d) <= 1 /\ l \in FreeDirs(q, v) /\ v = q.node[d].disk
  BY DEF DirNode
<1> PICK y : y = NewNode(name, "dir", l, v)
  OBVIOUS
<1>0. /\ Nodelike(q.node) /\ Placed(q.node) /\ d \in Keys /\ v = Volume(d) /\ v \in Disks
  BY <1>g, NodeFacts DEF Good, Tree, Placed
<1>l. l \in Dirs /\ l # ROOT /\ \A b \in Dirs : \A f \in q.dirs[v][b] : f.at # l
  BY <1>g DEF FreeDirs
<1>1. /\ y \in NodeType /\ y.name = name /\ y.kind = "dir" /\ y.loc = l
      /\ y.disk = v /\ y.kids = {} /\ ~y.opened
  <2>1. name \in AllNames /\ "dir" \in Kinds
    BY <1>g, KeyFacts DEF Kinds
  <2> QED BY <1>0, <1>l, <2>1, NewNodeFacts
<1>2. /\ x \in NodeType /\ x.name = name /\ x.kind = "dir" /\ x.loc = l
      /\ x.disk = v /\ x.kids = {} /\ ~x.opened /\ x.loaded /\ x.ref = 2
  <2> PICK z : z = [y EXCEPT !.loaded = TRUE]
    OBVIOUS
  <2>1. /\ z \in NodeType /\ z.name = name /\ z.kind = "dir" /\ z.loc = l
        /\ z.disk = v /\ z.kids = {} /\ ~z.opened /\ z.loaded
    BY <1>1 DEF NodeType
  <2>2. x = [z EXCEPT !.ref = 2]
    BY DEF DirNode
  <2>3. x \in NodeType
    BY ONLY <2>1, <2>2 DEF NodeType
  <2>4. /\ x.name = z.name /\ x.kind = z.kind /\ x.loc = z.loc /\ x.disk = z.disk
        /\ x.kids = z.kids /\ x.opened = z.opened /\ x.loaded = z.loaded /\ x.ref = 2
    BY <2>1, <2>2 DEF NodeType
  <2> QED BY <2>1, <2>3, <2>4
<1>3. Child(d, x) = Append(d, name)
  BY <1>2 DEF Child
<1>4. Volume(Append(d, name)) = Volume(d)
  <2>0. name \in AllNames /\ name # CF_0 /\ Len(d) <= 2
    <3>1. Len(d) \in 0..3
      BY <1>0, <1>g, KeyLen
    <3> QED BY <1>g, <3>1, KeyFacts
  <2>1. CASE d = <<>>
    BY <1>0, <2>0, <2>1, ChildKey, KeyFacts
  <2>2. CASE d # <<>>
    BY <1>0, <2>0, <2>2, ChildKey
  <2> QED BY <2>1, <2>2
<1>5. NewDir(q.node, q.dirs, d, x)
  BY <1>g, <1>0, <1>l, <1>2, <1>3, <1>4 DEF NewDir
<1> QED BY <1>2, <1>3, <1>5

LEMMA MakeDir ==
  ASSUME NEW q, Good(q), NEW path \in Paths, path # <<>>, Last(path) # CF_0,
         Kept(q, Front(path)), FreeDirs(q, IF OnCard(path) THEN "CF" ELSE "HD") # {}
  PROVE  Called(q, makeDir(q, path), Opened(q.node))
<1> PICK d, name, o, r : d = Front(path) /\ name = Last(path) /\ o = openDir(q, d) /\ r = makeDir(q, path)
  OBVIOUS
<1>0. d \in Paths /\ path = Append(d, name) /\ name \in AllNames /\ d \in Keys /\ Len(d) <= 1
  BY FrontFacts
<1>1. Tried(q, d, "dir", o)
  BY <1>0, TriedDir
<1>2. Good(o.q) /\ Grows(q, o.q)
  BY <1>1 DEF Tried
<1>3. CASE o.fd = NULL /\ Opened(o.q.node) = Opened(q.node)
  <2>1. r = o.q
    BY <1>3 DEF makeDir, Front
  <2> QED BY <1>2, <1>3, <2>1, GrowsCalled
<1>4. CASE /\ o.fd = d /\ d # NULL /\ d \in DOMAIN o.q.node /\ d \notin Opened(q.node)
           /\ Opened(o.q.node) = Opened(q.node) \cup {d} /\ o.q.node[d].kind = "dir"
           /\ o.q.node[d].loaded
  <2> PICK a, O : a = o.q /\ O = Opened(a.node)
    OBVIOUS
  <2>1. Called(q, a, O) /\ d \in DOMAIN a.node /\ a.node[d].opened
    BY <1>2, <1>4, GrowsCalled DEF Opened
  <2>2. O \ {d} = Opened(q.node)
    BY <1>4
  <2>3. CASE Named(a, d, name) # {}
    <3>1. r = closeNode(a, d)
      BY <1>4, <2>3, Zenon DEF makeDir, Front, Last
    <3>2. Called(q, closeNode(a, d), O \ {d})
      BY ONLY <2>1, CallClosed, Zenon
    <3> QED BY <2>2, <3>1, <3>2, Zenon
  <2>4. CASE Named(a, d, name) = {}
    <3>1. path \notin DOMAIN a.node
      <4>1. Nodelike(a.node) /\ Linked(a.node)
        BY <1>2 DEF Good, Tree
      <4>2. Named(a, d, name) = IF Append(d, name) \in DOMAIN a.node THEN {Append(d, name)} ELSE {}
        BY <1>0, <2>1, <4>1, NamedIs
      <4> QED BY <1>0, <2>4, <4>2
    <3> PICK v, l, x : /\ v = a.node[d].disk /\ l = (CHOOSE c \in FreeDirs(a, v) : TRUE)
                       /\ x = [NewNode(name, "dir", l, v) EXCEPT !.loaded = TRUE, !.ref = 2]
      BY Zenon
    <3>2. l \in FreeDirs(a, v)
      <4>1. v = Volume(d)
        BY <1>2, <2>1 DEF Good, Tree, Placed
      <4>2. v = IF OnCard(path) THEN "CF" ELSE "HD"
        BY <4>1, VolumeOfFront
      <4>3. FreeDirs(a, v) = FreeDirs(q, v)
        <5>1. a.dirs = q.dirs
          BY <1>2 DEF Grows
        <5> QED BY ONLY <5>1 DEF FreeDirs
      <4> QED BY <4>2, <4>3
    <3>3. NewDir(a.node, a.dirs, d, x) /\ x.disk = v /\ x.loc = l
      <4>1. DirNode(a, d, name, v, l, x)
        BY <1>0, <1>2, <2>1, <3>1, <3>2, Zenon DEF AllNames, DirNode
      <4> QED BY ONLY <4>1, NewNode_Dir
    <3> PICK s : s = [addChild(putEntry(a, d, EntryOf(x)), d, x) EXCEPT !.dirs[v][l] = {}]
      BY Zenon
    <3>4. r = closeNode(s, d)
      BY <1>4, <2>4, Zenon DEF makeDir, Front, Last
    <3>5. ~GoneIn(a.node, a.dirs, d)
      BY <1>2, <2>1, KeptGrows, Zenon DEF Kept
    <3>6. Called(a, s, O)
      <4>1. /\ Good(a) /\ d \in DOMAIN a.node /\ Len(d) <= 1 /\ a.node[d].kind = "dir"
            /\ a.node[d].loaded /\ O = Opened(a.node)
            /\ s = [addChild(putEntry(a, d, EntryOf(x)), d, x) EXCEPT !.dirs[v][l] = {}]
        BY <1>0, <1>2, <1>4, <2>1, Zenon
      <4> QED BY ONLY <3>3, <3>5, <4>1, AddDir, Zenon
    <3>7. Called(q, s, O)
      BY ONLY <2>1, <3>6, CalledTwice, Zenon
    <3>8. d \in DOMAIN s.node /\ s.node[d].opened
      <4>1. d \in Opened(a.node) /\ Opened(s.node) = O
        BY <2>1, <3>6, Zenon DEF Opened, Called
      <4> QED BY <4>1, Zenon DEF Opened
    <3>9. Called(q, closeNode(s, d), O \ {d})
      BY ONLY <3>7, <3>8, CallClosed
    <3> QED BY <2>2, <3>4, <3>9, Zenon
  <2> QED BY <2>3, <2>4
<1> QED BY <1>1, <1>3, <1>4 DEF Tried

(***************************************************************************)
(* Removing a directory: its node stays.                                   *)
(***************************************************************************)
LEMMA GhostTree ==
  ASSUME NEW N, NEW D, Tree(N, D), NEW n \in DOMAIN N, N[n].kind = "dir", N[n].loaded,
         N[n].kids = {}, N[n].loc # ROOT, ~GoneIn(N, D, n), NEW d, d = N[n].parent, NEW F, NEW E,
         Written(D, F, N[d].disk, N[d].loc, Holds(N, D, d) \ {EntryOf(N[n])}),
         Written(F, E, N[n].disk, N[n].loc, {})
  PROVE  Tree(N, E)
<1> PICK e, v, c, l : e = EntryOf(N[n]) /\ v = N[d].disk /\ c = N[d].loc /\ l = N[n].loc
  OBVIOUS
<1>0. /\ Nodelike(N) /\ Linked(N) /\ Placed(N) /\ DiskOK(D) /\ Mirrored(N, D) /\ Ghosts(N, D)
      /\ OneDir(N, D)
  BY DEF Tree
<1>1. /\ e.at = l /\ e.kind = "dir" /\ n \notin {<<>>, Card} /\ d \in DOMAIN N /\ N[n].disk = v
      /\ v \in Disks /\ c \in Dirs /\ l \in Dirs
  BY <1>0, DirEntry, NodeFacts
<1>2. N[d].kind = "dir" /\ N[d].loaded /\ n \in N[d].kids /\ ~GoneIn(N, D, d) /\ n # d
  BY <1>0, <1>1, ParentFacts DEF Ghosts
<1>3. c # l
  BY <1>0, <1>1, <1>2 DEF OneDir
<1>4. /\ E \in [Disks -> [Dirs -> SUBSET Entries]] /\ E[v][c] = D[v][c] \ {e} /\ E[v][l] = {}
      /\ \A w \in Disks, b \in Dirs : (w # v \/ (b # c /\ b # l)) => E[w][b] = D[w][b]
  BY <1>1, <1>3 DEF Written, Holds
<1>5. \A w \in Disks, b \in Dirs : E[w][b] \subseteq D[w][b]
  BY <1>4
<1>6. DiskOK(E)
  <2>2. \A w \in Disks, b \in Dirs : IsFiniteSet(E[w][b])
    BY <1>0, <1>5, FS_Subset DEF DiskOK
  <2>3. /\ \A w \in Disks, b \in Dirs : \A f \in E[w][b] : f.kind = "file" <=> f.at = ROOT
        /\ \A w \in Disks, b \in Dirs : \A f, g \in E[w][b] : f.name = g.name => f = g
    BY <1>0, <1>5 DEF DiskOK
  <2>4. \A w \in Disks, b, g \in Dirs : \A f \in E[w][b], h \in E[w][g] :
          f.kind = "dir" /\ h.kind = "dir" /\ f.at = h.at => b = g /\ f = h
    BY <1>0, <1>5 DEF DiskOK
  <2> QED BY <1>4, <2>2, <2>3, <2>4 DEF DiskOK
<1>7. ASSUME NEW k \in DOMAIN N PROVE GoneIn(N, E, k) <=> GoneIn(N, D, k) \/ k = n
  <2>1. CASE k = n
    <3>1. e \notin E[v][c]
      BY <1>4
    <3> QED BY <1>1, <2>1, <3>1 DEF GoneIn
  <2>2. CASE k # n /\ ~(N[k].kind = "dir" /\ N[k].loc # ROOT)
    BY <2>2 DEF GoneIn
  <2>3. CASE k # n /\ N[k].kind = "dir" /\ N[k].loc # ROOT
    <3> PICK m : m = N[k].parent
      OBVIOUS
    <3>1. /\ k \notin {<<>>, Card} /\ m \in DOMAIN N /\ N[m].disk = N[k].disk
          /\ N[k].disk \in Disks /\ N[m].loc \in Dirs /\ N[m].kind = "dir" /\ k \in N[m].kids
      <4>1. k \notin {<<>>, Card}
        BY <1>0, <2>3 DEF Placed
      <4>2. m \in DOMAIN N /\ N[m].disk = N[k].disk
        BY <1>0, <4>1, ParentDisk
      <4> QED BY <1>0, <4>1, <4>2, ParentFacts, NodeFacts
    <3>2. ~GoneIn(N, D, m)
      BY <1>0, <3>1 DEF Ghosts
    <3>3. N[m].disk # v \/ N[m].loc # l
      BY <1>0, <1>1, <3>1, <3>2 DEF OneDir
    <3>4. CASE GoneIn(N, D, k)
      BY <1>5, <2>3, <3>1, <3>4 DEF GoneIn
    <3>5. CASE ~GoneIn(N, D, k)
      <4>1. EntryOf(N[k]) \in D[N[k].disk][N[m].loc]
        BY <2>3, <3>5 DEF GoneIn
      <4>2. EntryOf(N[k]) # e \/ N[k].disk # v
        <5>1. N[k].loc # l \/ N[k].disk # v
          BY <1>0, <1>1, <2>3, <3>5 DEF OneDir
        <5> QED BY <1>1, <5>1, EntryParts
      <4>3. EntryOf(N[k]) \in E[N[k].disk][N[m].loc]
        BY <1>4, <3>1, <3>3, <4>1, <4>2
      <4> QED BY <2>3, <3>5, <4>3 DEF GoneIn
    <3> QED BY <3>4, <3>5
  <2> QED BY <2>1, <2>2, <2>3
<1>8. Mirrored(N, E)
  <2> SUFFICES ASSUME NEW m \in DOMAIN N, N[m].loaded, ~GoneIn(N, E, m)
               PROVE  /\ \A k \in N[m].kids : N[k].kind = "file" => EntryOf(N[k]) \in Holds(N, E, m)
                      /\ \A f \in Holds(N, E, m) : Child(m, f) \in DOMAIN N
                                                   /\ EntryOf(N[Child(m, f)]) = f
    BY DEF Mirrored
  <2>1. /\ ~GoneIn(N, D, m) /\ m # n /\ N[m].disk \in Disks /\ N[m].loc \in Dirs
        /\ N[m].kind = "dir"
    BY <1>0, <1>7, NodeFacts DEF Placed, Kinds
  <2>2. /\ \A k \in N[m].kids : N[k].kind = "file" => EntryOf(N[k]) \in Holds(N, D, m)
        /\ \A f \in Holds(N, D, m) : Child(m, f) \in DOMAIN N /\ EntryOf(N[Child(m, f)]) = f
    BY <1>0, <2>1 DEF Mirrored
  <2>3. N[m].disk # v \/ N[m].loc # l
    BY <1>0, <1>1, <2>1 DEF OneDir
  <2>4. Holds(N, E, m) \subseteq Holds(N, D, m)
    BY <1>5, <2>1, Zenon DEF Holds
  <2>5. ASSUME NEW k \in N[m].kids, N[k].kind = "file" PROVE EntryOf(N[k]) \in Holds(N, E, m)
    <3>1. EntryOf(N[k]) \in Holds(N, D, m)
      BY <2>2, <2>5
    <3>2. EntryOf(N[k]) # e
      BY <1>1, <2>5, EntryParts
    <3> QED BY <1>4, <2>1, <2>3, <3>1, <3>2, Zenon DEF Holds
  <2> QED BY <2>2, <2>4, <2>5
<1>9. Ghosts(N, E)
  BY <1>0, <1>7 DEF Ghosts
<1>10. OneDir(N, E)
  BY <1>0, <1>7 DEF OneDir
<1> QED BY <1>0, <1>6, <1>8, <1>9, <1>10 DEF Tree

LEMMA NotCard ==
  ASSUME NEW path \in Paths, path # <<>>, Last(path) # CF_0
  PROVE  path # Card
<1> PICK x, y : x = Front(path) /\ y = Last(path)
  OBVIOUS
<1>1. path = Append(x, y) /\ y \in AllNames /\ x \in Keys /\ y # CF_0
  BY FrontFacts
<1>2. Card = Append(<<>>, CF_0) /\ <<>> \in Keys /\ CF_0 \in AllNames
  BY KeyFacts
<1>3. Append(x, y) # Append(<<>>, CF_0)
  BY ONLY <1>1, <1>2, SameChild
<1> QED BY <1>1, <1>2, <1>3

LEMMA TwinGood ==
  ASSUME NEW c, Good(c), NEW g, Twin(g, c), Tree(g.node, g.dirs)
  PROVE  Good(g)
<1>1. IsFs(g) /\ Beside(c, g) /\ g.node = c.node /\ g.opened = c.opened /\ g.used = c.used
  BY DEF Twin
<1>2. Counted(c.node) /\ Listed(c) /\ Volumes(c) /\ c.hung = FALSE
  BY DEF Good
<1>3. Volumes(g) /\ g.hung = FALSE
  BY <1>1, <1>2, VolumesStay DEF Beside
<1>4. Listed(g)
  BY <1>1, <1>2 DEF Listed
<1> QED BY <1>1, <1>2, <1>3, <1>4 DEF Good

\* A loaded directory that is not the root of a volume has references.
LEMMA DirInUse ==
  ASSUME NEW x, Exact(x), x.kids = {}, x.loaded, x.loc # ROOT
  PROVE  x.ref > 0
<1>1. DotsOf(x) = 2 /\ Cardinality(x.kids) = 0
  BY FS_EmptySet DEF DotsOf
<1>2. User(x) \in 0..1
  BY DEF User
<1> QED BY <1>1, <1>2 DEF Exact

LEMMA RemoveDir ==
  ASSUME NEW q, Good(q), NEW path \in Paths, path # <<>>, Last(path) # CF_0, Kept(q, path)
  PROVE  Called(q, removeDir(q, path), Opened(q.node))
<1> PICK o, r : o = openDir(q, path) /\ r = removeDir(q, path)
  OBVIOUS
<1>1. Tried(q, path, "dir", o)
  BY TriedDir
<1>2. Good(o.q) /\ Grows(q, o.q)
  BY <1>1 DEF Tried
<1>3. CASE o.fd = NULL /\ Opened(o.q.node) = Opened(q.node)
  <2>1. r = o.q
    BY <1>3 DEF removeDir
  <2> QED BY <1>2, <1>3, <2>1, GrowsCalled
<1>4. CASE /\ o.fd = path /\ path # NULL /\ path \in DOMAIN o.q.node /\ path \notin Opened(q.node)
           /\ Opened(o.q.node) = Opened(q.node) \cup {path} /\ o.q.node[path].kind = "dir"
           /\ o.q.node[path].loaded
  <2> PICK a, n, O, c : a = o.q /\ n = path /\ O = Opened(a.node) /\ c = closeNode(a, n)
    OBVIOUS
  <2>1. Called(q, a, O) /\ n \in DOMAIN a.node /\ a.node[n].opened /\ Good(a)
    BY <1>2, <1>4, GrowsCalled DEF Opened
  <2>2. O \ {n} = Opened(q.node)
    BY <1>4
  <2>3. Called(q, c, O \ {n})
    BY <2>1, CallClosed
  <2>4. CASE a.node[n].kids # {}
    <3>1. r = c
      BY <1>4, <2>4 DEF removeDir
    <3> QED BY <2>2, <2>3, <3>1, Zenon
  <2>5. CASE a.node[n].kids = {}
    <3> PICK d, v, l, b, f, g : /\ d = a.node[n].parent /\ v = a.node[n].disk /\ l = a.node[n].loc
                                /\ b = rmEntry(a, n) /\ f = [b EXCEPT !.dirs[v][l] = {}]
                                /\ g = closeNode(f, n)
      BY Zenon
    <3>0. IsFs(a) /\ Tree(a.node, a.dirs) /\ Nodelike(a.node) /\ Linked(a.node) /\ Placed(a.node)
          /\ DiskOK(a.dirs)
      BY <2>1 DEF Good, Tree
    <3>1. n \notin {<<>>, Card} /\ l # ROOT /\ d \in DOMAIN a.node /\ v \in Disks /\ l \in Dirs
      <4>1. n \notin {<<>>, Card}
        <5> QED BY NotCard, Zenon
      <4>2. l # ROOT
        BY <1>4, <2>1, <3>0, <4>1, Zenon DEF Placed
      <4>3. d \in DOMAIN a.node
        BY <2>1, <3>0, <4>1, ParentFacts, Zenon
      <4> QED BY <2>1, <3>0, <4>1, <4>2, <4>3, NodeFacts, Zenon
    <3>2. ~GoneIn(a.node, a.dirs, n)
      BY <1>2, <2>1, KeptGrows, Zenon DEF Kept
    <3>3. r = rmNodeFromTree(g, n)
      BY <1>4, <2>5, Zenon DEF removeDir
    <3>4. Twin(b, a) /\ Written(a.dirs, b.dirs, a.node[d].disk, a.node[d].loc,
                                Holds(a.node, a.dirs, d) \ {EntryOf(a.node[n])})
      BY <2>1, <3>0, <3>1, RmFields, Zenon
    <3>5. Twin(f, a) /\ Written(b.dirs, f.dirs, v, l, {})
      <4> PICK E : E = [b.dirs EXCEPT ![v][l] = {}]
        BY Zenon
      <4>1. b.dirs \in [Disks -> [Dirs -> SUBSET Entries]]
        BY <3>4, Zenon DEF Written
      <4>2. Written(b.dirs, E, v, l, {})
        BY <3>1, <4>1, EntryWritten, Zenon
      <4>3. f = [b EXCEPT !.dirs = E]
        BY <3>4, Zenon DEF IsFs, Twin
      <4>4. f.dirs = E /\ Twin(f, a)
        BY <3>4, <4>3, Zenon DEF IsFs, Beside, Twin
      <4> QED BY <4>2, <4>4, Zenon
    <3>6. Tree(a.node, f.dirs)
      <4> PICK F, E : F = b.dirs /\ E = f.dirs
        BY Zenon
      <4>1. /\ Written(a.dirs, F, a.node[d].disk, a.node[d].loc,
                       Holds(a.node, a.dirs, d) \ {EntryOf(a.node[n])})
            /\ Written(F, E, a.node[n].disk, a.node[n].loc, {})
        BY <3>4, <3>5, Zenon
      <4>2. /\ a.node[n].kind = "dir" /\ a.node[n].loaded /\ a.node[n].loc # ROOT
        BY <1>4, <3>1, Zenon
      <4> QED BY <2>1, <2>5, <3>0, <3>2, <4>1, <4>2, GhostTree, Zenon
    <3>7. Twin(g, c) /\ g.dirs = f.dirs
      <4>1. IsFs(a) /\ Nodelike(a.node) /\ n \in DOMAIN a.node /\ Twin(f, a)
        BY <2>1, <3>0, <3>5, Zenon
      <4>2. Twin(closeNode(f, n), closeNode(a, n)) /\ closeNode(f, n).dirs = f.dirs
        BY ONLY <4>1, TwinClose
      <4> QED BY <4>2, Zenon
    <3>8. Good(c) /\ Beside(q, c) /\ Opened(c.node) = O \ {n} /\ (q.node[<<>>].loaded => c.node[<<>>].loaded)
      BY <2>3, Zenon DEF Called
    <3>9. DOMAIN c.node = DOMAIN a.node /\ \A k \in DOMAIN a.node : Alike(c.node[k], a.node[k])
      BY <2>1, GoodClose, Zenon DEF NowClosed
    <3>10. Tree(g.node, g.dirs)
      <4>1. Nodelike(c.node) /\ g.node = c.node
        BY <3>7, <3>8, Zenon DEF Good, Tree, Twin
      <4>2. Tree(c.node, f.dirs)
        BY <3>6, <3>9, <4>1, AlikeTree, Zenon
      <4> QED BY <3>7, <4>1, <4>2, Zenon
    <3>11. Good(g)
      <4>1. Good(c) /\ Twin(g, c) /\ Tree(g.node, g.dirs)
        BY <3>7, <3>8, <3>10, Zenon
      <4> QED BY ONLY <4>1, TwinGood, Zenon
    <3>12. r = g
      <4>1. g.node = c.node /\ n \in DOMAIN c.node /\ Alike(c.node[n], a.node[n])
        BY <2>1, <3>7, <3>9, Zenon DEF Twin
      <4>2. g.node[n].kids = {} /\ g.node[n].loaded /\ g.node[n].loc # ROOT
        <5>1. a.node[n].kids = {} /\ a.node[n].loaded /\ a.node[n].loc # ROOT
          BY <1>4, <2>5, <3>1
        <5> QED BY ONLY <4>1, <5>1 DEF Alike
      <4>3. Exact(g.node[n])
        <5>1. Counted(g.node) /\ n \in DOMAIN g.node
          BY <3>11, <4>1, Zenon DEF Good
        <5> QED BY ONLY <5>1, Zenon DEF Counted
      <4>4. g.node[n].ref > 0
        BY ONLY <4>2, <4>3, DirInUse
      <4> QED BY <3>3, <4>4, Zenon DEF rmNodeFromTree
    <3>13. Called(q, g, O \ {n})
      <4>1. Beside(c, g) /\ g.node = c.node
        BY ONLY <3>7 DEF Twin, Beside
      <4>2. Beside(q, g)
        BY ONLY <3>8, <4>1 DEF Beside
      <4> QED BY <3>8, <3>11, <4>1, <4>2, Zenon DEF Called
    <3> QED BY <2>2, <3>12, <3>13, Zenon
  <2> QED BY <2>4, <2>5
<1> QED BY <1>1, <1>3, <1>4 DEF Tried

(***************************************************************************)
(* Moving a file: a copy of its node is added, then the file is removed.   *)
(***************************************************************************)
\* A file that nobody uses has no reference, so that setting it to none does
\* nothing.
LEMMA UnusedFile ==
  ASSUME NEW b, IsFs(b), NEW D, Tree(b.node, D), Counted(b.node), NEW n \in DOMAIN b.node,
         b.node[n].kind = "file", ~b.node[n].opened
  PROVE  [b EXCEPT !.node[n].ref = 0] = b
<1> PICK N, x, y : N = b.node /\ x = N[n] /\ y = [x EXCEPT !.ref = 0]
  OBVIOUS
<1>1. Nodelike(N) /\ x \in NodeType /\ N \in [DOMAIN N -> NodeType]
  BY NodeFacts DEF Tree, Nodelike
<1>2. x.ref = 0
  <2>1. x.kids = {} /\ ~x.loaded
    BY FileFacts
  <2>2. Cardinality(x.kids) = 0 /\ DotsOf(x) = 0 /\ User(x) = 0
    BY <2>1, FS_EmptySet DEF DotsOf, User
  <2>3. Exact(x)
    BY DEF Counted
  <2> QED BY <2>2, <2>3 DEF Exact
<1>3. y = x
  BY <1>1, <1>2 DEF NodeType
<1>4. [N EXCEPT ![n] = y] = N
  BY <1>1, <1>3
<1>5. [b EXCEPT !.node[n].ref = 0] = [b EXCEPT !.node = [N EXCEPT ![n] = y]]
  BY DEF IsFs
<1> QED BY <1>4, <1>5 DEF IsFs

\* The file n, that is open, goes to directory d, that is open, as x.
Moving(q, n, d, x) ==
  LET a == addChild(putEntry(q, d, EntryOf(x)), d, x)
      b == closeNode(closeNode(rmEntry(a, n), d), n)
  IN  rmNodeFromTree([b EXCEPT !.node[n].ref = 0], n)

LEMMA MoveOpened ==
  ASSUME NEW q, Good(q), NEW n \in DOMAIN q.node, q.node[n].kind = "file", q.node[n].opened,
         NEW d \in DOMAIN q.node, q.node[d].kind = "dir", q.node[d].loaded, q.node[d].opened,
         Len(d) <= 1, ~GoneIn(q.node, q.dirs, d), NEW x, NewFile(q.node, d, x)
  PROVE  Called(q, Moving(q, n, d, x), (Opened(q.node) \ {d}) \ {n})
<1> PICK a, e, f, b, g : /\ a = addChild(putEntry(q, d, EntryOf(x)), d, x) /\ e = rmEntry(a, n)
                         /\ f = closeNode(e, d) /\ b = closeNode(f, n)
                         /\ g = [b EXCEPT !.node[n].ref = 0]
  OBVIOUS
<1> PICK p, c, O, M, K : /\ p = closeNode(a, d) /\ c = closeNode(p, n) /\ O = Opened(q.node)
                         /\ M = O \ {d} /\ K = M \ {n}
  OBVIOUS
<1>1. FileAdded(q, d, x, a)
  BY AddFile
<1>2. Called(q, a, O) /\ Good(a) /\ Opened(a.node) = O
  BY <1>1 DEF FileAdded, Called
<1>3. n \in O /\ d \in O /\ n # d
  BY DEF Opened
<1>4. /\ n \in DOMAIN a.node /\ d \in DOMAIN a.node /\ a.node[d].opened
      /\ a.node[n].kind = "file"
  <2>1. SameEntry(a.node[n], q.node[n])
    BY <1>1 DEF FileAdded
  <2> QED BY <1>2, <1>3, <2>1 DEF Opened, SameEntry
<1>5. Closing(a, a)
  BY <1>2 DEF Closing, Alike
<1>6. Closing(a, p) /\ Opened(p.node) = M /\ Called(a, p, M)
  <2>1. Closing(a, a) /\ d \in DOMAIN a.node /\ a.node[d].opened
    BY <1>4, <1>5
  <2>2. /\ Closing(a, closeNode(a, d)) /\ Opened(closeNode(a, d).node) = Opened(a.node) \ {d}
        /\ Called(a, closeNode(a, d), Opened(a.node) \ {d})
    BY ONLY <2>1, CloseClosing
  <2> QED BY <1>2, <2>2
<1>7. p.node[n].opened
  <2>1. n \in Opened(p.node)
    BY <1>3, <1>6
  <2> QED BY <2>1 DEF Opened
<1>8. Closing(a, c) /\ Opened(c.node) = K /\ Called(p, c, K)
  <2>1. Closing(a, p) /\ n \in DOMAIN a.node /\ p.node[n].opened
    BY <1>4, <1>6, <1>7
  <2>2. /\ Closing(a, closeNode(p, n)) /\ Opened(closeNode(p, n).node) = Opened(p.node) \ {n}
        /\ Called(p, closeNode(p, n), Opened(p.node) \ {n})
    BY ONLY <2>1, CloseClosing
  <2> QED BY <1>6, <2>2
<1>9. ~c.node[n].opened /\ n \in DOMAIN c.node /\ c.node[n].kind = "file"
  <2>1. n \in DOMAIN c.node /\ Alike(c.node[n], a.node[n])
    BY <1>4, <1>8 DEF Closing
  <2>2. n \notin Opened(c.node)
    BY <1>8
  <2> QED BY <1>4, <2>1, <2>2 DEF Opened, Alike
<1>10. IsFs(a) /\ Nodelike(a.node) /\ DiskOK(a.dirs) /\ Tree(a.node, a.dirs)
  BY <1>2 DEF Good, Tree
<1>11. Twin(e, a)
  <2>1. a.node[n].parent \in DOMAIN a.node
    BY <1>4, <1>10, FileFacts
  <2> QED BY <1>4, <1>10, <2>1, RmFields
<1>12. Twin(f, p) /\ f.dirs = e.dirs
  BY <1>4, <1>10, <1>11, TwinClose
<1>13. Twin(b, c) /\ b.dirs = e.dirs
  <2>1. IsFs(p) /\ Nodelike(p.node) /\ n \in DOMAIN p.node
    BY <1>4, <1>6 DEF Closing, Good, Tree
  <2>2. Twin(b, c) /\ b.dirs = f.dirs
    BY <1>12, <2>1, TwinClose
  <2> QED BY <1>12, <2>2
<1>14. g = b
  <2>1. Good(c)
    BY <1>8 DEF Closing
  <2>2. IsFs(b) /\ b.node = c.node /\ Tree(c.node, c.dirs) /\ Counted(c.node)
    BY <1>13, <2>1 DEF Twin, Good
  <2> QED BY <1>9, <2>2, UnusedFile
<1>15. Called(c, rmNodeFromTree(b, n), K)
  <2>1. /\ Good(a) /\ n \in DOMAIN a.node /\ a.node[n].kind = "file" /\ Closing(a, c)
        /\ ~c.node[n].opened /\ Twin(b, c) /\ b.dirs = rmEntry(a, n).dirs
    BY <1>2, <1>4, <1>8, <1>9, <1>13
  <2>2. Called(c, rmNodeFromTree(b, n), Opened(c.node))
    BY ONLY <2>1, RemoveLater
  <2> QED BY <1>8, <2>2
<1> PICK s : s = rmNodeFromTree(g, n)
  OBVIOUS
<1>16. Called(c, s, K)
  BY <1>14, <1>15
<1>17. Called(q, p, M)
  BY ONLY <1>2, <1>6, CalledTwice
<1>18. Called(q, c, K)
  BY ONLY <1>8, <1>17, CalledTwice
<1>19. Called(q, s, K)
  BY ONLY <1>16, <1>18, CalledTwice
<1>20. s = Moving(q, n, d, x)
  BY DEF Moving
<1> QED BY <1>19, <1>20

\* x is the copy of file y under the name that is last in newpath.
Copied(y, newpath, x) ==
  x = [y EXCEPT !.name = newpath[Len(newpath)], !.opened = FALSE, !.ref = @ - 1]

LEMMA CopyIsNew ==
  ASSUME NEW q, Good(q), NEW n \in DOMAIN q.node, q.node[n].kind = "file", q.node[n].opened,
         NEW s, NEW newpath \in Paths, newpath # <<>>, Last(newpath) # CF_0,
         newpath \notin DOMAIN s.node, Volume(n) = Volume(newpath),
         NEW x, Copied(q.node[n], newpath, x)
  PROVE  NewFile(s.node, Front(newpath), x)
<1> PICK y, d, name : y = q.node[n] /\ d = Front(newpath) /\ name = Last(newpath)
  OBVIOUS
<1>0. newpath = Append(d, name) /\ name \in AllNames /\ name \in Names
  BY FrontFacts DEF AllNames
<1>1. IsFs(q) /\ Tree(q.node, q.dirs) /\ Nodelike(q.node) /\ Counted(q.node) /\ Placed(q.node)
  BY DEF Good, Tree
<1>2. y \in NodeType /\ y.ref \in Int
  BY <1>1, NodeFacts
<1>3. y.kids = {} /\ ~y.loaded /\ y.loc = ROOT /\ y.disk = Volume(n)
  BY <1>1, FileFacts DEF Placed
<1>4. y.ref = 1
  <2>1. Cardinality(y.kids) = 0 /\ DotsOf(y) = 0 /\ User(y) = 1
    BY <1>3, FS_EmptySet DEF DotsOf, User
  <2>2. Exact(y)
    BY <1>1 DEF Counted
  <2> QED BY <2>1, <2>2 DEF Exact
<1>5. x = [y EXCEPT !.name = name, !.opened = FALSE, !.ref = 0]
  <2>1. y.ref - 1 = 0
    BY <1>4
  <2>2. x = [y EXCEPT !.name = name, !.opened = FALSE, !.ref = y.ref - 1]
    BY <1>2 DEF Copied, Last, NodeType
  <2> QED BY <2>1, <2>2
<1>6. x \in NodeType
  <2> PICK i \in Int : i = 0
    OBVIOUS
  <2>0. PICK z : z = [y EXCEPT !.opened = FALSE, !.ref = i]
    OBVIOUS
  <2>1. z \in NodeType
    BY <1>2, <2>0 DEF NodeType
  <2>2. x = [z EXCEPT !.name = name]
    BY <1>2, <1>5, <2>0 DEF NodeType
  <2>3. name \in AllNames
    BY <1>0
  <2> QED BY ONLY <2>1, <2>2, <2>3 DEF NodeType
<1>7. /\ x.kind = y.kind /\ x.loc = y.loc /\ x.loaded = y.loaded /\ x.kids = y.kids /\ x.disk = y.disk
      /\ x.name = name /\ x.opened = FALSE /\ x.ref = 0
  BY ONLY <1>2, <1>5 DEF NodeType
<1>8. Child(d, x) = newpath
  BY <1>0, <1>7 DEF Child
<1> QED BY <1>0, <1>3, <1>6, <1>7, <1>8 DEF NewFile

\* The last part of mvfile: o is the file opened, p the directory it goes to.
MoveTo(o, p, newpath) ==
  IF p.fd = NULL THEN closeNode(p.q, o.fd)
  ELSE Moving(p.q, o.fd, p.fd, [o.q.node[o.fd] EXCEPT !.name = newpath[Len(newpath)],
                                                      !.opened = FALSE, !.ref = @ - 1])

IsFreeDir(r) == ~r.bad /\ r.left = 0 /\ r.q.node[r.n].kind = "dir" /\ ~r.q.node[r.n].opened

MoveStarts(q, path, newpath, t, r, o, z) ==
  /\ t = openFile(q, newpath, FALSE) /\ t.fd = NULL /\ r = lookup(q, newpath) /\ ~IsFreeDir(r)
  /\ o = openFile(t.q, path, FALSE) /\ o.fd # NULL /\ z = moveFile(q, path, newpath)

LEMMA MoveUnfolds ==
  ASSUME NEW q, NEW path, NEW newpath, NEW t, NEW r, NEW o, NEW z,
         MoveStarts(q, path, newpath, t, r, o, z)
  PROVE  z = MoveTo(o, openDir(o.q, Front(newpath)), newpath)
<1>0. /\ t = openFile(q, newpath, FALSE) /\ t.fd = NULL /\ r = lookup(q, newpath)
      /\ o = openFile(t.q, path, FALSE) /\ o.fd # NULL /\ z = moveFile(q, path, newpath)
      /\ ~IsFreeDir(r)
  BY DEF MoveStarts
<1> DEFINE At1(c) == IF c.fd = NULL THEN c.q
                     ELSE MoveTo(c, openDir(c.q, Front(newpath)), newpath)
<1>1. moveFile(q, path, newpath) = IF t.fd # NULL THEN closeNode(t.q, t.fd)
                                   ELSE IF IsFreeDir(r) THEN t.q ELSE At1(o)
  BY ONLY <1>0, ZenonT(60) DEF moveFile, MoveTo, Moving, Front, IsFreeDir
<1> HIDE DEF At1
<1>2. moveFile(q, path, newpath) = At1(o)
  BY <1>0, <1>1
<1> QED BY <1>0, <1>2 DEF At1

LEMMA MoveFile ==
  ASSUME NEW q, Good(q), NEW path \in Paths, path # <<>>, NEW newpath \in Paths, newpath # <<>>,
         Last(newpath) # CF_0, OnCard(path) = OnCard(newpath), Kept(q, Front(newpath)),
         lookup(q, newpath).left = 0
           => ~lookup(q, newpath).q.node[lookup(q, newpath).n].opened
  PROVE  Called(q, moveFile(q, path, newpath), Opened(q.node))
<1> PICK d, t, r, o, p, z, O : /\ d = Front(newpath) /\ t = openFile(q, newpath, FALSE)
                               /\ r = lookup(q, newpath) /\ o = openFile(t.q, path, FALSE)
                               /\ p = openDir(o.q, d) /\ z = moveFile(q, path, newpath)
                               /\ O = Opened(q.node)
  OBVIOUS
<1>0. t = openFile(q, newpath, FALSE) /\ o = openFile(t.q, path, FALSE) /\ p = openDir(o.q, d)
  OBVIOUS
<1>1. Tried(q, newpath, "file", t) /\ Refused(q, newpath, t) /\ Good(t.q) /\ Grows(q, t.q)
  <2>1. Tried(q, newpath, "file", openFile(q, newpath, FALSE))
        /\ Refused(q, newpath, openFile(q, newpath, FALSE))
    BY TriedFile
  <2>2. Tried(q, newpath, "file", t) /\ Refused(q, newpath, t)
    BY ONLY <2>1, <1>0
  <2> QED BY ONLY <2>2 DEF Tried
<1>2. CASE t.fd # NULL
  <2>1. /\ t.fd = newpath /\ newpath \in DOMAIN t.q.node /\ newpath \notin O
        /\ Opened(t.q.node) = O \cup {newpath}
    BY <1>1, <1>2 DEF Tried
  <2> PICK a, K : a = t.q /\ K = O \cup {newpath}
    OBVIOUS
  <2>2. newpath \in DOMAIN a.node /\ a.node[newpath].opened
    BY <2>1 DEF Opened
  <2>3. Called(q, a, K)
    BY <1>1, <2>1, GrowsCalled
  <2>4. Called(q, closeNode(a, newpath), K \ {newpath})
    BY ONLY <2>2, <2>3, CallClosed
  <2>5. z = closeNode(a, newpath)
    BY <1>2, <2>1 DEF moveFile
  <2>6. K \ {newpath} = O
    BY <2>1
  <2> QED BY <2>4, <2>5, <2>6
<1>3. CASE t.fd = NULL
  <2> PICK a : a = t.q
    OBVIOUS
  <2>0. a = t.q
    OBVIOUS
  <2>1. Opened(a.node) = O /\ a.used = q.used /\ Good(a) /\ Grows(q, a)
    BY <1>1, <1>3, KeyFacts DEF Tried
  <2>2. /\ a = r.q
        /\ \/ r.left # 0 \/ r.q.node[r.n].opened \/ r.q.node[r.n].kind = "dir" \/ r.q.used = MAX_OPEN
    BY <1>1, <1>3 DEF Refused
  <2>3. Reached(q, newpath, r)
    BY LookupReaches
  <2>4. Called(q, a, O)
    BY <2>1, GrowsCalled
  <2>5. CASE IsFreeDir(r)
    <3>1. z = a
      BY <1>3, <2>5 DEF moveFile, IsFreeDir
    <3> QED BY <2>4, <3>1
  <2>6. CASE ~IsFreeDir(r)
    <3>1. Tried(a, path, "file", o) /\ Good(o.q) /\ Grows(a, o.q)
      <4>1. Good(a) /\ path \in Paths /\ o = openFile(a, path, FALSE)
        BY <1>0, <2>0, <2>1
      <4>2. Tried(a, path, "file", o)
        BY ONLY <4>1, TriedFile
      <4> QED BY ONLY <4>2 DEF Tried
    <3>2. CASE o.fd = NULL /\ Opened(o.q.node) = Opened(a.node)
      <4>1. z = o.q
        BY <1>3, <2>6, <3>2 DEF moveFile, IsFreeDir
      <4>2. Called(a, o.q, O)
        BY <2>1, <3>1, <3>2, GrowsCalled
      <4>3. Called(q, o.q, O)
        BY <2>4, <4>2, CalledTwice
      <4> QED BY <4>1, <4>3
    <3>3. CASE /\ o.fd = path /\ path # NULL /\ path \in DOMAIN o.q.node
               /\ path \notin Opened(a.node) /\ Opened(o.q.node) = Opened(a.node) \cup {path}
               /\ o.q.node[path].kind = "file" /\ a.used # MAX_OPEN
      <4> PICK b, M : b = o.q /\ M = O \cup {path}
        OBVIOUS
      <4>0. b = o.q
        OBVIOUS
      <4>1. Opened(b.node) = M /\ Good(b) /\ Grows(a, b) /\ path \in DOMAIN b.node /\ path \notin O
        BY <2>1, <3>1, <3>3
      <4>2. Called(q, b, M)
        <5>1. Called(a, b, M)
          BY <2>1, <4>1, GrowsCalled
        <5> QED BY ONLY <2>4, <5>1, CalledTwice
      <4>3. Missing(a, newpath)
        <5>1. r.left # 0
          BY <2>2, <2>3, <2>6, <3>3 DEF Reached, IsFreeDir
        <5> QED BY <2>2, <2>3, <5>1 DEF Reached
      <4>4. d \in Paths /\ newpath = Append(d, Last(newpath)) /\ Len(d) <= 1
        BY FrontFacts
      <4>5. Tried(b, d, "dir", p) /\ Good(p.q) /\ Grows(b, p.q)
        <5>1. Good(b) /\ d \in Paths /\ p = openDir(b, d)
          BY <1>0, <4>0, <4>1, <4>4
        <5>2. Tried(b, d, "dir", p)
          BY ONLY <5>1, TriedDir
        <5> QED BY ONLY <5>2 DEF Tried
      <4>6. z = MoveTo(o, p, newpath) /\ o.fd = path
        <5>1. /\ t = openFile(q, newpath, FALSE) /\ t.fd = NULL /\ r = lookup(q, newpath)
              /\ o = openFile(t.q, path, FALSE) /\ o.fd # NULL /\ o.fd = path
              /\ z = moveFile(q, path, newpath) /\ p = openDir(o.q, Front(newpath))
              /\ ~IsFreeDir(r)
          BY <1>3, <2>6, <3>3
        <5>2. MoveStarts(q, path, newpath, t, r, o, z)
          BY ONLY <5>1 DEF MoveStarts
        <5>3. z = MoveTo(o, openDir(o.q, Front(newpath)), newpath)
          BY ONLY <5>2, MoveUnfolds
        <5> QED BY ONLY <5>1, <5>3
      <4> PICK s : s = p.q
        OBVIOUS
      <4>7. CASE p.fd = NULL /\ Opened(s.node) = Opened(b.node)
        <5>1. Called(q, s, M)
          <6>1. Called(b, s, M)
            BY <4>1, <4>5, <4>7, GrowsCalled
          <6> QED BY ONLY <4>2, <6>1, CalledTwice
        <5>2. path \in DOMAIN s.node /\ s.node[path].opened
          BY <4>1, <4>7 DEF Opened
        <5>3. Called(q, closeNode(s, path), M \ {path})
          BY ONLY <5>1, <5>2, CallClosed
        <5>4. M \ {path} = O
          BY <4>1
        <5>5. z = closeNode(s, path)
          BY <4>6, <4>7 DEF MoveTo
        <5> QED BY <5>3, <5>4, <5>5
      <4>8. CASE /\ p.fd = d /\ d # NULL /\ d \in DOMAIN s.node /\ d \notin Opened(b.node)
                 /\ Opened(s.node) = Opened(b.node) \cup {d} /\ s.node[d].kind = "dir"
                 /\ s.node[d].loaded
        <5> PICK x, K : /\ x = [b.node[path] EXCEPT !.name = newpath[Len(newpath)],
                                                    !.opened = FALSE, !.ref = @ - 1]
                        /\ K = M \cup {d}
          OBVIOUS
        <5>1. Opened(s.node) = K /\ Good(s) /\ Grows(b, s) /\ d \notin M /\ d \in DOMAIN s.node
          BY <4>1, <4>5, <4>8
        <5>2. Called(q, s, K)
          <6>1. Called(b, s, K)
            BY <4>1, <5>1, GrowsCalled
          <6> QED BY ONLY <4>2, <6>1, CalledTwice
        <5>3. Grows(a, s) /\ Grows(q, s)
          <6>1. Tree(b.node, b.dirs) /\ Tree(a.node, a.dirs)
            BY <2>1, <4>1 DEF Good
          <6>2. Grows(a, s)
            BY <4>1, <5>1, <6>1, GrowsTwice
          <6> QED BY <2>1, <6>1, <6>2, GrowsTwice
        <5>4. newpath \notin DOMAIN s.node
          BY <2>1, <4>3, <5>1, <5>3, MissingStays
        <5>5. ~GoneIn(s.node, s.dirs, d)
          <6>1. Kept(s, d)
            BY <5>3, KeptGrows
          <6> QED BY <5>1, <6>1 DEF Kept
        <5>6. b.node[path].opened /\ b.node[path].kind = "file"
          BY <3>3, <4>1 DEF Opened
        <5>7. NewFile(s.node, d, x)
          <6>1. Volume(path) = Volume(newpath)
            BY DEF Volume, OnCard
          <6>2. Copied(b.node[path], newpath, x)
            BY DEF Copied
          <6>3. NewFile(s.node, Front(newpath), x)
            BY <4>1, <5>4, <5>6, <6>1, <6>2, CopyIsNew
          <6> QED BY <6>3
        <5>8. /\ path \in DOMAIN s.node /\ s.node[path].opened /\ s.node[path].kind = "file"
              /\ s.node[d].opened
          <6>1. path \in Opened(s.node) /\ d \in Opened(s.node)
            BY <5>1, Zenon
          <6>2. SameEntry(s.node[path], b.node[path])
            BY <4>1, <5>1, Zenon DEF Grows
          <6> QED BY <5>6, <6>1, <6>2 DEF Opened, SameEntry
        <5>9. Called(s, z, (Opened(s.node) \ {d}) \ {path})
          <6>1. /\ Good(s) /\ path \in DOMAIN s.node /\ s.node[path].kind = "file"
                /\ s.node[path].opened /\ d \in DOMAIN s.node /\ s.node[d].kind = "dir"
                /\ s.node[d].loaded /\ s.node[d].opened /\ Len(d) <= 1
                /\ ~GoneIn(s.node, s.dirs, d) /\ NewFile(s.node, d, x)
            BY <4>4, <4>8, <5>1, <5>5, <5>7, <5>8, Zenon
          <6>2. Called(s, Moving(s, path, d, x), (Opened(s.node) \ {d}) \ {path})
            BY ONLY <6>1, MoveOpened
          <6>3. z = Moving(s, path, d, x)
            BY <4>6, <4>8 DEF MoveTo
          <6> QED BY ONLY <6>2, <6>3
        <5>10. (Opened(s.node) \ {d}) \ {path} = O
          BY <4>1, <5>1
        <5>11. Called(s, z, O)
          BY <5>9, <5>10
        <5>12. Called(q, z, O)
          BY ONLY <5>2, <5>11, CalledTwice
        <5> QED BY <5>12
      <4> QED BY <4>5, <4>7, <4>8 DEF Tried
    <3> QED BY <3>1, <3>2, <3>3 DEF Tried
  <2> QED BY <2>5, <2>6
<1> QED BY <1>2, <1>3

(***************************************************************************)
(* What the callers keep to: no step of a plain path was removed.          *)
(***************************************************************************)
LEMMA GoneIs ==
  ASSUME NEW n \in DOMAIN fs.node
  PROVE  Gone(n) <=> GoneIn(fs.node, fs.dirs, n)
BY DEF Gone, GoneIn, Live

LEMMA KeptStep ==
  ASSUME Good(fs), NEW m \in Paths, ~Gone(lookup(fs, m).n)
  PROVE  Kept(fs, m)
<1> SUFFICES ASSUME m \in DOMAIN fs.node PROVE ~GoneIn(fs.node, fs.dirs, m)
  BY DEF Kept
<1> PICK r : r = lookup(fs, m)
  OBVIOUS
<1>1. Reached(fs, m, r)
  BY LookupReaches
<1>2. m \in DOMAIN r.q.node
  BY <1>1 DEF Reached, Grows
<1>3. r.n = m
  BY <1>1, <1>2 DEF Reached
<1> QED BY <1>3, GoneIs

LEMMA WholePath ==
  ASSUME NEW path \in Paths
  PROVE  SubSeq(path, 1, Len(path)) = path
<1>1. path \in Seq(AllNames)
  <2>1. CASE path = <<>>
    BY <2>1
  <2>2. CASE path # <<>>
    BY <2>2, FrontFacts DEF Keys
  <2> QED BY <2>1, <2>2
<1> PICK L \in Nat : L = Len(path)
  BY <1>1, LenProperties
<1> PICK s : s = SubSeq(path, 1, L)
  OBVIOUS
<1>2. s \in Seq(AllNames) /\ Len(s) = L /\ \A i \in 1..L : s[i] = path[i]
  BY <1>1, SubSeqProperties
<1> QED BY <1>1, <1>2, SeqEqual

LEMMA PlainKept ==
  ASSUME Good(fs), NEW path \in Paths, Plain(path)
  PROVE  Kept(fs, path) /\ (path # <<>> => Kept(fs, Front(path)))
<1>1. Len(path) \in 0..2
  BY PathLen
<1> PICK L \in 0..2 : L = Len(path)
  BY <1>1
<1>2. \A i \in 0..L : ~Gone(lookup(fs, SubSeq(path, 1, i)).n)
  BY DEF Plain
<1>3. Kept(fs, path)
  <2>1. ~Gone(lookup(fs, SubSeq(path, 1, L)).n)
    BY <1>2
  <2> QED BY <2>1, WholePath, KeptStep
<1>4. ASSUME path # <<>> PROVE Kept(fs, Front(path))
  <2>1. L - 1 \in 0..L
    <3>1. path \in Keys
      BY <1>4, FrontFacts
    <3>2. L # 0
      BY <1>4, <3>1, KeyLen
    <3> QED BY <3>2
  <2> PICK d : d = Front(path)
    OBVIOUS
  <2>2. ~Gone(lookup(fs, d).n)
    <3>1. ~Gone(lookup(fs, SubSeq(path, 1, L - 1)).n)
      BY <1>2, <2>1
    <3> QED BY <3>1 DEF Front
  <2>3. d \in Paths
    BY <1>4, FrontFacts
  <2> QED BY <2>2, <2>3, KeptStep
<1> QED BY <1>3, <1>4

(***************************************************************************)
(* The volumes.                                                            *)
(***************************************************************************)
\* What one volume may hold.
VolumeOK(L) ==
  /\ L \in [Dirs -> SUBSET Entries]
  /\ \A c \in Dirs : IsFiniteSet(L[c])
  /\ \A c \in Dirs : \A e \in L[c] : e.kind = "file" <=> e.at = ROOT
  /\ \A c \in Dirs : \A e, f \in L[c] : e.name = f.name => e = f
  /\ \A b, c \in Dirs : \A e \in L[b], f \in L[c] :
       e.kind = "dir" /\ f.kind = "dir" /\ e.at = f.at => b = c /\ e = f

LEMMA DiskOf ==
  ASSUME NEW D
  PROVE  DiskOK(D) <=> D \in [Disks -> [Dirs -> SUBSET Entries]] /\ \A v \in Disks : VolumeOK(D[v])
BY DEF DiskOK, VolumeOK

LEMMA LayoutOK ==
  ASSUME NEW layout \in Layouts
  PROVE  VolumeOK(layout)
<1> PICK f, d : f = SomeFile /\ d = SomeDir
  OBVIOUS
<1>1. SomeName \in Names
  BY TreeAssumption DEF SomeName
<1>2. ROOT \in Dirs /\ 1 \in Dirs /\ 1 # ROOT
  BY TreeAssumption DEF Dirs, ROOT
<1>3. /\ f \in Entries /\ f.kind = "file" /\ f.at = ROOT
      /\ d \in Entries /\ d.kind = "dir" /\ d.at = 1
  BY <1>1, <1>2 DEF SomeFile, SomeDir, Entries, Kinds
<1>4. IsFiniteSet({}) /\ IsFiniteSet({f}) /\ IsFiniteSet({d})
  BY FS_EmptySet, FS_Singleton
<1>5. \A c \in Dirs : /\ layout[c] = {} \/ layout[c] = {f} \/ (layout[c] = {d} /\ c = ROOT)
                      /\ layout \in [Dirs -> SUBSET Entries]
  <2>1. \/ layout = [c \in Dirs |-> {}]
        \/ layout = [c \in Dirs |-> IF c = ROOT THEN {f} ELSE {}]
        \/ layout = [c \in Dirs |-> IF c = ROOT THEN {d} ELSE IF c = 1 THEN {f} ELSE {}]
    BY DEF Layouts
  <2>2. CASE layout = [c \in Dirs |-> {}]
    BY <2>2
  <2>3. CASE layout = [c \in Dirs |-> IF c = ROOT THEN {f} ELSE {}]
    BY <1>3, <2>3
  <2>4. CASE layout = [c \in Dirs |-> IF c = ROOT THEN {d} ELSE IF c = 1 THEN {f} ELSE {}]
    BY <1>3, <2>4
  <2> QED BY <2>1, <2>2, <2>3, <2>4
<1>6. layout \in [Dirs -> SUBSET Entries]
  BY <1>2, <1>5
<1>7. \A c \in Dirs : IsFiniteSet(layout[c])
  BY <1>4, <1>5
<1>8. \A c \in Dirs : \A e \in layout[c] : (e = f \/ (e = d /\ c = ROOT)) /\ (e.kind = "file" <=> e.at = ROOT)
  BY <1>2, <1>3, <1>5
<1>9. \A c \in Dirs : \A e, g \in layout[c] : e = g
  BY <1>5
<1>10. \A b, c \in Dirs : \A e \in layout[b], g \in layout[c] :
         e.kind = "dir" /\ g.kind = "dir" => b = c /\ e = g
  BY <1>3, <1>8
<1> QED BY <1>6, <1>7, <1>8, <1>9, <1>10 DEF VolumeOK

\* A card is changed while none is mounted.
LEMMA OtherDisk ==
  ASSUME NEW N, NEW D, Tree(N, D), Card \notin DOMAIN N, NEW layout, VolumeOK(layout)
  PROVE  Tree(N, [D EXCEPT !["CF"] = layout])
<1> PICK E : E = [D EXCEPT !["CF"] = layout]
  OBVIOUS
<1>0. Nodelike(N) /\ Linked(N) /\ Placed(N) /\ DiskOK(D) /\ Mirrored(N, D) /\ Ghosts(N, D)
      /\ OneDir(N, D)
  BY DEF Tree
<1>1. D \in [Disks -> [Dirs -> SUBSET Entries]] /\ layout \in [Dirs -> SUBSET Entries]
      /\ "CF" \in Disks /\ "HD" \in Disks
  BY <1>0, KeyFacts DEF DiskOK, VolumeOK
<1>2. E \in [Disks -> [Dirs -> SUBSET Entries]] /\ E["CF"] = layout /\ E["HD"] = D["HD"]
  BY <1>1
<1>3. DiskOK(E)
  BY <1>0, <1>2, DiskOf DEF Disks
<1>4. \A n \in DOMAIN N : N[n].disk = "HD"
  BY <1>0 DEF Placed, Volume
<1>5. \A n \in DOMAIN N : (GoneIn(N, E, n) <=> GoneIn(N, D, n)) /\ Holds(N, E, n) = Holds(N, D, n)
  BY <1>2, <1>4 DEF GoneIn, Holds
<1>6. Mirrored(N, E)
  BY <1>0, <1>5 DEF Mirrored
<1>7. Ghosts(N, E) /\ OneDir(N, E)
  BY <1>0, <1>5 DEF Ghosts, OneDir
<1> QED BY <1>0, <1>3, <1>6, <1>7 DEF Tree

\* What is under a node: the tree is three deep at most.
LEMMA BelowIs ==
  ASSUME NEW q, NEW n, NEW K, K \subseteq DOMAIN q.node, q.node[n].kids \subseteq K,
         \A k \in K : q.node[k].kids \subseteq K,
         \A k \in K : \/ k \in q.node[n].kids
                      \/ \E m \in q.node[n].kids : \/ k \in q.node[m].kids
                                                   \/ \E l \in q.node[m].kids : k \in q.node[l].kids
  PROVE  Below(q, n) = K
<1> DEFINE N == q.node
           Next1(S) == S \cup UNION {N[k].kids : k \in S \cap DOMAIN N}
           Turn(f, i) == IF i = 0 THEN N[n].kids ELSE Next1(f[i - 1])
           a0 == N[n].kids
           a1 == Next1(a0)
           a2 == Next1(a1)
           a3 == Next1(a2)
           w == [i \in 0..3 |-> IF i = 0 THEN a0 ELSE IF i = 1 THEN a1 ELSE IF i = 2 THEN a2 ELSE a3]
           at == CHOOSE f : f = [i \in 0..3 |-> Turn(f, i)]
<1>1. Below(q, n) = at[3]
  BY DEF Below, Live
<1> HIDE DEF Next1
<1>2. w = [i \in 0..3 |-> Turn(w, i)]
  <2> SUFFICES ASSUME NEW i \in 0..3 PROVE w[i] = Turn(w, i)
    BY Zenon
  <2>1. i = 0 \/ i = 1 \/ i = 2 \/ i = 3
    OBVIOUS
  <2> HIDE DEF a0, a1, a2, a3
  <2>2. w[0] = a0 /\ w[1] = a1 /\ w[2] = a2 /\ w[3] = a3
    OBVIOUS
  <2> HIDE DEF w
  <2>3. i = 0 => Turn(w, i) = a0
    BY DEF a0
  <2>4. i = 1 => Turn(w, i) = Next1(w[0])
    OBVIOUS
  <2>5. i = 2 => Turn(w, i) = Next1(w[1])
    OBVIOUS
  <2>6. i = 3 => Turn(w, i) = Next1(w[2])
    OBVIOUS
  <2> HIDE DEF Turn
  <2> QED BY <2>1, <2>2, <2>3, <2>4, <2>5, <2>6 DEF a1, a2, a3
<1>3. at = [i \in 0..3 |-> Turn(at, i)]
  <2> HIDE DEF w, Turn
  <2> QED BY <1>2
<1> HIDE DEF at
<1>4. at[0] = a0
  BY <1>3
<1>5. at[1] = Next1(at[0]) /\ at[2] = Next1(at[1]) /\ at[3] = Next1(at[2])
  <2>1. /\ 1 \in 0..3 /\ 1 - 1 = 0 /\ 2 \in 0..3 /\ 2 - 1 = 1 /\ 3 \in 0..3 /\ 3 - 1 = 2
        /\ 1 # 0 /\ 2 # 0 /\ 3 # 0
    OBVIOUS
  <2>2. at[1] = Turn(at, 1) /\ at[2] = Turn(at, 2) /\ at[3] = Turn(at, 3)
    <3> HIDE DEF Turn
    <3> QED BY <1>3, <2>1
  <2> QED BY <2>1, <2>2
<1>6. at[3] = a3
  <2> HIDE DEF a0
  <2> QED BY <1>4, <1>5 DEF a1, a2, a3
<1>7. \A S : S \subseteq K => Next1(S) \subseteq K
  BY DEF Next1
<1>8. \A S : S \subseteq Next1(S) /\ \A k \in S \cap DOMAIN N : N[k].kids \subseteq Next1(S)
  BY DEF Next1
<1>9. a3 \subseteq K
  <2>1. a0 \subseteq K
    OBVIOUS
  <2> HIDE DEF a0
  <2> QED BY <1>7, <2>1 DEF a1, a2, a3
<1>10. ASSUME NEW k \in K PROVE k \in a3
  <2> HIDE DEF a1, a2, a3
  <2>1. a0 \subseteq a1 /\ a1 \subseteq a2 /\ a2 \subseteq a3
    <3> HIDE DEF a0
    <3> QED BY <1>8 DEF a1, a2, a3
  <2>2. \A m \in a0 : N[m].kids \subseteq a1
    <3>1. a0 \subseteq DOMAIN N
      OBVIOUS
    <3> HIDE DEF a0
    <3> QED BY <1>8, <3>1 DEF a1
  <2>3. \A l \in a1 \cap K : N[l].kids \subseteq a2
    <3> HIDE DEF a0
    <3> QED BY <1>8 DEF a2
  <2>4. CASE k \in N[n].kids
    BY <2>1, <2>4
  <2>5. ASSUME NEW m \in N[n].kids, k \in N[m].kids PROVE k \in a3
    BY <2>1, <2>2, <2>5
  <2>6. ASSUME NEW m \in N[n].kids, NEW l \in N[m].kids, k \in N[l].kids PROVE k \in a3
    <3>1. l \in a1 \cap K
      BY <2>2
    <3> QED BY <2>1, <2>3, <2>6, <3>1
  <2> QED BY <2>4, <2>5, <2>6
<1> QED BY <1>1, <1>6, <1>9, <1>10

\* Where a node is under the root, or under the card's.
LEMMA Depth ==
  ASSUME NEW N, Nodelike(N), Linked(N), NEW k \in DOMAIN N, k # <<>>
  PROVE  \/ Len(k) = 1 /\ N[k].parent = <<>>
         \/ Len(k) = 2 /\ N[k].parent # <<>> /\ N[N[k].parent].parent = <<>>
         \/ /\ Len(k) = 3 /\ N[k].parent # <<>> /\ N[N[k].parent].parent # <<>>
            /\ N[N[N[k].parent].parent].parent = <<>>
<1>1. \A m \in DOMAIN N : m # <<>> =>
        /\ N[m].parent \in DOMAIN N /\ Len(m) = Len(N[m].parent) + 1
        /\ Len(m) \in 1..3 /\ Len(N[m].parent) \in 0..3
        /\ (N[m].parent = <<>> <=> Len(N[m].parent) = 0)
  <2> SUFFICES ASSUME NEW m \in DOMAIN N, m # <<>>
               PROVE  /\ N[m].parent \in DOMAIN N /\ Len(m) = Len(N[m].parent) + 1
                      /\ Len(m) \in 1..3 /\ Len(N[m].parent) \in 0..3
                      /\ (N[m].parent = <<>> <=> Len(N[m].parent) = 0)
    OBVIOUS
  <2> PICK d, a : d = N[m].parent /\ a = N[m].name
    OBVIOUS
  <2>1. d \in DOMAIN N /\ m = Append(d, a) /\ d \in Keys /\ a \in AllNames /\ m \in Keys
    BY ParentFacts, NodeFacts
  <2>2. d \in Seq(AllNames) /\ Len(d) \in 0..3 /\ (d = <<>> <=> Len(d) = 0) /\ Len(m) \in 0..3
    BY <2>1, KeyLen
  <2>3. Len(m) = Len(d) + 1
    BY <2>1, <2>2, AppendParts
  <2> QED BY <2>1, <2>2, <2>3
<1> PICK d, e, f : d = N[k].parent /\ e = N[d].parent /\ f = N[e].parent
  OBVIOUS
<1>2. d \in DOMAIN N /\ Len(k) = Len(d) + 1 /\ Len(k) \in 1..3 /\ Len(d) \in 0..3
      /\ (d = <<>> <=> Len(d) = 0)
  BY <1>1
<1>3. d # <<>> => /\ e \in DOMAIN N /\ Len(d) = Len(e) + 1 /\ Len(e) \in 0..3
                  /\ (e = <<>> <=> Len(e) = 0)
  BY <1>1, <1>2
<1>4. d # <<>> /\ e # <<>> => /\ f \in DOMAIN N /\ Len(e) = Len(f) + 1 /\ Len(f) \in 0..3
                              /\ (f = <<>> <=> Len(f) = 0)
  BY <1>1, <1>3
<1> QED BY <1>2, <1>3, <1>4

LEMMA BelowRoot ==
  ASSUME NEW q, Nodelike(q.node), Linked(q.node)
  PROVE  Below(q, <<>>) = DOMAIN q.node \ {<<>>}
<1> PICK N, K : N = q.node /\ K = DOMAIN N \ {<<>>}
  OBVIOUS
<1>1. <<>> \in DOMAIN N /\ \A m \in DOMAIN N : N[m].kids \subseteq K
  BY DEF Linked
<1>2. \A m \in K : N[m].parent \in DOMAIN N /\ m \in N[N[m].parent].kids
  BY DEF Linked
<1>3. ASSUME NEW k \in K
      PROVE  \/ k \in N[<<>>].kids
             \/ \E m \in N[<<>>].kids : \/ k \in N[m].kids
                                        \/ \E l \in N[m].kids : k \in N[l].kids
  <2> PICK d, e : d = N[k].parent /\ e = N[d].parent
    OBVIOUS
  <2>1. \/ d = <<>>
        \/ d # <<>> /\ e = <<>>
        \/ d # <<>> /\ e # <<>> /\ N[e].parent = <<>>
    BY Depth
  <2>2. d \in DOMAIN N /\ k \in N[d].kids
    BY <1>2
  <2>3. d # <<>> => d \in K /\ e \in DOMAIN N /\ d \in N[e].kids
    BY <1>2, <2>2
  <2>4. d # <<>> /\ e # <<>> => e \in N[N[e].parent].kids
    BY <1>2, <2>3
  <2> QED BY <2>1, <2>2, <2>3, <2>4
<1> PICK n : n = <<>>
  OBVIOUS
<1>9. /\ K \subseteq DOMAIN q.node /\ q.node[n].kids \subseteq K
      /\ \A k \in K : q.node[k].kids \subseteq K
  BY <1>1
<1>10. \A k \in K : \/ k \in q.node[n].kids
                     \/ \E m \in q.node[n].kids : \/ k \in q.node[m].kids
                                                  \/ \E l \in q.node[m].kids : k \in q.node[l].kids
  BY <1>3
<1>11. Below(q, n) = K
  BY ONLY <1>9, <1>10, BelowIs
<1> QED BY <1>11

LEMMA BelowCard ==
  ASSUME NEW q, Nodelike(q.node), Linked(q.node), Placed(q.node), Card \in DOMAIN q.node
  PROVE  Below(q, Card) = {n \in DOMAIN q.node : q.node[n].disk = "CF"} \ {Card}
<1> PICK N, K : N = q.node /\ K = {n \in DOMAIN N : N[n].disk = "CF"} \ {Card}
  OBVIOUS
<1>1. /\ N[Card].disk = "CF" /\ N[<<>>].disk = "HD" /\ <<>> \in DOMAIN N
      /\ N[Card].parent = <<>> /\ Card # <<>>
  <2>1. N[Card].disk = "CF" /\ N[<<>>].disk = "HD" /\ <<>> \in DOMAIN N /\ Card # <<>>
    BY KeyFacts DEF Placed, Linked
  <2>2. N[Card].parent = <<>>
    <3> PICK a, z : a = CF_0 /\ z = <<>>
      OBVIOUS
    <3>1. Append(z, a) = Card /\ a \in AllNames
      BY KeyFacts
    <3>2. /\ Append(z, a) \in DOMAIN N /\ z \in DOMAIN N /\ Nodelike(N) /\ Linked(N)
          /\ a \in AllNames
      BY <2>1, <3>1
    <3>3. N[Append(z, a)].parent = z
      BY ONLY <3>2, KidOf
    <3> QED BY <3>1, <3>3
  <2> QED BY <2>1, <2>2
<1>2. ASSUME NEW m \in DOMAIN N, N[m].disk = "CF" PROVE N[m].kids \subseteq K
  <2> SUFFICES ASSUME NEW k \in N[m].kids PROVE k \in K
    OBVIOUS
  <2>1. k \in DOMAIN N /\ k # <<>> /\ N[k].parent = m
    BY DEF Linked
  <2>2. k # Card
    BY <1>1, <1>2, <2>1
  <2>3. N[k].disk = "CF"
    BY <1>2, <2>1, <2>2, ParentDisk
  <2> QED BY <2>1, <2>2, <2>3
<1>3. ASSUME NEW m \in K
      PROVE  /\ m # <<>> /\ N[m].parent \in DOMAIN N /\ m \in N[N[m].parent].kids
             /\ N[N[m].parent].disk = "CF"
  <2>1. m # <<>> /\ m # Card /\ m \in DOMAIN N
    BY <1>1
  <2>2. N[N[m].parent].disk = N[m].disk /\ N[m].parent \in DOMAIN N
    BY <2>1, ParentDisk
  <2>3. m \in N[N[m].parent].kids
    BY <2>1, Zenon DEF Linked
  <2> QED BY <2>1, <2>2, <2>3
<1>4. ASSUME NEW k \in K
      PROVE  \/ k \in N[Card].kids
             \/ \E m \in N[Card].kids : \/ k \in N[m].kids
                                        \/ \E l \in N[m].kids : k \in N[l].kids
  <2> PICK d, e : d = N[k].parent /\ e = N[d].parent
    OBVIOUS
  <2>1. \/ d = <<>>
        \/ d # <<>> /\ e = <<>>
        \/ d # <<>> /\ e # <<>> /\ N[e].parent = <<>>
    BY <1>3, Depth
  <2>2. d \in DOMAIN N /\ k \in N[d].kids /\ N[d].disk = "CF" /\ d # <<>>
    BY <1>1, <1>3
  <2>3. d # Card => e \in DOMAIN N /\ d \in N[e].kids /\ N[e].disk = "CF" /\ e # <<>>
    BY <1>1, <1>3, <2>2, Zenon
  <2>4. d # Card /\ e # Card => e \in N[N[e].parent].kids /\ N[e].parent # <<>>
    BY <1>1, <1>3, <2>3
  <2> QED BY <2>1, <2>2, <2>3, <2>4
<1> PICK n : n = Card
  OBVIOUS
<1>9. /\ K \subseteq DOMAIN q.node /\ q.node[n].kids \subseteq K
      /\ \A k \in K : q.node[k].kids \subseteq K
  BY <1>1, <1>2
<1>10. \A k \in K : \/ k \in q.node[n].kids
                     \/ \E m \in q.node[n].kids : \/ k \in q.node[m].kids
                                                  \/ \E l \in q.node[m].kids : k \in q.node[l].kids
  BY <1>4
<1>11. Below(q, n) = K
  BY ONLY <1>9, <1>10, BelowIs
<1> QED BY <1>11

(***************************************************************************)
(* Mounting a volume.                                                      *)
(***************************************************************************)
\* e is a with the mount point n of volume v.
Mounted(a, v, n, e) ==
  e = [a EXCEPT !.mount[v] = n, !.opened[v] = {}, !.mounted = @ \cup {v}]

LEMMA MountedFields ==
  ASSUME NEW a, IsFs(a), NEW v \in Disks, NEW n \in {NULL, <<>>, Card}, NEW e, Mounted(a, v, n, e)
  PROVE  /\ IsFs(e) /\ e.node = a.node /\ e.dirs = a.dirs /\ e.used = a.used /\ e.info = a.info
         /\ e.hung = a.hung /\ e.mounted = a.mounted \cup {v}
         /\ e.mount[v] = n /\ e.opened[v] = {}
         /\ \A w \in Disks : w # v => e.mount[w] = a.mount[w] /\ e.opened[w] = a.opened[w]
<1> DEFINE m == [a.mount EXCEPT ![v] = n]
           o == [a.opened EXCEPT ![v] = {}]
           d == a.mounted \cup {v}
           r == [node |-> a.node, mount |-> m, opened |-> o, info |-> a.info, mounted |-> d,
                 used |-> a.used, dirs |-> a.dirs, hung |-> a.hung]
<1>1. e = r
  <2>1. [a EXCEPT !.mount[v] = n] = [a EXCEPT !.mount = m]
    BY DEF IsFs
  <2> DEFINE b == [a EXCEPT !.mount[v] = n]
             c == [b EXCEPT !.opened[v] = {}]
  <2>2. b = [node |-> a.node, mount |-> m, opened |-> a.opened, info |-> a.info,
             mounted |-> a.mounted, used |-> a.used, dirs |-> a.dirs, hung |-> a.hung]
    <3> HIDE DEF m
    <3> QED BY <2>1 DEF IsFs
  <2> HIDE DEF b
  <2>3. c = [b EXCEPT !.opened = o]
    BY <2>2
  <2>4. e = [c EXCEPT !.mounted = @ \cup {v}]
    BY DEF Mounted, b
  <2> HIDE DEF c, o, m
  <2> QED BY <2>2, <2>3, <2>4
<1>2. m \in [Disks -> {NULL, <<>>, Card}] /\ m[v] = n
      /\ \A w \in Disks : w # v => m[w] = a.mount[w]
  BY DEF IsFs
<1>3. o \in [Disks -> SUBSET Keys] /\ o[v] = {} /\ \A w \in Disks : w # v => o[w] = a.opened[w]
  BY DEF IsFs
<1>4. d \in SUBSET Disks
  BY DEF IsFs
<1> HIDE DEF m, o, d
<1>5. /\ e.node = a.node /\ e.dirs = a.dirs /\ e.used = a.used /\ e.info = a.info
      /\ e.hung = a.hung /\ e.mounted = d /\ e.mount = m /\ e.opened = o
      /\ e = [node |-> e.node, mount |-> e.mount, opened |-> e.opened, info |-> e.info,
              mounted |-> e.mounted, used |-> e.used, dirs |-> e.dirs, hung |-> e.hung]
  BY ONLY <1>1
<1>6. IsFs(e)
  <2>1. a.info \in SUBSET Disks /\ a.used \in Int
    BY DEF IsFs
  <2> QED BY ONLY <1>2, <1>3, <1>4, <1>5, <2>1 DEF IsFs
<1> QED BY <1>2, <1>3, <1>5, <1>6 DEF d

\* The root of the hard disk, not loaded.
RootOnly(e, x) ==
  /\ IsFs(e) /\ x = NewNode(CF_0, "dir", ROOT, "HD")
  /\ e.node = [k \in {<<>>} |-> x] /\ DiskOK(e.dirs) /\ e.used = 0 /\ e.hung = FALSE
  /\ e.info = {"HD"} /\ e.mounted = {"HD"} /\ e.mount["HD"] = <<>> /\ e.mount["CF"] = NULL
  /\ \A v \in Disks : e.opened[v] = {}

LEMMA RootAlone ==
  ASSUME NEW e, NEW x, RootOnly(e, x)
  PROVE  Good(e) /\ <<>> \in DOMAIN e.node /\ e.node[<<>>].kind = "dir" /\ Opened(e.node) = {}
<1>0. /\ IsFs(e) /\ x = NewNode(CF_0, "dir", ROOT, "HD")
      /\ e.node = [k \in {<<>>} |-> x] /\ DiskOK(e.dirs) /\ e.used = 0 /\ e.hung = FALSE
      /\ e.info = {"HD"} /\ e.mounted = {"HD"} /\ e.mount["HD"] = <<>> /\ e.mount["CF"] = NULL
      /\ \A v \in Disks : e.opened[v] = {}
  BY DEF RootOnly
<1> USE <1>0
<1> PICK N, D : N = e.node /\ D = e.dirs
  OBVIOUS
<1>1. DOMAIN N = {<<>>} /\ N[<<>>] = x
  OBVIOUS
<1>2. /\ x \in NodeType /\ x.kind = "dir" /\ x.loc = ROOT /\ x.disk = "HD" /\ x.kids = {}
      /\ ~x.loaded /\ ~x.opened /\ Exact(x)
  <2>1. CF_0 \in AllNames /\ "dir" \in Kinds /\ ROOT \in Dirs /\ "HD" \in Disks
    BY KeyFacts DEF Kinds
  <2> QED BY <2>1, NewNodeFacts
<1>3. x.parent = NULL
  BY DEF NewNode
<1>4. Nodelike(N)
  <2>1. IsFiniteSet({<<>>}) /\ <<>> \in Keys
    BY FS_Singleton, KeyFacts
  <2>2. N \in [DOMAIN N -> NodeType]
    BY <1>1, <1>2
  <2> QED BY <1>1, <2>1, <2>2 DEF Nodelike
<1>5. Linked(N)
  BY <1>1, <1>2, <1>3 DEF Linked
<1>6. Placed(N)
  BY <1>1, <1>2, KeyFacts DEF Placed
<1>7. Mirrored(N, D) /\ Ghosts(N, D) /\ OneDir(N, D)
  BY <1>1, <1>2 DEF Mirrored, Ghosts, OneDir, GoneIn
<1>8. Counted(N)
  BY <1>1, <1>2 DEF Counted
<1>9. Listed(e)
  <2>1. OpenFiles(N) = {} /\ \A v \in Disks : OpenOn(N, v) = {}
    BY <1>1, <1>2 DEF OpenFiles, OpenOn
  <2>2. Cardinality({}) = 0
    BY FS_EmptySet
  <2> QED BY <2>1, <2>2 DEF Listed
<1>10. Volumes(e)
  BY <1>1, KeyFacts DEF Volumes
<1>11. Opened(N) = {}
  BY <1>1, <1>2 DEF Opened
<1> QED BY <1>1, <1>2, <1>4, <1>5, <1>6, <1>7, <1>8, <1>9, <1>10, <1>11 DEF Good, Tree

LEMMA RootMounted ==
  ASSUME NEW q, Bare(q)
  PROVE  LET r == disk_add(q, "HD", TRUE)
         IN  /\ Good(r) /\ r.node[<<>>].loaded /\ Opened(r.node) = {} /\ "CF" \notin r.info
             /\ r.dirs = q.dirs
<1> PICK x, n, c, a, e, r : /\ x = NewNode(CF_0, "dir", ROOT, "HD") /\ n = <<>>
                            /\ c = [q EXCEPT !.info = @ \cup {"HD"}]
                            /\ a = [c EXCEPT !.node = [k \in {n} |-> x]]
                            /\ e = [a EXCEPT !.mount["HD"] = n, !.opened["HD"] = {},
                                             !.mounted = @ \cup {"HD"}]
                            /\ r = disk_add(q, "HD", TRUE)
  BY Zenon
<1>1. /\ IsFs(q) /\ q.hung = FALSE /\ DiskOK(q.dirs) /\ q.info = {} /\ q.mounted = {} /\ q.used = 0
      /\ \A v \in Disks : q.mount[v] = NULL /\ q.opened[v] = {}
  BY DEF Bare
<1>2. r = loadDir(e, n)
  <2>1. r = mount(c, "HD")
    BY <1>1 DEF disk_add
  <2>2. mount(c, "HD") = loadDir(e, n)
    BY DEF mount
  <2> QED BY <2>1, <2>2
<1>3. c = [q EXCEPT !.info = {"HD"}]
  BY <1>1
<1>4. /\ IsFs(a) /\ a.node = [k \in {n} |-> x] /\ a.mount = q.mount /\ a.opened = q.opened
      /\ a.info = {"HD"} /\ a.mounted = q.mounted /\ a.used = q.used /\ a.dirs = q.dirs
      /\ a.hung = q.hung
  <2>1. {"HD"} \in SUBSET Disks
    BY KeyFacts
  <2> PICK M : M = [k \in {n} |-> x]
    OBVIOUS
  <2>2. a = [node |-> M, mount |-> q.mount, opened |-> q.opened, info |-> {"HD"},
             mounted |-> q.mounted, used |-> q.used, dirs |-> q.dirs, hung |-> q.hung]
    BY <1>1, <1>3 DEF IsFs
  <2> QED BY ONLY <1>1, <2>1, <2>2, M = [k \in {n} |-> x] DEF IsFs
<1>5. /\ IsFs(e) /\ e.node = a.node /\ e.dirs = a.dirs /\ e.used = a.used /\ e.info = a.info
      /\ e.hung = a.hung /\ e.mounted = a.mounted \cup {"HD"}
      /\ e.mount["HD"] = n /\ e.opened["HD"] = {}
      /\ \A w \in Disks : w # "HD" => e.mount[w] = a.mount[w] /\ e.opened[w] = a.opened[w]
  <2> PICK v : v = "HD"
    OBVIOUS
  <2>1. IsFs(a) /\ v \in Disks /\ n \in {NULL, <<>>, Card} /\ Mounted(a, v, n, e)
    BY <1>4, KeyFacts DEF Mounted
  <2>2. /\ IsFs(e) /\ e.node = a.node /\ e.dirs = a.dirs /\ e.used = a.used /\ e.info = a.info
        /\ e.hung = a.hung /\ e.mounted = a.mounted \cup {v}
        /\ e.mount[v] = n /\ e.opened[v] = {}
        /\ \A w \in Disks : w # v => e.mount[w] = a.mount[w] /\ e.opened[w] = a.opened[w]
    BY ONLY <2>1, MountedFields
  <2> QED BY <2>2
<1>6. Good(e) /\ n \in DOMAIN e.node /\ e.node[n].kind = "dir" /\ Opened(e.node) = {}
  <2>1. /\ e.used = 0 /\ e.hung = FALSE /\ e.info = {"HD"} /\ e.mounted = {"HD"}
        /\ e.mount["HD"] = <<>> /\ e.mount["CF"] = NULL /\ (\A v \in Disks : e.opened[v] = {})
        /\ e.node = [k \in {<<>>} |-> x] /\ DiskOK(e.dirs)
    BY <1>1, <1>4, <1>5 DEF Disks
  <2>2. Good(e) /\ <<>> \in DOMAIN e.node /\ e.node[<<>>].kind = "dir" /\ Opened(e.node) = {}
    <3>1. x = NewNode(CF_0, "dir", ROOT, "HD") /\ IsFs(e)
      BY <1>5
    <3>2. RootOnly(e, x)
      BY ONLY <2>1, <3>1 DEF RootOnly
    <3> QED BY ONLY <3>2, RootAlone
  <2> QED BY <2>2
<1>7. /\ Good(loadDir(e, n)) /\ Grows(e, loadDir(e, n))
      /\ Opened(loadDir(e, n).node) = Opened(e.node) /\ loadDir(e, n).node[n].loaded
  <2>1. Good(e) /\ n \in DOMAIN e.node /\ Len(n) <= 2 /\ e.node[n].kind = "dir"
    BY <1>6
  <2> QED BY ONLY <2>1, DirLoaded
<1>8. r.info = e.info /\ r.dirs = e.dirs
  BY <1>2, <1>7 DEF Grows, Beside
<1>9. Good(r) /\ r.node[<<>>].loaded /\ Opened(r.node) = {}
  BY <1>2, <1>6, <1>7
<1>10. r.info = {"HD"} /\ r.dirs = q.dirs
  BY <1>4, <1>5, <1>8
<1>11. "CF" \notin r.info
  BY <1>10
<1>12. r = disk_add(q, "HD", TRUE)
  OBVIOUS
<1> QED BY ONLY <1>9, <1>10, <1>11, <1>12

LEMMA CardMounted ==
  ASSUME NEW q, Good(q), q.node[<<>>].loaded, "CF" \notin q.info
  PROVE  LET r == disk_add(q, "CF", TRUE)
         IN  Good(r) /\ r.node[<<>>].loaded /\ Opened(r.node) = Opened(q.node)
<1> PICK x, d, c, a, e, r : /\ x = NewNode(CF_0, "dir", ROOT, "CF") /\ d = <<>>
                            /\ c = [q EXCEPT !.info = @ \cup {"CF"}]
                            /\ a = addChildren(c, d, {x})
                            /\ e = [a EXCEPT !.mount["CF"] = Card, !.opened["CF"] = {},
                                             !.mounted = @ \cup {"CF"}]
                            /\ r = disk_add(q, "CF", TRUE)
  BY Zenon
<1>0. /\ IsFs(q) /\ q.hung = FALSE /\ Tree(q.node, q.dirs) /\ Counted(q.node) /\ Listed(q)
      /\ Volumes(q) /\ Nodelike(q.node) /\ Linked(q.node) /\ Placed(q.node) /\ DiskOK(q.dirs)
  BY DEF Good, Tree
<1>1. /\ q.mount["HD"] = d /\ "HD" \in q.info /\ "HD" \in q.mounted /\ "CF" \notin q.mounted
      /\ Card \notin DOMAIN q.node
  BY <1>0 DEF Volumes
<1>2. d \in DOMAIN q.node /\ q.node[d].kind = "dir" /\ q.node[d].loc = ROOT /\ Len(d) <= 2
      /\ q.node[d].loaded
  <2>1. <<>> \in DOMAIN q.node /\ q.node[<<>>].kind = "dir" /\ q.node[<<>>].loc = ROOT
    BY <1>0 DEF Linked, Placed
  <2> QED BY <2>1
<1>3. /\ x \in NodeType /\ x.kind = "dir" /\ x.loc = ROOT /\ x.disk = "CF" /\ x.kids = {}
      /\ ~x.loaded /\ ~x.opened /\ Exact(x) /\ x.name = CF_0
  <2>1. CF_0 \in AllNames /\ "dir" \in Kinds /\ ROOT \in Dirs /\ "CF" \in Disks
    BY KeyFacts DEF Kinds
  <2> QED BY <2>1, NewNodeFacts
<1>4. Child(d, x) = Card
  BY <1>3, KeyFacts DEF Child
<1>5. /\ IsFs(c) /\ c.node = q.node /\ c.mount = q.mount /\ c.opened = q.opened
      /\ c.info = q.info \cup {"CF"} /\ c.mounted = q.mounted /\ c.used = q.used
      /\ c.dirs = q.dirs /\ c.hung = q.hung
  <2>1. q.info \cup {"CF"} \in SUBSET Disks
    BY <1>0, KeyFacts DEF IsFs
  <2> QED BY <1>0, <2>1 DEF IsFs
<1>6. r = loadDir(e, Card)
  <2>1. r = mount(c, "CF")
    BY <1>0, <1>1 DEF disk_add
  <2>2. Named(c, d, CF_0) = {}
    <3> PICK k : k = CF_0
      OBVIOUS
    <3>1. k \in AllNames /\ Append(d, k) = Card
      BY KeyFacts
    <3>2. Named(c, d, k) = IF Append(d, k) \in DOMAIN c.node THEN {Append(d, k)} ELSE {}
      BY <1>0, <1>2, <1>5, <3>1, NamedIs
    <3> QED BY <1>1, <1>5, <3>1, <3>2
  <2>3. c.mount["HD"] = d
    BY <1>1, <1>5
  <2>4. mount(c, "CF") = loadDir([addChild(c, d, x) EXCEPT !.mount["CF"] = Child(d, x),
                                   !.opened["CF"] = {}, !.mounted = @ \cup {"CF"}], Child(d, x))
    BY <2>2, <2>3 DEF mount
  <2> QED BY <1>4, <2>1, <2>4 DEF addChild
<1>7. Fresh(q.node, d, {x})
  <2>1. IsFiniteSet({x})
    BY FS_Singleton
  <2> QED BY <1>1, <1>2, <1>3, <1>4, <2>1, KeyFacts DEF Fresh
<1>8. /\ IsFs(a) /\ Beside(c, a) /\ a.dirs = q.dirs /\ a.used = q.used /\ a.opened = q.opened
      /\ Grafted(q.node, a.node, d, {x}, TRUE, 1)
  <2> PICK new, l, i : new = {x} /\ l = q.node[d].loaded /\ i = Cardinality(new)
    OBVIOUS
  <2>1. IsFs(c) /\ Nodelike(c.node) /\ d \in DOMAIN c.node /\ Len(d) <= 2 /\ Fresh(c.node, d, new)
        /\ l = c.node[d].loaded
    BY <1>0, <1>2, <1>5, <1>7
  <2>2. /\ IsFs(a) /\ Beside(c, a) /\ a.dirs = c.dirs /\ a.used = c.used /\ a.opened = c.opened
        /\ Grafted(c.node, a.node, d, new, c.node[d].loaded, Cardinality(new))
    <3>1. LET b == addChildren(c, d, new)
          IN  /\ IsFs(b) /\ Beside(c, b) /\ b.dirs = c.dirs /\ b.used = c.used /\ b.opened = c.opened
              /\ Grafted(c.node, b.node, d, new, c.node[d].loaded, Cardinality(new))
      BY ONLY <2>1, AddFields
    <3> QED BY <3>1
  <2>3. Cardinality(new) = 1 /\ c.node[d].loaded = TRUE
    <3>1. c.node[d].loaded \in BOOLEAN
      BY <2>1, NodeFacts
    <3> QED BY <1>2, <1>5, <3>1, FS_Singleton
  <2> QED BY <1>5, <2>2, <2>3
<1>9. Made(d, {x}) = {Card} /\ DOMAIN a.node = DOMAIN q.node \cup {Card}
  <2>1. Made(d, {x}) = {Card}
    BY <1>4 DEF Made
  <2>2. DOMAIN a.node = DOMAIN q.node \cup Made(d, {x})
    BY <1>8 DEF Grafted
  <2> QED BY <2>1, <2>2
<1>10. \A n \in DOMAIN q.node : q.node[n].disk = "HD"
  BY <1>0, <1>1 DEF Placed, Volume
<1>11. Tree(a.node, q.dirs)
  <2>1. Suits(q.node, q.dirs, q.dirs, d, {x})
    <3>1. \A e1 \in Holds(q.node, q.dirs, d) : q.node[d].loaded /\ e1 \in Holds(q.node, q.dirs, d)
      BY <1>2
    <3>2. \A y \in {x} : Child(d, y) # Card => EntryOf(y) \in Holds(q.node, q.dirs, d)
      BY <1>4
    <3>3. \A y \in {x} : y.loaded => q.dirs[y.disk][y.loc] = {}
      BY <1>3
    <3>4. \A y \in {x} : y.kind = "dir" =>
            /\ \A m \in DOMAIN q.node : q.node[m].kind = "dir" /\ ~GoneIn(q.node, q.dirs, m)
                                        /\ q.node[m].disk = y.disk => q.node[m].loc # y.loc
            /\ \A z \in {x} : z.kind = "dir" /\ z.loc = y.loc => y = z
      BY <1>3, <1>10
    <3> QED BY <3>1, <3>2, <3>3, <3>4 DEF Suits
  <2>2. ~GoneIn(q.node, q.dirs, d)
    BY <1>2 DEF GoneIn
  <2> PICK new, i, D : new = {x} /\ i = 1 /\ D = q.dirs
    OBVIOUS
  <2>3. /\ Tree(q.node, D) /\ d \in DOMAIN q.node /\ Len(d) <= 2 /\ q.node[d].kind = "dir"
        /\ ~GoneIn(q.node, D, d) /\ Fresh(q.node, d, new)
        /\ Grafted(q.node, a.node, d, new, TRUE, i) /\ DiskOK(D) /\ Suits(q.node, D, D, d, new)
    BY <1>0, <1>2, <1>7, <1>8, <2>1, <2>2
  <2>4. Tree(a.node, D)
    BY ONLY <2>3, GraftTree
  <2> QED BY <2>4
<1>12. Counted(a.node)
  <2> PICK new, i : new = {x} /\ i = 1
    OBVIOUS
  <2>1. i = Cardinality(new) + (IF q.node[d].loaded THEN 0 ELSE Dots(q.node[d]))
    <3>1. Cardinality({x}) = 1
      BY FS_Singleton
    <3> QED BY <1>2, <3>1
  <2>2. /\ Nodelike(q.node) /\ Linked(q.node) /\ Counted(q.node) /\ d \in DOMAIN q.node
        /\ Len(d) <= 2 /\ Fresh(q.node, d, new) /\ (\A y \in new : Exact(y))
        /\ Grafted(q.node, a.node, d, new, TRUE, i)
    BY <1>0, <1>2, <1>3, <1>7, <1>8
  <2> QED BY ONLY <2>1, <2>2, GraftCounted
<1>13. /\ Opened(a.node) = Opened(q.node) /\ OpenFiles(a.node) = OpenFiles(q.node)
       /\ \A v \in Disks : OpenOn(a.node, v) = OpenOn(q.node, v)
  <2> PICK new, l, i : new = {x} /\ l = TRUE /\ i = 1
    OBVIOUS
  <2>1. /\ Nodelike(q.node) /\ d \in DOMAIN q.node /\ Len(d) <= 2 /\ Fresh(q.node, d, new)
        /\ (\A y \in new : ~y.opened) /\ Grafted(q.node, a.node, d, new, l, i)
    BY <1>0, <1>2, <1>3, <1>7, <1>8
  <2> QED BY ONLY <2>1, GraftOpened
<1>14. /\ IsFs(e) /\ e.node = a.node /\ e.dirs = a.dirs /\ e.used = a.used /\ e.info = a.info
       /\ e.hung = a.hung /\ e.mounted = a.mounted \cup {"CF"}
       /\ e.mount["CF"] = Card /\ e.opened["CF"] = {}
       /\ \A w \in Disks : w # "CF" => e.mount[w] = a.mount[w] /\ e.opened[w] = a.opened[w]
  <2> PICK v, n : v = "CF" /\ n = Card
    OBVIOUS
  <2>1. IsFs(a) /\ v \in Disks /\ n \in {NULL, <<>>, Card} /\ Mounted(a, v, n, e)
    BY <1>8, KeyFacts DEF Mounted
  <2>2. /\ IsFs(e) /\ e.node = a.node /\ e.dirs = a.dirs /\ e.used = a.used /\ e.info = a.info
        /\ e.hung = a.hung /\ e.mounted = a.mounted \cup {v}
        /\ e.mount[v] = n /\ e.opened[v] = {}
        /\ \A w \in Disks : w # v => e.mount[w] = a.mount[w] /\ e.opened[w] = a.opened[w]
    BY ONLY <2>1, MountedFields
  <2> QED BY <2>2
<1>15. Listed(e)
  <2>1. OpenOn(q.node, "CF") = {}
    BY <1>10 DEF OpenOn
  <2>2. e.opened["HD"] = q.opened["HD"]
    BY <1>8, <1>14, KeyFacts
  <2>3. \A v \in Disks : e.opened[v] = OpenOn(e.node, v)
    <3>1. \A v \in Disks : q.opened[v] = OpenOn(q.node, v)
      BY <1>0 DEF Listed
    <3>2. e.node = a.node /\ e.opened["CF"] = {}
      BY <1>14
    <3>3. OpenOn(e.node, "HD") = q.opened["HD"] /\ OpenOn(e.node, "CF") = {}
      BY <1>13, <2>1, <3>1, <3>2, KeyFacts
    <3> QED BY ONLY <2>2, <3>2, <3>3 DEF Disks
  <2>4. e.used = Cardinality(OpenFiles(e.node))
    BY <1>0, <1>8, <1>13, <1>14 DEF Listed
  <2> QED BY <2>3, <2>4 DEF Listed
<1>16. Volumes(e)
  <2>1. e.mount["HD"] = <<>> /\ "CF" \in e.info /\ "CF" \in e.mounted /\ "HD" \in e.info
        /\ "HD" \in e.mounted
    <3>1. a.mount = q.mount /\ a.info = q.info \cup {"CF"} /\ a.mounted = q.mounted
      BY <1>5, <1>8 DEF Beside
    <3>2. e.mount["HD"] = a.mount["HD"]
      BY <1>14, KeyFacts
    <3>3. q.mount["HD"] = <<>> /\ "HD" \in q.info /\ "HD" \in q.mounted
      BY <1>1 DEF Volumes
    <3>4. e.info = a.info /\ e.mounted = a.mounted \cup {"CF"}
      BY <1>14
    <3>5. e.mount["HD"] = <<>>
      BY ONLY <3>1, <3>2, <3>3
    <3> QED BY ONLY <3>1, <3>3, <3>4, <3>5
  <2> QED BY <1>9, <1>14, <2>1 DEF Volumes
<1>17. Good(e)
  <2>1. e.hung = FALSE
    BY <1>0, <1>5, <1>8, <1>14 DEF Beside
  <2> QED BY <1>8, <1>11, <1>12, <1>14, <1>15, <1>16, <2>1 DEF Good
<1>18. /\ Good(r) /\ Grows(e, r) /\ Opened(r.node) = Opened(e.node)
  <2> PICK n : n = Card
    OBVIOUS
  <2>1. Good(e) /\ n \in DOMAIN e.node /\ Len(n) <= 2 /\ e.node[n].kind = "dir"
    <3>1. Len(n) = 1
      BY DEF Card
    <3>2. n \in DOMAIN e.node
      BY <1>9, <1>14
    <3>3. e.node[n].kind = "dir"
      BY <1>17, <3>2 DEF Good, Tree, Placed
    <3> QED BY <1>17, <3>1, <3>2, <3>3
  <2>2. /\ Good(loadDir(e, n)) /\ Grows(e, loadDir(e, n))
        /\ Opened(loadDir(e, n).node) = Opened(e.node)
    BY ONLY <2>1, DirLoaded
  <2> QED BY <1>6, <2>2
<1>19. r.node[<<>>].loaded
  <2>1. <<>> \in DOMAIN e.node /\ e.node[<<>>].loaded
    BY <1>2, <1>8, <1>9, <1>14 DEF Grafted
  <2> QED BY <1>18, <2>1 DEF Grows
<1> QED BY <1>13, <1>14, <1>18, <1>19

(***************************************************************************)
(* Unmounting a volume.                                                    *)
(***************************************************************************)
\* P is N without the nodes K under node n.
Cleared(N, P, K, n) ==
  /\ P \in [DOMAIN P -> NodeType] /\ DOMAIN P = DOMAIN N \ K
  /\ \A k \in DOMAIN N : k # n /\ k \notin K => P[k] = N[k]
  /\ SameEntry(P[n], N[n]) /\ P[n].opened = N[n].opened /\ P[n].loaded = N[n].loaded
  /\ P[n].kids = {} /\ P[n].ref = N[n].ref - Cardinality(N[n].kids)

LEMMA ClearFields ==
  ASSUME NEW q, IsFs(q), Nodelike(q.node), Linked(q.node), NEW n \in DOMAIN q.node,
         NEW K, Below(q, n) = K, K \subseteq DOMAIN q.node, n \notin K,
         \A k \in K : Exact(q.node[k]) /\ ~q.node[k].opened
  PROVE  LET r == clearNodeTree(q, n)
         IN  /\ IsFs(r) /\ Beside(q, r) /\ r.dirs = q.dirs /\ r.used = q.used
             /\ r.opened = q.opened /\ Cleared(q.node, r.node, K, n)
<1> DEFINE N == q.node
           c == Cardinality(N[n].kids)
           y == [N[n] EXCEPT !.kids = {}, !.ref = @ - c]
           M == [N EXCEPT ![n] = y]
           P == [k \in DOMAIN N \ K |-> M[k]]
           r == [node |-> P, mount |-> q.mount, opened |-> q.opened, info |-> q.info,
                 mounted |-> q.mounted, used |-> q.used, dirs |-> q.dirs, hung |-> q.hung]
<1>0. N[n] \in NodeType /\ N[n].ref \in Int /\ c \in Int
  <2>1. c \in Nat
    BY KidsCount
  <2> QED BY <2>1, NodeFacts
<1>1. /\ y.kids = {} /\ y.ref = N[n].ref - c /\ y.opened = N[n].opened
      /\ y.loaded = N[n].loaded /\ SameEntry(y, N[n]) /\ y \in NodeType
  <2> PICK S, i : S = {} /\ i = N[n].ref - c
    OBVIOUS
  <2> HIDE DEF c
  <2>1. S \in SUBSET Keys /\ i \in Int
    BY <1>0
  <2>2. y = [N[n] EXCEPT !.kids = S, !.ref = i]
    BY <1>0 DEF NodeType
  <2> HIDE DEF y, N
  <2>3. y \in NodeType
    BY <1>0, <2>1, <2>2 DEF NodeType
  <2>4. SameEntry(y, N[n]) /\ y.opened = N[n].opened /\ y.loaded = N[n].loaded
        /\ y.kids = S /\ y.ref = i
    BY <1>0, <2>2 DEF NodeType, SameEntry
  <2> QED BY <2>3, <2>4
<1>2. clearNodeTree(q, n) = r
  <2> DEFINE a == [q EXCEPT !.node[n].kids = {}, !.node[n].ref = @ - c]
  <2>1. a = [q EXCEPT !.node = M]
    BY DEF IsFs
  <2>2. clearNodeTree(q, n) = freeNodes(a, K)
    <3>1. \A k \in K : N[k].ref = Cardinality(N[k].kids) + DotsOf(N[k])
      <4> SUFFICES ASSUME NEW k \in K
                   PROVE  N[k].ref = Cardinality(N[k].kids) + DotsOf(N[k])
        OBVIOUS
      <4>1. Exact(N[k]) /\ ~N[k].opened /\ Cardinality(N[k].kids) \in Nat
        BY KidsCount
      <4>2. User(N[k]) = 0 /\ DotsOf(N[k]) \in Nat
        BY <4>1 DEF User, DotsOf
      <4> QED BY <4>1, <4>2 DEF Exact
    <3> QED BY <3>1 DEF clearNodeTree
  <2> HIDE DEF a
  <2>3. a.node = M /\ a = [q EXCEPT !.node = M]
    BY <2>1 DEF IsFs
  <2>4. DOMAIN M = DOMAIN N
    OBVIOUS
  <2> HIDE DEF M
  <2>5. freeNodes(a, K) = [a EXCEPT !.node = P]
    BY <2>3, <2>4 DEF freeNodes, Live
  <2> HIDE DEF P
  <2> QED BY <2>2, <2>3, <2>5, ZenonT(40) DEF IsFs
<1> HIDE DEF y
<1>3. DOMAIN M = DOMAIN N /\ M[n] = y /\ \A k \in DOMAIN N : k # n => M[k] = N[k]
  OBVIOUS
<1> HIDE DEF M
<1>4. DOMAIN P = DOMAIN N \ K /\ \A k \in DOMAIN P : P[k] = M[k]
  OBVIOUS
<1>5. P \in [DOMAIN P -> NodeType]
  <2>1. \A k \in DOMAIN N : N[k] \in NodeType
    BY NodeFacts
  <2>2. ASSUME NEW k \in DOMAIN P PROVE P[k] \in NodeType
    BY <1>1, <1>3, <1>4, <2>1
  <2> QED BY <2>2
<1>6. IsFs(r) /\ Beside(q, r) /\ r.dirs = q.dirs /\ r.used = q.used /\ r.opened = q.opened
      /\ r.node = P
  <2> HIDE DEF P
  <2> QED BY DEF IsFs, Beside
<1> HIDE DEF r, P
<1>7. \A k \in DOMAIN N : k # n /\ k \notin K => P[k] = N[k]
  BY <1>3, <1>4
<1>8. P[n] = y
  BY <1>3, <1>4
<1>9. Cleared(N, P, K, n)
  BY <1>1, <1>4, <1>5, <1>7, <1>8 DEF Cleared
<1> QED BY <1>2, <1>6, <1>9

\* P is N without the nodes of the card.
CardOff(N, P) ==
  /\ P \in [DOMAIN P -> NodeType] /\ DOMAIN P = {k \in DOMAIN N : N[k].disk = "HD"}
  /\ \A k \in DOMAIN P : k # <<>> => P[k] = N[k]
  /\ SameEntry(P[<<>>], N[<<>>]) /\ P[<<>>].opened = N[<<>>].opened
  /\ P[<<>>].loaded = N[<<>>].loaded /\ P[<<>>].kids = N[<<>>].kids \ {Card}
  /\ P[<<>>].ref = N[<<>>].ref - 1

LEMMA CardFacts ==
  ASSUME NEW N, Nodelike(N), Linked(N), Placed(N), Card \in DOMAIN N
  PROVE  /\ N[Card].disk = "CF" /\ N[Card].parent = <<>> /\ N[Card].loc = ROOT
         /\ N[<<>>].disk = "HD" /\ <<>> \in DOMAIN N /\ Card \in N[<<>>].kids /\ Card # <<>>
         /\ N[Card].kind = "dir"
<1>1. /\ N[Card].disk = "CF" /\ N[<<>>].disk = "HD" /\ <<>> \in DOMAIN N /\ Card # <<>>
      /\ N[Card].loc = ROOT /\ N[Card].kind = "dir"
  BY KeyFacts DEF Placed, Linked
<1>2. N[Card].parent = <<>> /\ Card \in N[<<>>].kids
  <2> PICK a, z : a = CF_0 /\ z = <<>>
    OBVIOUS
  <2>1. Append(z, a) = Card /\ a \in AllNames
    BY KeyFacts
  <2>2. /\ Append(z, a) \in DOMAIN N /\ z \in DOMAIN N /\ Nodelike(N) /\ Linked(N)
        /\ a \in AllNames
    BY <1>1, <2>1
  <2>3. N[Append(z, a)].parent = z /\ Append(z, a) \in N[z].kids
    BY ONLY <2>2, KidOf
  <2> QED BY <2>1, <2>3
<1> QED BY <1>1, <1>2

LEMMA CardOffTree ==
  ASSUME NEW N, NEW P, NEW D, Tree(N, D), Card \in DOMAIN N, CardOff(N, P)
  PROVE  Tree(P, D) /\ Card \notin DOMAIN P
<1>0. /\ Nodelike(N) /\ Linked(N) /\ Placed(N) /\ DiskOK(D) /\ Mirrored(N, D) /\ Ghosts(N, D)
      /\ OneDir(N, D)
  BY DEF Tree
<1>1. /\ N[Card].disk = "CF" /\ N[Card].parent = <<>> /\ N[<<>>].disk = "HD"
      /\ <<>> \in DOMAIN N /\ Card # <<>>
  BY <1>0, CardFacts
<1>2. /\ DOMAIN P = {k \in DOMAIN N : N[k].disk = "HD"} /\ <<>> \in DOMAIN P /\ Card \notin DOMAIN P
      /\ DOMAIN P \subseteq DOMAIN N
  BY <1>1 DEF CardOff
<1>3. ASSUME NEW n \in DOMAIN P
      PROVE  /\ SameEntry(P[n], N[n]) /\ P[n].loaded = N[n].loaded
             /\ P[n].kids = N[n].kids \ {Card}
  <2>1. CASE n = <<>>
    BY <2>1 DEF CardOff
  <2>2. CASE n # <<>>
    <3>1. Card \notin N[n].kids
      BY <1>0, <1>1, <1>2, <2>2 DEF Linked
    <3>2. P[n] = N[n]
      BY <2>2 DEF CardOff
    <3> QED BY <3>1, <3>2 DEF SameEntry
  <2> QED BY <2>1, <2>2
<1>4. ASSUME NEW n \in DOMAIN P, n # <<>> PROVE N[n].parent \in DOMAIN P
  <2>1. N[N[n].parent].disk = N[n].disk /\ N[n].parent \in DOMAIN N
    BY <1>0, <1>2, <1>4, ParentDisk
  <2> QED BY <1>2, <2>1
<1>5. ASSUME NEW n \in DOMAIN P
      PROVE  /\ GoneIn(P, D, n) <=> GoneIn(N, D, n)
             /\ Holds(P, D, n) = Holds(N, D, n) /\ EntryOf(P[n]) = EntryOf(N[n])
  <2>1. N[n].loc # ROOT => n # <<>>
    BY <1>0, <1>2 DEF Placed
  <2>2. N[n].loc # ROOT => P[N[n].parent].loc = N[N[n].parent].loc
    BY <1>3, <1>4, <2>1 DEF SameEntry
  <2>3. GoneIn(P, D, n) <=> GoneIn(N, D, n)
    BY <1>3, <2>2, GoneSame
  <2> QED BY <1>3, <2>3, EntryEqual DEF SameEntry, Holds
<1>6. Nodelike(P)
  <2>1. IsFiniteSet(DOMAIN P) /\ DOMAIN P \subseteq Keys
    BY <1>0, <1>2, FS_Subset DEF Nodelike
  <2> QED BY <2>1 DEF CardOff, Nodelike
<1>7. ASSUME NEW n \in DOMAIN P, NEW k \in P[n].kids
      PROVE  k \in DOMAIN P /\ k # <<>> /\ P[k].parent = n
  <2>1. k \in DOMAIN N /\ k # <<>> /\ N[k].parent = n /\ k # Card
    BY <1>0, <1>2, <1>3 DEF Linked
  <2>2. N[k].disk = "HD"
    BY <1>0, <1>2, <2>1, ParentDisk
  <2>3. k \in DOMAIN P
    BY <1>2, <2>1, <2>2
  <2> QED BY <1>3, <2>1, <2>3 DEF SameEntry
<1>8. Linked(P)
  <2>1. P[<<>>].parent = NULL
    BY <1>0, <1>2, <1>3 DEF Linked, SameEntry
  <2>2. ASSUME NEW n \in DOMAIN P, n # <<>>
        PROVE  /\ P[n].parent \in DOMAIN P /\ n = Append(P[n].parent, P[n].name)
               /\ P[P[n].parent].kind = "dir" /\ P[P[n].parent].loaded
               /\ n \in P[P[n].parent].kids
    <3> PICK d : d = N[n].parent
      OBVIOUS
    <3>1. d \in DOMAIN P /\ P[n].parent = d /\ P[n].name = N[n].name
      BY <1>3, <1>4, <2>2 DEF SameEntry
    <3>2. n = Append(d, N[n].name) /\ N[d].kind = "dir" /\ N[d].loaded /\ n \in N[d].kids
      BY <1>0, <1>2, <2>2 DEF Linked
    <3>3. P[d].kind = "dir" /\ P[d].loaded /\ n \in P[d].kids
      BY <1>2, <1>3, <3>1, <3>2 DEF SameEntry
    <3> QED BY <3>1, <3>2, <3>3
  <2> QED BY <1>2, <1>7, <2>1, <2>2 DEF Linked
<1>9. Placed(P)
  BY <1>0, <1>2, <1>3 DEF Placed, SameEntry
<1>10. Mirrored(P, D)
  <2> SUFFICES ASSUME NEW n \in DOMAIN P, P[n].loaded, ~GoneIn(P, D, n)
               PROVE  /\ \A k \in P[n].kids : P[k].kind = "file" => EntryOf(P[k]) \in Holds(P, D, n)
                      /\ \A e \in Holds(P, D, n) : Child(n, e) \in DOMAIN P
                                                   /\ EntryOf(P[Child(n, e)]) = e
    BY DEF Mirrored
  <2>1. N[n].loaded /\ ~GoneIn(N, D, n) /\ n \in DOMAIN N /\ n \in Keys /\ N[n].disk = "HD"
    BY <1>0, <1>2, <1>3, <1>5, NodeFacts
  <2>2. /\ \A k \in N[n].kids : N[k].kind = "file" => EntryOf(N[k]) \in Holds(N, D, n)
        /\ \A e \in Holds(N, D, n) : Child(n, e) \in DOMAIN N /\ EntryOf(N[Child(n, e)]) = e
    BY <1>0, <2>1 DEF Mirrored
  <2>3. ASSUME NEW k \in P[n].kids, P[k].kind = "file" PROVE EntryOf(P[k]) \in Holds(P, D, n)
    <3>1. k \in DOMAIN P /\ k \in N[n].kids
      BY <1>3, <1>7
    <3> QED BY <1>3, <1>5, <2>2, <2>3, <3>1 DEF SameEntry
  <2>4. ASSUME NEW e \in Holds(P, D, n)
        PROVE  Child(n, e) \in DOMAIN P /\ EntryOf(P[Child(n, e)]) = e
    <3> PICK k : k = Child(n, e)
      OBVIOUS
    <3>1. k \in DOMAIN N /\ EntryOf(N[k]) = e /\ k = Append(n, e.name)
      BY <1>5, <2>2 DEF Child
    <3>2. e.name \in Names
      <4>1. N[n].disk \in Disks /\ N[n].loc \in Dirs
        BY <1>0, <2>1, NodeFacts
      <4>2. e \in Entries
        BY <1>0, <1>5, <4>1 DEF Holds, DiskOK
      <4> QED BY <4>2 DEF Entries
    <3>3. e.name \in AllNames /\ e.name # CF_0
      BY <3>2, KeyFacts
    <3>4. k # Card
      <4>1. Card = Append(<<>>, CF_0) /\ <<>> \in Keys /\ CF_0 \in AllNames
        BY KeyFacts
      <4>2. Append(n, e.name) # Append(<<>>, CF_0)
        BY ONLY <2>1, <3>3, <4>1, SameChild
      <4> QED BY <3>1, <4>1, <4>2
    <3>5. N[k].parent = n /\ k # <<>>
      <4>1. Append(n, e.name) \in DOMAIN N
        BY <3>1
      <4>2. N[Append(n, e.name)].parent = n /\ Append(n, e.name) \in N[n].kids
        BY <1>0, <2>1, <3>3, <4>1, KidOf
      <4> QED BY <1>0, <2>1, <3>1, <4>2 DEF Linked
    <3>6. N[k].disk = "HD"
      BY <1>0, <2>1, <3>1, <3>4, <3>5, ParentDisk
    <3>7. k \in DOMAIN P
      BY <1>2, <3>1, <3>6
    <3> QED BY <1>5, <3>1, <3>7
  <2> QED BY <2>3, <2>4
<1>11. Ghosts(P, D)
  BY <1>0, <1>2, <1>3, <1>5 DEF Ghosts
<1>12. OneDir(P, D)
  BY <1>0, <1>2, <1>3, <1>5 DEF OneDir, SameEntry
<1> QED BY <1>0, <1>2, <1>6, <1>8, <1>9, <1>10, <1>11, <1>12 DEF Tree

LEMMA CardOffCounted ==
  ASSUME NEW N, NEW P, NEW D, Tree(N, D), Card \in DOMAIN N, CardOff(N, P), Counted(N),
         OpenOn(N, "CF") = {}
  PROVE  /\ Counted(P) /\ Opened(P) = Opened(N) /\ OpenFiles(P) = OpenFiles(N)
         /\ \A v \in Disks : OpenOn(P, v) = OpenOn(N, v)
<1>0. /\ Nodelike(N) /\ Linked(N) /\ Placed(N) /\ <<>> \in DOMAIN N /\ Card \in N[<<>>].kids
      /\ N[<<>>].disk = "HD"
  BY CardFacts DEF Tree
<1>1. DOMAIN P = {k \in DOMAIN N : N[k].disk = "HD"} /\ <<>> \in DOMAIN P
  BY <1>0 DEF CardOff
<1>2. ASSUME NEW n \in DOMAIN P PROVE Exact(P[n])
  <2>1. CASE n # <<>>
    BY <1>1, <2>1 DEF CardOff, Counted
  <2>2. CASE n = <<>>
    <3> PICK x, y : x = N[<<>>] /\ y = P[<<>>]
      OBVIOUS
    <3>1. /\ y.loaded = x.loaded /\ y.loc = x.loc /\ y.opened = x.opened
          /\ y.kids = x.kids \ {Card} /\ y.ref = x.ref - 1
      BY DEF CardOff, SameEntry
    <3>2. x.ref = Cardinality(x.kids) + DotsOf(x) + User(x)
      BY <1>0 DEF Counted, Exact
    <3>3. DotsOf(y) = DotsOf(x) /\ User(y) = User(x)
      BY <3>1 DEF DotsOf, User
    <3>4. Cardinality(y.kids) = Cardinality(x.kids) - 1 /\ Cardinality(x.kids) \in Nat
      <4>1. IsFiniteSet(x.kids) /\ Cardinality(x.kids) \in Nat
        BY <1>0, KidsCount
      <4>2. Cardinality(x.kids \ {Card}) = Cardinality(x.kids) - 1
        BY <1>0, <4>1, FS_RemoveElement
      <4> QED BY <3>1, <4>1, <4>2
    <3>5. DotsOf(x) \in Int /\ User(x) \in Int
      BY DEF DotsOf, User
    <3>6. y.ref = Cardinality(y.kids) + DotsOf(y) + User(y)
      BY <3>1, <3>2, <3>3, <3>4, <3>5
    <3> QED BY <2>2, <3>6 DEF Exact
  <2> QED BY <2>1, <2>2
<1>3. ASSUME NEW k \in DOMAIN P
      PROVE  P[k].opened = N[k].opened /\ P[k].kind = N[k].kind /\ P[k].disk = N[k].disk
  <2>1. CASE k = <<>>
    BY <2>1 DEF CardOff, SameEntry
  <2>2. CASE k # <<>>
    BY <2>2 DEF CardOff
  <2> QED BY <2>1, <2>2
<1>4. \A k \in DOMAIN N : N[k].opened => k \in DOMAIN P
  <2>1. \A k \in DOMAIN N : N[k].disk \in {"HD", "CF"}
    BY <1>0, NodeFacts DEF Disks
  <2> QED BY <1>1, <2>1 DEF OpenOn
<1>5. Opened(P) = Opened(N) /\ OpenFiles(P) = OpenFiles(N)
  BY <1>1, <1>3, <1>4 DEF Opened, OpenFiles
<1>6. ASSUME NEW v \in Disks PROVE OpenOn(P, v) = OpenOn(N, v)
  BY <1>1, <1>3, <1>4 DEF OpenOn
<1> QED BY <1>2, <1>5, <1>6 DEF Counted

\* v is g without volume d.
Unmounted(g, d, v) ==
  v = [[g EXCEPT !.mount[d] = NULL, !.opened[d] = {}]
         EXCEPT !.info = @ \ {d}, !.mounted = @ \ {d}]

LEMMA UnmountedFields ==
  ASSUME NEW g, IsFs(g), NEW d \in Disks, NEW v, Unmounted(g, d, v)
  PROVE  /\ IsFs(v) /\ v.node = g.node /\ v.dirs = g.dirs /\ v.used = g.used /\ v.hung = g.hung
         /\ v.info = g.info \ {d} /\ v.mounted = g.mounted \ {d}
         /\ v.mount[d] = NULL /\ v.opened[d] = {}
         /\ \A w \in Disks : w # d => v.mount[w] = g.mount[w] /\ v.opened[w] = g.opened[w]
<1> DEFINE m == [g.mount EXCEPT ![d] = NULL]
           o == [g.opened EXCEPT ![d] = {}]
           i == g.info \ {d}
           j == g.mounted \ {d}
           r == [node |-> g.node, mount |-> m, opened |-> o, info |-> i, mounted |-> j,
                 used |-> g.used, dirs |-> g.dirs, hung |-> g.hung]
<1>1. v = r
  <2>1. [g EXCEPT !.mount[d] = NULL] = [g EXCEPT !.mount = m]
    BY DEF IsFs
  <2> DEFINE b == [g EXCEPT !.mount[d] = NULL]
             c == [b EXCEPT !.opened[d] = {}]
  <2>2. b = [node |-> g.node, mount |-> m, opened |-> g.opened, info |-> g.info,
             mounted |-> g.mounted, used |-> g.used, dirs |-> g.dirs, hung |-> g.hung]
    <3> HIDE DEF m
    <3> QED BY <2>1 DEF IsFs
  <2> HIDE DEF b
  <2>3. c = [b EXCEPT !.opened = o]
    BY <2>2
  <2>4. v = [c EXCEPT !.info = @ \ {d}, !.mounted = @ \ {d}]
    BY DEF Unmounted, b
  <2> HIDE DEF c, o, m
  <2> QED BY <2>2, <2>3, <2>4
<1>2. m \in [Disks -> {NULL, <<>>, Card}] /\ m[d] = NULL
      /\ \A w \in Disks : w # d => m[w] = g.mount[w]
  BY DEF IsFs
<1>3. o \in [Disks -> SUBSET Keys] /\ o[d] = {} /\ \A w \in Disks : w # d => o[w] = g.opened[w]
  BY DEF IsFs
<1>4. i \in SUBSET Disks /\ j \in SUBSET Disks
  BY DEF IsFs
<1> HIDE DEF m, o, i, j
<1>5. /\ v.node = g.node /\ v.dirs = g.dirs /\ v.used = g.used /\ v.info = i
      /\ v.hung = g.hung /\ v.mounted = j /\ v.mount = m /\ v.opened = o
      /\ v = [node |-> v.node, mount |-> v.mount, opened |-> v.opened, info |-> v.info,
              mounted |-> v.mounted, used |-> v.used, dirs |-> v.dirs, hung |-> v.hung]
  BY ONLY <1>1
<1>6. IsFs(v)
  <2>1. g.used \in Int
    BY DEF IsFs
  <2> QED BY ONLY <1>2, <1>3, <1>4, <1>5, <2>1 DEF IsFs
<1> QED BY <1>2, <1>3, <1>5, <1>6 DEF i, j

\* The steps of disk_rm on a volume n that is mounted: v is what they leave.
Removing(q, d, n, a, g, v) ==
  /\ d \in q.info /\ d \in q.mounted /\ q.mount[d] = n /\ n # NULL
  /\ a = clearNodeTree(q, n) /\ ~a.hung /\ g = rmNodeFromTree(a, n) /\ ~g.hung
  /\ Unmounted(g, d, v)

LEMMA RemoveUnfolds ==
  ASSUME NEW q, NEW d \in Disks, NEW n, NEW a, NEW g, IsFs(g), NEW v, Removing(q, d, n, a, g, v)
  PROVE  disk_rm(q, d) = v
<1> DEFINE u == [g EXCEPT !.mount[d] = NULL, !.opened[d] = {}]
           Rest1(z) == IF z.hung THEN z ELSE [z EXCEPT !.info = @ \ {d}, !.mounted = @ \ {d}]
<1>0. /\ d \in q.info /\ d \in q.mounted /\ q.mount[d] = n /\ n # NULL
      /\ a = clearNodeTree(q, n) /\ ~a.hung /\ g = rmNodeFromTree(a, n) /\ ~g.hung
      /\ v = [u EXCEPT !.info = @ \ {d}, !.mounted = @ \ {d}]
  BY DEF Removing, Unmounted
<1>1. ~u.hung
  BY <1>0 DEF IsFs
<1>2. umount(q, d) = u
  BY <1>0 DEF umount
<1>3. disk_rm(q, d) = Rest1(umount(q, d))
  BY <1>0 DEF disk_rm
<1> HIDE DEF u
<1>4. disk_rm(q, d) = Rest1(u)
  BY <1>2, <1>3
<1> QED BY <1>0, <1>1, <1>4

LEMMA CardRemoved ==
  ASSUME NEW q, Good(q), "CF" \in q.info, OpenOn(q.node, "CF") = {}
  PROVE  LET v == disk_rm(q, "CF")
         IN  /\ Good(v) /\ Opened(v.node) = Opened(q.node) /\ "CF" \notin v.info
             /\ v.dirs = q.dirs /\ v.opened["CF"] = {}
             /\ q.node[<<>>].loaded => v.node[<<>>].loaded
<1> PICK N, D, n, r, K, a, g, w :
      /\ N = q.node /\ D = q.dirs /\ n = Card /\ r = <<>> /\ K = Below(q, n)
      /\ a = clearNodeTree(q, n) /\ g = rmNodeFromTree(a, n) /\ w = "CF"
  OBVIOUS
<1> PICK v : Unmounted(g, w, v)
  BY DEF Unmounted
<1>0. /\ IsFs(q) /\ q.hung = FALSE /\ Tree(N, D) /\ Counted(N) /\ Listed(q)
      /\ Volumes(q) /\ Nodelike(N) /\ Linked(N) /\ Placed(N)
  BY DEF Good, Tree
<1>1. /\ q.mount["HD"] = r /\ "HD" \in q.info /\ "HD" \in q.mounted /\ w \in q.mounted
      /\ q.mount[w] = n /\ n \in DOMAIN N
  BY <1>0 DEF Volumes
<1>2. /\ N[n].disk = w /\ N[n].parent = r /\ N[n].loc = ROOT /\ N[r].disk = "HD"
      /\ r \in DOMAIN N /\ n # r /\ r # NULL /\ n # NULL /\ w \in Disks
  BY <1>0, <1>1, CardFacts, KeyFacts
<1>3. K = {k \in DOMAIN N : N[k].disk = w} \ {n}
  BY <1>0, <1>1, BelowCard
<1>4. K \subseteq DOMAIN N /\ n \notin K /\ r \notin K
  BY <1>2, <1>3
<1>5. \A k \in DOMAIN N : N[k].disk = w => ~N[k].opened
  BY DEF OpenOn
<1>6. \A k \in K : Exact(N[k]) /\ ~N[k].opened
  BY <1>0, <1>3, <1>5 DEF Counted
<1>7. /\ IsFs(a) /\ Beside(q, a) /\ a.dirs = D /\ a.used = q.used /\ a.opened = q.opened
      /\ Cleared(N, a.node, K, n)
  <2>1. /\ IsFs(q) /\ Nodelike(q.node) /\ Linked(q.node) /\ n \in DOMAIN q.node
        /\ Below(q, n) = K /\ K \subseteq DOMAIN q.node /\ n \notin K
        /\ \A k \in K : Exact(q.node[k]) /\ ~q.node[k].opened
    BY <1>0, <1>1, <1>4, <1>6
  <2>2. LET b == clearNodeTree(q, n)
        IN  /\ IsFs(b) /\ Beside(q, b) /\ b.dirs = q.dirs /\ b.used = q.used
            /\ b.opened = q.opened /\ Cleared(q.node, b.node, K, n)
    BY ONLY <2>1, ClearFields
  <2> QED BY <2>2
<1>8. /\ DOMAIN a.node = DOMAIN N \ K /\ a.node \in [DOMAIN a.node -> NodeType]
      /\ (\A k \in DOMAIN N : k # n /\ k \notin K => a.node[k] = N[k])
      /\ SameEntry(a.node[n], N[n]) /\ a.node[n].ref = N[n].ref - Cardinality(N[n].kids)
  BY <1>7 DEF Cleared
<1>9. a.node[n].ref = 0
  <2>1. Exact(N[n]) /\ Cardinality(N[n].kids) \in Nat
    BY <1>0, <1>1, KidsCount DEF Counted
  <2>2. DotsOf(N[n]) = 0 /\ User(N[n]) = 0
    BY <1>1, <1>2, <1>5 DEF DotsOf, User
  <2> QED BY <1>8, <2>1, <2>2 DEF Exact
<1>10. Nodelike(a.node)
  <2>1. DOMAIN a.node \subseteq DOMAIN N /\ IsFiniteSet(DOMAIN N) /\ DOMAIN N \subseteq Keys
    BY <1>0, <1>8 DEF Nodelike
  <2>2. IsFiniteSet(DOMAIN a.node)
    BY <2>1, FS_Subset
  <2> QED BY <1>8, <2>1, <2>2 DEF Nodelike
<1>11. /\ IsFs(g) /\ Beside(a, g) /\ g.dirs = a.dirs /\ g.used = a.used /\ g.opened = a.opened
       /\ Pruned(a.node, g.node, r, n)
  <2>1. /\ IsFs(a) /\ Nodelike(a.node) /\ n \in DOMAIN a.node /\ r = a.node[n].parent
        /\ r \in DOMAIN a.node /\ r # NULL /\ r # n /\ a.node[n].ref = 0
    BY <1>1, <1>2, <1>4, <1>7, <1>8, <1>9, <1>10 DEF SameEntry
  <2>2. LET b == rmNodeFromTree(a, n)
        IN  /\ IsFs(b) /\ Beside(a, b) /\ b.dirs = a.dirs /\ b.used = a.used /\ b.opened = a.opened
            /\ Pruned(a.node, b.node, r, n)
    BY ONLY <2>1, PruneFields
  <2> QED BY <2>2
<1>12. CardOff(N, g.node)
  <2>1. DOMAIN g.node = {k \in DOMAIN N : N[k].disk = "HD"}
    <3>1. \A k \in DOMAIN N : N[k].disk \in {"HD", w}
      BY <1>0, NodeFacts DEF Disks
    <3>2. DOMAIN g.node = (DOMAIN N \ K) \ {n}
      BY <1>8, <1>11 DEF Pruned
    <3> QED BY <1>2, <1>3, <3>1, <3>2
  <2>2. a.node[r] = N[r]
    BY <1>2, <1>4, <1>8
  <2>3. ASSUME NEW k \in DOMAIN g.node, k # r PROVE g.node[k] = N[k]
    <3>1. k \in DOMAIN a.node /\ k # n
      BY <1>11 DEF Pruned
    <3> QED BY <1>8, <1>11, <2>3, <3>1 DEF Pruned
  <2>4. g.node \in [DOMAIN g.node -> NodeType]
    BY <1>11 DEF Pruned
  <2>5. /\ SameEntry(g.node[r], N[r]) /\ g.node[r].opened = N[r].opened
        /\ g.node[r].loaded = N[r].loaded /\ g.node[r].kids = N[r].kids \ {n}
        /\ g.node[r].ref = N[r].ref - 1
    BY <1>11, <2>2 DEF Pruned
  <2> QED BY <2>1, <2>3, <2>4, <2>5 DEF CardOff
<1>13. /\ IsFs(v) /\ v.node = g.node /\ v.dirs = g.dirs /\ v.used = g.used /\ v.hung = g.hung
       /\ v.info = g.info \ {w} /\ v.mounted = g.mounted \ {w}
       /\ v.mount[w] = NULL /\ v.opened[w] = {}
       /\ \A z \in Disks : z # w => v.mount[z] = g.mount[z] /\ v.opened[z] = g.opened[z]
  <2>1. IsFs(g) /\ w \in Disks /\ Unmounted(g, w, v)
    BY <1>2, <1>11
  <2> QED BY ONLY <2>1, UnmountedFields
<1>14. disk_rm(q, w) = v
  <2>1. ~a.hung /\ ~g.hung
    BY <1>0, <1>7, <1>11 DEF Beside
  <2>2. IsFs(g) /\ w \in Disks /\ Removing(q, w, n, a, g, v)
    BY <1>1, <1>2, <1>11, <2>1 DEF Removing
  <2> QED BY ONLY <2>2, RemoveUnfolds
<1>15. Tree(v.node, v.dirs) /\ Card \notin DOMAIN v.node
  <2>1. Tree(N, D) /\ Card \in DOMAIN N /\ CardOff(N, v.node) /\ v.dirs = D
    BY <1>0, <1>1, <1>7, <1>11, <1>12, <1>13
  <2> QED BY ONLY <2>1, CardOffTree
<1>16. /\ Counted(v.node) /\ Opened(v.node) = Opened(N) /\ OpenFiles(v.node) = OpenFiles(N)
       /\ \A z \in Disks : OpenOn(v.node, z) = OpenOn(N, z)
  <2>1. /\ Tree(N, D) /\ Card \in DOMAIN N /\ CardOff(N, v.node) /\ Counted(N)
        /\ OpenOn(N, "CF") = {}
    BY <1>0, <1>1, <1>12, <1>13
  <2> QED BY ONLY <2>1, CardOffCounted
<1>17. Listed(v)
  <2>1. v.used = Cardinality(OpenFiles(v.node))
    BY <1>0, <1>7, <1>11, <1>13, <1>16 DEF Listed
  <2>2. ASSUME NEW z \in Disks PROVE v.opened[z] = OpenOn(v.node, z)
    <3>1. CASE z = w
      BY <1>13, <1>16, <3>1
    <3>2. CASE z # w
      BY <1>0, <1>7, <1>11, <1>13, <1>16, <3>2 DEF Listed
    <3> QED BY <3>1, <3>2
  <2> QED BY <2>1, <2>2 DEF Listed
<1>18. g.mount = q.mount /\ g.info = q.info /\ g.mounted = q.mounted /\ g.hung = FALSE
  BY <1>0, <1>7, <1>11 DEF Beside
<1>19. Volumes(v)
  <2>1. v.mount["HD"] = <<>>
    BY <1>1, <1>13, <1>18, KeyFacts
  <2> QED BY <1>1, <1>13, <1>15, <1>18, <2>1 DEF Volumes
<1>20. Good(v)
  BY <1>13, <1>15, <1>16, <1>17, <1>18, <1>19 DEF Good
<1>21. q.node[<<>>].loaded => v.node[<<>>].loaded
  BY <1>12, <1>13 DEF CardOff
<1>22. v.dirs = q.dirs /\ "CF" \notin v.info /\ v.opened["CF"] = {}
  BY <1>7, <1>11, <1>13
<1> QED BY <1>14, <1>16, <1>20, <1>21, <1>22

LEMMA RootRemoved ==
  ASSUME NEW q, Good(q), "CF" \notin q.info, Opened(q.node) = {}
  PROVE  Bare(disk_rm(q, "HD")) /\ disk_rm(q, "HD").dirs = q.dirs
<1> PICK N, D, n, K, a, P, g, w :
      /\ N = q.node /\ D = q.dirs /\ n = <<>> /\ K = Below(q, n)
      /\ a = clearNodeTree(q, n) /\ P = [k \in DOMAIN a.node \ {n} |-> a.node[k]]
      /\ g = rmNodeFromTree(a, n) /\ w = "HD"
  OBVIOUS
<1> PICK v : Unmounted(g, w, v)
  BY DEF Unmounted
<1>0. /\ IsFs(q) /\ q.hung = FALSE /\ Tree(N, D) /\ Counted(N) /\ Listed(q)
      /\ Volumes(q) /\ Nodelike(N) /\ Linked(N) /\ Placed(N) /\ DiskOK(D)
  BY DEF Good, Tree
<1>1. /\ q.mount[w] = n /\ w \in q.info /\ w \in q.mounted /\ "CF" \notin q.mounted
      /\ q.mount["CF"] = NULL /\ n \in DOMAIN N /\ N[n].parent = NULL /\ N[n].loc = ROOT
      /\ w \in Disks /\ n # NULL
  BY <1>0, KeyFacts DEF Volumes, Linked, Placed
<1>2. K = DOMAIN N \ {n}
  BY <1>0, BelowRoot
<1>3. \A k \in DOMAIN N : ~N[k].opened
  BY DEF Opened
<1>4. \A k \in K : Exact(N[k]) /\ ~N[k].opened
  BY <1>0, <1>2, <1>3 DEF Counted
<1>5. /\ IsFs(a) /\ Beside(q, a) /\ a.dirs = D /\ a.used = q.used /\ a.opened = q.opened
      /\ Cleared(N, a.node, K, n)
  <2>1. /\ IsFs(q) /\ Nodelike(q.node) /\ Linked(q.node) /\ n \in DOMAIN q.node
        /\ Below(q, n) = K /\ K \subseteq DOMAIN q.node /\ n \notin K
        /\ \A k \in K : Exact(q.node[k]) /\ ~q.node[k].opened
    BY <1>0, <1>1, <1>2, <1>4
  <2>2. LET b == clearNodeTree(q, n)
        IN  /\ IsFs(b) /\ Beside(q, b) /\ b.dirs = q.dirs /\ b.used = q.used
            /\ b.opened = q.opened /\ Cleared(q.node, b.node, K, n)
    BY ONLY <2>1, ClearFields
  <2> QED BY <2>2
<1>6. /\ DOMAIN a.node = {n} /\ SameEntry(a.node[n], N[n])
      /\ a.node[n].ref = N[n].ref - Cardinality(N[n].kids)
  BY <1>1, <1>2, <1>5 DEF Cleared
<1>7. a.node[n].ref = 0 /\ a.node[n].parent = NULL
  <2>1. Exact(N[n]) /\ Cardinality(N[n].kids) \in Nat
    BY <1>0, <1>1, KidsCount DEF Counted
  <2>2. DotsOf(N[n]) = 0 /\ User(N[n]) = 0
    BY <1>1, <1>3 DEF DotsOf, User
  <2>3. a.node[n].ref = 0
    BY <1>6, <2>1, <2>2 DEF Exact
  <2> QED BY <1>1, <1>6, <2>3 DEF SameEntry
<1>8. g = [a EXCEPT !.node = P]
  <2>1. g = freeNodes(a, {n})
    BY <1>7 DEF rmNodeFromTree
  <2>2. freeNodes(a, {n}) = [a EXCEPT !.node = P]
    BY DEF freeNodes, Live
  <2> QED BY <2>1, <2>2
<1>9. IsFs(g) /\ Beside(a, g) /\ g.dirs = a.dirs /\ g.used = a.used /\ g.opened = a.opened
      /\ g.node = P
  BY <1>5, <1>8 DEF IsFs, Beside
<1>10. DOMAIN P = {}
  BY <1>6
<1>11. /\ IsFs(v) /\ v.node = g.node /\ v.dirs = g.dirs /\ v.used = g.used /\ v.hung = g.hung
       /\ v.info = g.info \ {w} /\ v.mounted = g.mounted \ {w}
       /\ v.mount[w] = NULL /\ v.opened[w] = {}
       /\ \A z \in Disks : z # w => v.mount[z] = g.mount[z] /\ v.opened[z] = g.opened[z]
  <2>1. IsFs(g) /\ w \in Disks /\ Unmounted(g, w, v)
    BY <1>1, <1>9
  <2> QED BY ONLY <2>1, UnmountedFields
<1>12. g.mount = q.mount /\ g.info = q.info /\ g.mounted = q.mounted /\ g.hung = FALSE
  BY <1>0, <1>5, <1>9 DEF Beside
<1>13. disk_rm(q, w) = v
  <2>1. ~a.hung /\ ~g.hung
    BY <1>0, <1>5, <1>12 DEF Beside
  <2>2. IsFs(g) /\ w \in Disks /\ Removing(q, w, n, a, g, v)
    BY <1>1, <1>9, <2>1 DEF Removing
  <2> QED BY ONLY <2>2, RemoveUnfolds
<1>14. v.info = {} /\ v.mounted = {}
  <2>1. q.info \subseteq {"HD", "CF"} /\ q.mounted \subseteq {"HD", "CF"}
    BY <1>0 DEF IsFs, Disks
  <2> QED BY <1>1, <1>11, <1>12, <2>1
<1>15. v.used = 0
  <2>1. OpenFiles(N) = {}
    BY <1>3 DEF OpenFiles
  <2> QED BY <1>0, <1>5, <1>9, <1>11, <2>1, FS_EmptySet DEF Listed
<1>16. \A z \in Disks : v.mount[z] = NULL /\ v.opened[z] = {}
  <2>1. v.mount["CF"] = NULL
    BY <1>1, <1>11, <1>12, KeyFacts
  <2>2. v.opened["CF"] = {}
    <3>1. OpenOn(N, "CF") = {}
      BY <1>3 DEF OpenOn
    <3>2. v.opened["CF"] = q.opened["CF"]
      BY <1>5, <1>9, <1>11, KeyFacts
    <3> QED BY <1>0, <3>1, <3>2, KeyFacts DEF Listed
  <2> QED BY <1>11, <2>1, <2>2 DEF Disks
<1>17. v.dirs = q.dirs
  BY <1>5, <1>9, <1>11
<1>18. Bare(v)
  BY <1>0, <1>9, <1>10, <1>11, <1>12, <1>14, <1>15, <1>16, <1>17 DEF Bare
<1> QED BY <1>13, <1>17, <1>18

(***************************************************************************)
(* The invariant: everything is in its place, or nothing is mounted because*)
(* the PC has the disk; a card that is mounted is the one noted, and what  *)
(* is open on a card needs it in the slot.                                 *)
(***************************************************************************)
VInv ==
  /\ slot \in Modules /\ connected_module \in Modules
  /\ remote \in BOOLEAN /\ usbMode \in BOOLEAN
  /\ usbMode => Bare(fs) /\ held = {}
  /\ ~usbMode => Good(fs) /\ fs.node[<<>>].loaded /\ held = Opened(fs.node)
  /\ "CF" \in fs.info => connected_module = "CF"
  /\ slot # "NONE" => connected_module \in {slot, "NONE"}
  /\ slot # "CF" => fs.opened["CF"] = {}

\* What is open on the card, by the paths.
LEMMA OnTheCard ==
  ASSUME NEW q, Good(q)
  PROVE  /\ q.opened["CF"] = {n \in Opened(q.node) : Volume(n) = "CF"}
         /\ q.opened["CF"] = OpenOn(q.node, "CF")
<1>1. Placed(q.node) /\ q.opened["CF"] = OpenOn(q.node, "CF")
  BY KeyFacts DEF Good, Tree, Listed
<1>2. \A n \in DOMAIN q.node : q.node[n].disk = Volume(n)
  BY <1>1 DEF Placed
<1> QED BY <1>1, <1>2 DEF OpenOn, Opened

\* A call that leaves O open.
LEMMA CallKeeps ==
  ASSUME VInv, Working, NEW O, Called(fs, fs', O), held' = O, Rest,
         \A n \in O : n \in held \/ (Volume(n) = "CF" => slot = "CF")
  PROVE  VInv'
<1>1. /\ Good(fs) /\ fs.node[<<>>].loaded /\ held = Opened(fs.node) /\ ~usbMode
      /\ slot # "CF" => fs.opened["CF"] = {}
  BY DEF VInv, Working
<1>2. /\ Good(fs') /\ fs'.node[<<>>].loaded /\ held' = Opened(fs'.node) /\ fs'.info = fs.info
  BY <1>1 DEF Called, Beside
<1>3. /\ slot' = slot /\ remote' = remote /\ connected_module' = connected_module
      /\ usbMode' = usbMode
  BY DEF Rest
<1>4. slot # "CF" => fs'.opened["CF"] = {}
  <2>1. /\ fs.opened["CF"] = {n \in Opened(fs.node) : Volume(n) = "CF"}
        /\ fs'.opened["CF"] = {n \in Opened(fs'.node) : Volume(n) = "CF"}
    BY <1>1, <1>2, OnTheCard
  <2> QED BY <1>1, <1>2, <2>1
<1> QED BY <1>1, <1>2, <1>3, <1>4 DEF VInv

\* A call that opens nothing for the callers.
LEMMA CallSame ==
  ASSUME VInv, Working, Called(fs, fs', Opened(fs.node)), UNCHANGED held, Rest
  PROVE  VInv'
<1>1. held = Opened(fs.node)
  BY DEF VInv, Working
<1> PICK O : O = held
  OBVIOUS
<1>2. /\ VInv /\ Working /\ Called(fs, fs', O) /\ held' = O /\ Rest
      /\ \A n \in O : n \in held \/ (Volume(n) = "CF" => slot = "CF")
  BY <1>1
<1> QED BY ONLY <1>2, CallKeeps

\* A call that may open path.
LEMMA CallOpens ==
  ASSUME VInv, NEW path \in Paths, Callable(path), NEW o, Created(fs, path, o),
         fs' = o.q, held' = held \cup ({o.fd} \ {NULL}), Rest
  PROVE  VInv'
<1>1. Working /\ held = Opened(fs.node) /\ (Volume(path) = "CF" => slot = "CF")
  BY DEF VInv, Working, Callable, CardIn, OnCard, Volume
<1>2. CASE o.fd = NULL /\ Called(fs, o.q, Opened(fs.node))
  <2>1. held' = held
    BY <1>2
  <2>2. VInv /\ Working /\ Called(fs, fs', Opened(fs.node)) /\ UNCHANGED held /\ Rest
    BY <1>1, <1>2, <2>1
  <2> QED BY ONLY <2>2, CallSame
<1>3. CASE /\ o.fd = path /\ path # NULL /\ path \notin Opened(fs.node)
           /\ Called(fs, o.q, Opened(fs.node) \cup {path})
  <2> PICK O : O = held \cup {path}
    OBVIOUS
  <2>1. /\ VInv /\ Working /\ Called(fs, fs', O) /\ held' = O /\ Rest
        /\ \A n \in O : n \in held \/ (Volume(n) = "CF" => slot = "CF")
    BY <1>1, <1>3
  <2> QED BY ONLY <2>1, CallKeeps
<1> QED BY <1>2, <1>3 DEF Created

\* What a call of the callers may count on.
LEMMA CallFacts ==
  ASSUME VInv, NEW path \in Paths, Callable(path)
  PROVE  /\ Good(fs) /\ Working /\ Kept(fs, path)
         /\ Ordinary(path) => path # <<>> /\ Last(path) # CF_0 /\ Kept(fs, Front(path))
<1>1. Good(fs) /\ Working /\ Plain(path)
  BY DEF VInv, Callable, Working
<1>2. Kept(fs, path) /\ (path # <<>> => Kept(fs, Front(path)))
  BY <1>1, PlainKept
<1> QED BY <1>1, <1>2 DEF Ordinary, Last

LEMMA OpenKeeps ==
  ASSUME VInv, NEW path \in Paths, NEW create, open(path, create)
  PROVE  VInv'
<1> PICK o : o = openFile(fs, path, create)
  OBVIOUS
<1>1. /\ Ordinary(path) /\ Callable(path)
      /\ fs' = o.q /\ held' = held \cup ({o.fd} \ {NULL}) /\ Rest
  BY DEF open
<1>2. /\ Good(fs) /\ path # <<>> /\ Last(path) # CF_0 /\ Kept(fs, Front(path))
  BY <1>1, CallFacts
<1>3. Created(fs, path, o)
  BY <1>2, CreateFile
<1>4. /\ VInv /\ path \in Paths /\ Callable(path) /\ Created(fs, path, o)
      /\ fs' = o.q /\ held' = held \cup ({o.fd} \ {NULL}) /\ Rest
  BY <1>1, <1>3
<1> QED BY ONLY <1>4, CallOpens

LEMMA OpendirKeeps ==
  ASSUME VInv, NEW path \in Paths, opendir(path)
  PROVE  VInv'
<1> PICK o, kind : o = openDir(fs, path) /\ kind = "dir"
  OBVIOUS
<1>1. /\ Callable(path) /\ fs' = o.q /\ held' = held \cup ({o.fd} \ {NULL}) /\ Rest
  BY DEF opendir
<1>2. Good(fs)
  BY <1>1, CallFacts
<1>3. Tried(fs, path, kind, o)
  BY <1>2, TriedDir
<1>4. Created(fs, path, o)
  BY ONLY <1>2, <1>3, TriedCreated
<1>5. /\ VInv /\ path \in Paths /\ Callable(path) /\ Created(fs, path, o)
      /\ fs' = o.q /\ held' = held \cup ({o.fd} \ {NULL}) /\ Rest
  BY <1>1, <1>4
<1> QED BY ONLY <1>5, CallOpens

LEMMA CloseKeeps ==
  ASSUME VInv, NEW n \in held, close(n)
  PROVE  VInv'
<1> PICK r, O : r = closeNode(fs, n) /\ O = held \ {n}
  OBVIOUS
<1>1. Working /\ Good(fs) /\ held = Opened(fs.node) /\ fs' = r /\ held' = O /\ Rest
  BY DEF close, VInv, Working
<1>2. n \in DOMAIN fs.node /\ fs.node[n].opened
  BY <1>1 DEF Opened
<1>3. NowClosed(fs, n, r)
  BY <1>1, <1>2, GoodClose
<1>4. Called(fs, r, O)
  BY <1>1, <1>3, GrowsCalled DEF NowClosed
<1>5. /\ VInv /\ Working /\ Called(fs, fs', O) /\ held' = O /\ Rest
      /\ \A m \in O : m \in held \/ (Volume(m) = "CF" => slot = "CF")
  BY <1>1, <1>4
<1> QED BY ONLY <1>5, CallKeeps

LEMMA RmfileKeeps ==
  ASSUME VInv, NEW path \in Paths, rmfile(path)
  PROVE  VInv'
<1>1. Callable(path) /\ fs' = removeFile(fs, path) /\ UNCHANGED held /\ Rest
  BY DEF rmfile
<1>2. Good(fs) /\ Working
  BY <1>1, CallFacts
<1>3. Called(fs, fs', Opened(fs.node))
  BY <1>1, <1>2, RemoveFile
<1> QED BY ONLY VInv, <1>1, <1>2, <1>3, CallSame

LEMMA MkdirKeeps ==
  ASSUME VInv, NEW path \in Paths, mkdir(path)
  PROVE  VInv'
<1>1. /\ Ordinary(path) /\ Callable(path) /\ fs' = makeDir(fs, path) /\ UNCHANGED held /\ Rest
      /\ FreeDirs(fs, IF OnCard(path) THEN "CF" ELSE "HD") # {}
  BY DEF mkdir
<1>2. Good(fs) /\ Working /\ path # <<>> /\ Last(path) # CF_0 /\ Kept(fs, Front(path))
  BY <1>1, CallFacts
<1>3. Called(fs, fs', Opened(fs.node))
  BY <1>1, <1>2, MakeDir
<1> QED BY ONLY VInv, <1>1, <1>2, <1>3, CallSame

LEMMA RmdirKeeps ==
  ASSUME VInv, NEW path \in Paths, rmdir(path)
  PROVE  VInv'
<1>1. Ordinary(path) /\ Callable(path) /\ fs' = removeDir(fs, path) /\ UNCHANGED held /\ Rest
  BY DEF rmdir
<1>2. Good(fs) /\ Working /\ path # <<>> /\ Last(path) # CF_0 /\ Kept(fs, path)
  BY <1>1, CallFacts
<1>3. Called(fs, fs', Opened(fs.node))
  BY <1>1, <1>2, RemoveDir
<1> QED BY ONLY VInv, <1>1, <1>2, <1>3, CallSame

LEMMA MvfileKeeps ==
  ASSUME VInv, NEW path \in Paths, NEW newpath \in Paths, mvfile(path, newpath)
  PROVE  VInv'
<1>1. /\ Ordinary(path) /\ Ordinary(newpath) /\ MayMove(path, newpath)
      /\ Callable(path) /\ Callable(newpath)
      /\ fs' = moveFile(fs, path, newpath) /\ UNCHANGED held /\ Rest
  BY DEF mvfile
<1>2. /\ Good(fs) /\ Working /\ path # <<>> /\ newpath # <<>> /\ Last(newpath) # CF_0
      /\ Kept(fs, Front(newpath))
  BY <1>1, CallFacts
<1>3. /\ OnCard(path) = OnCard(newpath)
      /\ lookup(fs, newpath).left = 0
           => ~lookup(fs, newpath).q.node[lookup(fs, newpath).n].opened
  BY <1>1 DEF MayMove
<1>4. Called(fs, fs', Opened(fs.node))
  BY <1>1, <1>2, <1>3, MoveFile
<1> QED BY ONLY VInv, <1>1, <1>2, <1>4, CallSame

\* What is on a volume that is not mounted changes.
Rewritten(q, v, layout, r) ==
  /\ IsFs(q) /\ DiskOK(q.dirs) /\ v \in Disks /\ VolumeOK(layout)
  /\ r = [q EXCEPT !.dirs[v] = layout]

Rewrote(q, v, layout, r) ==
  /\ IsFs(r) /\ r.dirs = [q.dirs EXCEPT ![v] = layout] /\ DiskOK(r.dirs)
  /\ Beside(q, r) /\ r.node = q.node /\ r.opened = q.opened /\ r.used = q.used

LEMMA DirsChange ==
  ASSUME NEW q, NEW v, NEW layout, NEW r, Rewritten(q, v, layout, r)
  PROVE  Rewrote(q, v, layout, r)
<1>0. /\ IsFs(q) /\ DiskOK(q.dirs) /\ v \in Disks /\ VolumeOK(layout)
      /\ r = [q EXCEPT !.dirs[v] = layout]
  BY DEF Rewritten
<1> PICK E : E = [q.dirs EXCEPT ![v] = layout]
  OBVIOUS
<1>1. r = [q EXCEPT !.dirs = E]
  BY <1>0 DEF IsFs
<1>2. /\ IsFs(r) /\ r.dirs = E
      /\ Beside(q, r) /\ r.node = q.node /\ r.opened = q.opened /\ r.used = q.used
  BY <1>0, <1>1 DEF IsFs, Beside
<1>3. DiskOK(E)
  <2>1. q.dirs \in [Disks -> [Dirs -> SUBSET Entries]] /\ \A w \in Disks : VolumeOK(q.dirs[w])
    BY <1>0, DiskOf
  <2>2. layout \in [Dirs -> SUBSET Entries]
    BY <1>0 DEF VolumeOK
  <2>3. E \in [Disks -> [Dirs -> SUBSET Entries]] /\ \A w \in Disks : VolumeOK(E[w])
    BY <1>0, <2>1, <2>2
  <2> QED BY <2>3, DiskOf
<1> QED BY <1>2, <1>3 DEF Rewrote

LEMMA SwapKeeps ==
  ASSUME VInv, NEW module \in Modules, NEW layout \in Layouts, Swap(module, layout)
  PROVE  VInv'
<1>1. /\ Good(fs) /\ fs.node[<<>>].loaded /\ held = Opened(fs.node) /\ ~usbMode
      /\ fs.opened["CF"] = {} /\ module # slot /\ "NONE" \in {module, slot}
      /\ slot = "NONE" => connected_module = "NONE"
      /\ "CF" \in fs.info => connected_module = "CF"
      /\ slot' = module /\ remote' = remote /\ connected_module' = connected_module
      /\ usbMode' = usbMode /\ held' = held
      /\ fs' = IF module = "CF" THEN [fs EXCEPT !.dirs["CF"] = layout] ELSE fs
      /\ slot \in Modules /\ connected_module \in Modules /\ remote \in BOOLEAN
  BY DEF VInv, Swap, Working, CardRests
<1>2. CASE module # "CF"
  <2>1. fs' = fs
    BY <1>1, <1>2
  <2>2. slot' # "NONE" => connected_module' \in {slot', "NONE"}
    BY <1>1
  <2> QED BY <1>1, <2>1, <2>2 DEF VInv
<1>3. CASE module = "CF"
  <2> PICK w, r : w = "CF" /\ r = [fs EXCEPT !.dirs[w] = layout]
    OBVIOUS
  <2>1. fs' = r /\ slot = "NONE" /\ connected_module = "NONE" /\ "CF" \notin fs.info
    BY <1>1, <1>3
  <2>2. /\ IsFs(fs) /\ fs.hung = FALSE /\ Tree(fs.node, fs.dirs) /\ Counted(fs.node)
        /\ Listed(fs) /\ Volumes(fs) /\ DiskOK(fs.dirs)
    BY <1>1 DEF Good, Tree
  <2>3. VolumeOK(layout) /\ w \in Disks
    BY LayoutOK, KeyFacts
  <2>4. /\ IsFs(r) /\ r.dirs = [fs.dirs EXCEPT ![w] = layout] /\ Beside(fs, r)
        /\ r.node = fs.node /\ r.opened = fs.opened /\ r.used = fs.used
    <3>1. Rewritten(fs, w, layout, r)
      BY <2>2, <2>3 DEF Rewritten
    <3>2. Rewrote(fs, w, layout, r)
      BY ONLY <3>1, DirsChange
    <3> QED BY ONLY <3>2 DEF Rewrote
  <2>5. Tree(r.node, r.dirs)
    <3>1. Card \notin DOMAIN fs.node
      BY <2>1, <2>2 DEF Volumes
    <3> QED BY <2>2, <2>3, <2>4, <3>1, OtherDisk
  <2>6. Good(r)
    <3>1. Counted(r.node) /\ r.hung = FALSE
      BY <2>2, <2>4 DEF Beside
    <3>2. Listed(r) /\ Volumes(r)
      BY <2>2, <2>4 DEF Listed, Volumes, Beside
    <3> QED BY <2>4, <2>5, <3>1, <3>2 DEF Good
  <2>7. "CF" \notin r.info
    BY <2>1, <2>4 DEF Beside
  <2> QED BY <1>1, <1>3, <2>1, <2>4, <2>6, <2>7 DEF VInv
<1> QED BY <1>2, <1>3

LEMMA RemoteKeeps ==
  ASSUME VInv, Remote
  PROVE  VInv'
BY DEF VInv, Remote

\* The card is unmounted, or was not there.
LEMMA CardAway ==
  ASSUME NEW q, Good(q), q.opened["CF"] = {}, NEW v, v = disk_rm(q, "CF")
  PROVE  /\ Good(v) /\ Opened(v.node) = Opened(q.node) /\ "CF" \notin v.info
         /\ v.opened["CF"] = {} /\ (q.node[<<>>].loaded => v.node[<<>>].loaded)
<1>1. CASE "CF" \in q.info
  <2>1. OpenOn(q.node, "CF") = {}
    BY OnTheCard
  <2> QED BY <1>1, <2>1, CardRemoved
<1>2. CASE "CF" \notin q.info
  <2>1. v = q
    BY <1>2 DEF disk_rm
  <2> QED BY <1>2, <2>1
<1> QED BY <1>1, <1>2

LEMMA CheckKeeps ==
  ASSUME VInv, extModule_Chk
  PROVE  VInv'
<1>1. /\ Good(fs) /\ fs.node[<<>>].loaded /\ held = Opened(fs.node) /\ ~usbMode
      /\ slot # "CF" => fs.opened["CF"] = {}
      /\ "CF" \in fs.info => connected_module = "CF"
      /\ slot # "NONE" => connected_module \in {slot, "NONE"}
      /\ slot # connected_module /\ slot' = slot /\ remote' = remote
      /\ usbMode' = usbMode /\ held' = held
      /\ slot \in Modules /\ connected_module \in Modules /\ remote \in BOOLEAN
  BY DEF VInv, extModule_Chk, Working
<1>2. /\ connected_module' = IF remote THEN "NONE" ELSE slot
      /\ fs' = IF ~remote /\ slot = "CF" THEN disk_add(fs, "CF", TRUE)
               ELSE IF (remote \/ slot = "NONE") /\ connected_module = "CF"
               THEN disk_rm(fs, "CF") ELSE fs
  BY DEF extModule_Chk, process_ext_mod_chg
<1>3. /\ connected_module' \in Modules /\ usbMode' = FALSE
      /\ slot' # "NONE" => connected_module' \in {slot', "NONE"}
  BY <1>1, <1>2 DEF Modules, VInv
<1>4. CASE ~remote /\ slot = "CF"
  <2>1. fs' = disk_add(fs, "CF", TRUE) /\ "CF" \notin fs.info /\ connected_module' = "CF"
    BY <1>1, <1>2, <1>4
  <2>2. Good(fs') /\ fs'.node[<<>>].loaded /\ Opened(fs'.node) = Opened(fs.node)
    BY <1>1, <2>1, CardMounted
  <2> QED BY <1>1, <1>3, <1>4, <2>1, <2>2 DEF VInv
<1>5. CASE ~(~remote /\ slot = "CF") /\ (remote \/ slot = "NONE") /\ connected_module = "CF"
  <2> PICK v : v = disk_rm(fs, "CF")
    OBVIOUS
  <2>1. fs' = v /\ slot # "CF" /\ fs.opened["CF"] = {}
    BY <1>1, <1>2, <1>5
  <2>2. /\ Good(v) /\ Opened(v.node) = Opened(fs.node) /\ "CF" \notin v.info
        /\ v.opened["CF"] = {} /\ v.node[<<>>].loaded
    BY <1>1, <2>1, CardAway
  <2> QED BY <1>1, <1>3, <2>1, <2>2 DEF VInv
<1>6. CASE ~(~remote /\ slot = "CF") /\ ~((remote \/ slot = "NONE") /\ connected_module = "CF")
  <2>1. fs' = fs /\ connected_module # "CF"
    BY <1>1, <1>2, <1>6 DEF Modules
  <2> QED BY <1>1, <1>3, <2>1 DEF VInv
<1> QED BY <1>4, <1>5, <1>6

LEMMA UsbOnKeeps ==
  ASSUME VInv, UsbOn
  PROVE  VInv'
<1>1. /\ Good(fs) /\ Opened(fs.node) = {} /\ held = {} /\ usbMode' = TRUE /\ held' = {}
      /\ slot' = slot /\ remote' = remote /\ connected_module' = connected_module
      /\ "CF" \in fs.info => connected_module = "CF"
      /\ slot # "NONE" => connected_module \in {slot, "NONE"}
      /\ slot \in Modules /\ connected_module \in Modules /\ remote \in BOOLEAN
      /\ fs' = disk_rmAll(fs)
  BY DEF VInv, UsbOn, Working
<1> PICK a : a = IF connected_module = "CF" THEN disk_rm(fs, "CF") ELSE fs
  OBVIOUS
<1>2. Good(a) /\ Opened(a.node) = {} /\ "CF" \notin a.info
  <2>1. CASE connected_module = "CF"
    <3>1. fs.opened["CF"] = {}
      BY <1>1, OnTheCard
    <3> QED BY <1>1, <2>1, <3>1, CardAway
  <2>2. CASE connected_module # "CF"
    BY <1>1, <2>2
  <2> QED BY <2>1, <2>2
<1>3. fs' = disk_rm(a, "HD")
  <2>1. ~a.hung
    BY <1>2 DEF Good
  <2> QED BY <1>1, <2>1 DEF disk_rmAll
<1>4. Bare(fs')
  BY <1>2, <1>3, RootRemoved
<1>5. fs'.info = {} /\ fs'.opened["CF"] = {}
  BY <1>4, KeyFacts DEF Bare
<1> QED BY <1>1, <1>4, <1>5 DEF VInv

\* All is mounted again, on what the PC left.
LEMMA AllAdded ==
  ASSUME NEW q, Bare(q), NEW b, b = disk_add(q, "HD", TRUE), NEW there \in BOOLEAN,
         NEW r, r = disk_add(b, "CF", there)
  PROVE  /\ Good(b) /\ b.node[<<>>].loaded /\ Opened(b.node) = {} /\ "CF" \notin b.info
         /\ Good(r) /\ r.node[<<>>].loaded /\ Opened(r.node) = {}
<1>1. /\ Good(b) /\ b.node[<<>>].loaded /\ Opened(b.node) = {} /\ "CF" \notin b.info
  BY RootMounted
<1>2. CASE there
  <2>1. r = disk_add(b, "CF", TRUE)
    BY <1>2
  <2> QED BY <1>1, <2>1, CardMounted
<1>3. CASE ~there
  <2>1. r = b
    BY <1>1, <1>3 DEF disk_add
  <2> QED BY <1>1, <2>1
<1> QED BY <1>1, <1>2, <1>3

LEMMA UsbOffKeeps ==
  ASSUME VInv, NEW layout \in Layouts, UsbOff(layout)
  PROVE  VInv'
<1>1. /\ Bare(fs) /\ held' = {} /\ usbMode' = FALSE
      /\ slot' = slot /\ remote' = remote /\ connected_module' = connected_module
      /\ slot # "NONE" => connected_module \in {slot, "NONE"}
      /\ slot \in Modules /\ connected_module \in Modules /\ remote \in BOOLEAN
      /\ fs' = disk_addAll([fs EXCEPT !.dirs["HD"] = layout, !.mount = [d \in Disks |-> NULL]])
  BY DEF VInv, UsbOff
<1> PICK w, p, q, b, there, r :
      /\ w = "HD" /\ p = [fs EXCEPT !.dirs[w] = layout]
      /\ q = [p EXCEPT !.mount = [d \in Disks |-> NULL]] /\ b = disk_add(q, "HD", TRUE)
      /\ there = (slot = "CF") /\ r = disk_add(b, "CF", there)
  OBVIOUS
<1>2. Bare(q)
  <2>1. Rewritten(fs, w, layout, p)
    BY <1>1, LayoutOK, KeyFacts DEF Bare, Rewritten
  <2>2. /\ IsFs(p) /\ p.dirs = [fs.dirs EXCEPT ![w] = layout] /\ DiskOK(p.dirs) /\ Beside(fs, p) /\ p.node = fs.node
        /\ p.opened = fs.opened /\ p.used = fs.used
    <3>1. Rewrote(fs, w, layout, p)
      BY ONLY <2>1, DirsChange
    <3> QED BY ONLY <3>1 DEF Rewrote
  <2>3. [d \in Disks |-> NULL] \in [Disks -> {NULL, <<>>, Card}]
    OBVIOUS
  <2>4. /\ IsFs(q) /\ q.dirs = p.dirs /\ q.node = p.node /\ q.opened = p.opened
        /\ q.used = p.used /\ q.info = p.info /\ q.mounted = p.mounted /\ q.hung = p.hung
        /\ q.mount = [d \in Disks |-> NULL]
    <3> PICK M : M = [d \in Disks |-> NULL]
      OBVIOUS
    <3>1. q = [p EXCEPT !.mount = M] /\ M \in [Disks -> {NULL, <<>>, Card}]
      BY <2>3
    <3>2. IsFs(p)
      BY <2>2
    <3>3. /\ IsFs(q) /\ q.dirs = p.dirs /\ q.node = p.node /\ q.opened = p.opened
          /\ q.used = p.used /\ q.info = p.info /\ q.mounted = p.mounted /\ q.hung = p.hung
          /\ q.mount = M
      BY ONLY <3>1, <3>2 DEF IsFs
    <3> QED BY <3>3
  <2> QED BY <1>1, <2>2, <2>4 DEF Bare, Beside
<1>3. fs' = IF connected_module = "CF" THEN r ELSE b
  <2>1. q = [fs EXCEPT !.dirs["HD"] = layout, !.mount = [d \in Disks |-> NULL]]
    OBVIOUS
  <2>2. fs' = disk_addAll(q)
    BY <1>1, <2>1
  <2> QED BY <2>2 DEF disk_addAll
<1>4. /\ Good(b) /\ b.node[<<>>].loaded /\ Opened(b.node) = {} /\ "CF" \notin b.info
      /\ Good(r) /\ r.node[<<>>].loaded /\ Opened(r.node) = {}
  <2>1. there \in BOOLEAN
    OBVIOUS
  <2>2. Bare(q) /\ b = disk_add(q, "HD", TRUE) /\ r = disk_add(b, "CF", there)
    BY <1>2
  <2> QED BY ONLY <2>1, <2>2, AllAdded
<1>5. /\ Good(fs') /\ fs'.node[<<>>].loaded /\ Opened(fs'.node) = {}
      /\ "CF" \in fs'.info => connected_module = "CF"
  BY <1>3, <1>4
<1>6. fs'.opened["CF"] = {}
  BY <1>5, OnTheCard
<1> QED BY <1>1, <1>5, <1>6 DEF VInv

LEMMA InitVInv ==
  ASSUME Init
  PROVE  VInv
<1> PICK layout \in Layouts : fs = disk_add(Blank(layout), "HD", TRUE)
  BY DEF Init
<1> PICK q : q = Blank(layout)
  OBVIOUS
<1>1. /\ q.node = <<>> /\ q.mount = [d \in Disks |-> NULL] /\ q.opened = [d \in Disks |-> {}]
      /\ q.info = {} /\ q.mounted = {} /\ q.used = 0 /\ q.dirs = [d \in Disks |-> layout]
      /\ q.hung = FALSE
      /\ q = [node |-> q.node, mount |-> q.mount, opened |-> q.opened, info |-> q.info,
              mounted |-> q.mounted, used |-> q.used, dirs |-> q.dirs, hung |-> q.hung]
  BY DEF Blank
<1>2. DiskOK(q.dirs)
  <2>1. VolumeOK(layout) /\ layout \in [Dirs -> SUBSET Entries]
    BY LayoutOK DEF VolumeOK
  <2>2. q.dirs \in [Disks -> [Dirs -> SUBSET Entries]] /\ \A v \in Disks : VolumeOK(q.dirs[v])
    BY <1>1, <2>1
  <2> QED BY <2>2, DiskOf
<1>3. IsFs(q)
  <2>1. q.mount \in [Disks -> {NULL, <<>>, Card}] /\ q.opened \in [Disks -> SUBSET Keys]
    BY <1>1
  <2>2. q.info \in SUBSET Disks /\ q.mounted \in SUBSET Disks /\ q.used \in Int
    BY <1>1
  <2> QED BY <1>1, <2>1, <2>2 DEF IsFs
<1>4. DOMAIN q.node = {}
  BY <1>1
<1>5. Bare(q)
  BY <1>1, <1>2, <1>3, <1>4 DEF Bare
<1>6. /\ Good(fs) /\ fs.node[<<>>].loaded /\ Opened(fs.node) = {} /\ "CF" \notin fs.info
  BY <1>5, RootMounted
<1>7. fs.opened["CF"] = {}
  BY <1>6, OnTheCard
<1> QED BY <1>6, <1>7 DEF Init, VInv, Modules

LEMMA NextVInv ==
  ASSUME VInv, [Next]_vars
  PROVE  VInv'
<1>1. ASSUME NEW path \in Paths, opendir(path) PROVE VInv'
  BY <1>1, OpendirKeeps
<1>2. ASSUME NEW path \in Paths, rmfile(path) PROVE VInv'
  BY <1>2, RmfileKeeps
<1>3. ASSUME NEW path \in Paths, mkdir(path) PROVE VInv'
  BY <1>3, MkdirKeeps
<1>4. ASSUME NEW path \in Paths, rmdir(path) PROVE VInv'
  BY <1>4, RmdirKeeps
<1>5. ASSUME NEW path \in Paths, NEW create \in BOOLEAN, open(path, create) PROVE VInv'
  BY <1>5, OpenKeeps
<1>6. ASSUME NEW path \in Paths, NEW newpath \in Paths, mvfile(path, newpath) PROVE VInv'
  BY <1>6, MvfileKeeps
<1>7. ASSUME NEW n \in held, close(n) PROVE VInv'
  BY <1>7, CloseKeeps
<1>8. ASSUME NEW module \in Modules, NEW layout \in Layouts, Swap(module, layout) PROVE VInv'
  BY <1>8, SwapKeeps
<1>9. CASE Remote
  BY <1>9, RemoteKeeps
<1>10. CASE extModule_Chk
  BY <1>10, CheckKeeps
<1>11. CASE UsbOn
  BY <1>11, UsbOnKeeps
<1>12. ASSUME NEW layout \in Layouts, UsbOff(layout) PROVE VInv'
  BY <1>12, UsbOffKeeps
<1>13. CASE UNCHANGED vars
  BY <1>13 DEF VInv, vars
<1> QED BY <1>1, <1>2, <1>3, <1>4, <1>5, <1>6, <1>7, <1>8, <1>9, <1>10, <1>11, <1>12, <1>13
        DEF Next

(***************************************************************************)
(* What follows from it.                                                   *)
(***************************************************************************)
LEMMA ExactNow ==
  ASSUME VInv
  PROVE  RefExact
<1>1. CASE usbMode
  BY <1>1 DEF VInv, Bare, RefExact, Nodes, Live
<1>2. CASE ~usbMode
  <2> PICK N : N = fs.node
    OBVIOUS
  <2>1. Nodelike(N) /\ Linked(N) /\ Counted(N)
    BY <1>2 DEF VInv, Good, Tree
  <2>2. ASSUME NEW n \in DOMAIN N
        PROVE  /\ N[n].ref = Cardinality(N[n].kids) + DotsOf(N[n]) + (IF N[n].opened THEN 1 ELSE 0)
               /\ N[n].kids = {k \in DOMAIN N : N[k].parent = n}
    <3>1. N[n].ref = Cardinality(N[n].kids) + DotsOf(N[n]) + (IF N[n].opened THEN 1 ELSE 0)
      BY <2>1 DEF Counted, Exact, User
    <3>2. ASSUME NEW k \in DOMAIN N, N[k].parent = n PROVE k \in N[n].kids
      <4>1. k # <<>>
        BY <2>1, <3>2, NodeFacts, KeyFacts DEF Linked
      <4> QED BY <2>1, <3>2, <4>1 DEF Linked
    <3>3. \A k \in N[n].kids : k \in DOMAIN N /\ N[k].parent = n
      BY <2>1 DEF Linked
    <3> QED BY <3>1, <3>2, <3>3
  <2> QED BY <2>2 DEF RefExact, Nodes, Live
<1> QED BY <1>1, <1>2

\* The children that are shown are in one to one with the entries.
LEMMA ShownEntries ==
  ASSUME NEW N, NEW D, Tree(N, D), NEW n \in DOMAIN N, N[n].loaded, ~GoneIn(N, D, n),
         NEW K, K = {k \in N[n].kids : k # Card /\ ~GoneIn(N, D, k)}
  PROVE  /\ {EntryOf(N[k]) : k \in K} = Holds(N, D, n)
         /\ Cardinality(K) = Cardinality(Holds(N, D, n))
<1> PICK H : H = Holds(N, D, n)
  OBVIOUS
<1>0. /\ Nodelike(N) /\ Linked(N) /\ Placed(N) /\ DiskOK(D) /\ Mirrored(N, D) /\ Ghosts(N, D)
      /\ n \in Keys
  BY NodeFacts DEF Tree
<1>1. /\ \A k \in N[n].kids : N[k].kind = "file" => EntryOf(N[k]) \in H
      /\ \A e \in H : Child(n, e) \in DOMAIN N /\ EntryOf(N[Child(n, e)]) = e
  BY <1>0 DEF Mirrored
<1>2. ASSUME NEW k \in K PROVE EntryOf(N[k]) \in H /\ Child(n, EntryOf(N[k])) = k
  <2>1. k \in N[n].kids /\ k # Card /\ ~GoneIn(N, D, k)
    OBVIOUS
  <2>2. k \in DOMAIN N /\ k # <<>> /\ N[k].parent = n
    BY <1>0, <2>1 DEF Linked
  <2>3. N[k].disk = N[n].disk
    BY <1>0, <2>1, <2>2, ParentDisk
  <2>4. k = Append(n, N[k].name)
    BY <1>0, <2>2 DEF Linked
  <2>5. CASE N[k].kind = "file"
    BY <1>1, <2>1, <2>4, <2>5, EntryParts DEF Child
  <2>6. CASE N[k].kind = "dir"
    <3>1. N[k].loc # ROOT
      BY <1>0, <2>1, <2>2, <2>6 DEF Placed
    <3>2. EntryOf(N[k]) \in H
      BY <2>1, <2>2, <2>3, <2>6, <3>1 DEF GoneIn, Holds
    <3> QED BY <2>4, <3>2, EntryParts DEF Child
  <2>7. N[k].kind \in {"file", "dir"}
    BY <1>0, <2>2, NodeFacts DEF Kinds
  <2> QED BY <2>5, <2>6, <2>7
<1>3. N[n].disk \in Disks /\ N[n].loc \in Dirs
  BY <1>0, NodeFacts
<1>4. H \subseteq Entries /\ IsFiniteSet(H)
  BY <1>0, <1>3 DEF Holds, DiskOK
<1>5. ASSUME NEW e \in H
      PROVE  Child(n, e) \in K /\ EntryOf(N[Child(n, e)]) = e
  <2> PICK k, a : k = Child(n, e) /\ a = e.name
    OBVIOUS
  <2>1. k \in DOMAIN N /\ EntryOf(N[k]) = e /\ k = Append(n, a)
    BY <1>1 DEF Child
  <2>2. a \in Names /\ a \in AllNames /\ a # CF_0
    <3>1. a \in Names
      BY <1>4 DEF Entries
    <3> QED BY <3>1, KeyFacts
  <2>3. k # Card
    <3>1. Card = Append(<<>>, CF_0) /\ <<>> \in Keys /\ CF_0 \in AllNames
      BY KeyFacts
    <3>2. Append(n, a) # Append(<<>>, CF_0)
      BY ONLY <1>0, <2>2, <3>1, SameChild
    <3> QED BY <2>1, <3>1, <3>2
  <2>4. N[k].parent = n /\ k \in N[n].kids
    <3>1. /\ Nodelike(N) /\ Linked(N) /\ n \in DOMAIN N /\ a \in AllNames
          /\ Append(n, a) \in DOMAIN N
      BY <1>0, <2>1, <2>2
    <3>2. N[Append(n, a)].parent = n /\ Append(n, a) \in N[n].kids
      BY ONLY <3>1, KidOf
    <3> QED BY <2>1, <3>2
  <2>5. ~GoneIn(N, D, k)
    <3>1. k # <<>>
      BY <1>0, <2>4 DEF Linked
    <3>2. N[k].disk = N[n].disk
      BY <1>0, <2>1, <2>3, <2>4, <3>1, ParentDisk
    <3> QED BY <2>1, <2>4, <3>2 DEF GoneIn, Holds
  <2> QED BY <2>1, <2>3, <2>4, <2>5
<1>6. {EntryOf(N[k]) : k \in K} = H
  BY <1>2, <1>5
<1>7. Cardinality(K) = Cardinality(H)
  <2> DEFINE f == [k \in K |-> EntryOf(N[k])]
  <2>1. f \in Bijection(K, H)
    <3>1. f \in [K -> H]
      BY <1>2
    <3>2. \A j, k \in K : f[j] = f[k] => j = k
      BY <1>2
    <3>3. \A e \in H : \E k \in K : f[k] = e
      BY <1>5
    <3> QED BY <3>1, <3>2, <3>3 DEF Bijection, Injection, Surjection, IsInjective
  <2>2. IsFiniteSet(K)
    <3>1. IsFiniteSet(N[n].kids)
      BY <1>0, KidsCount
    <3> QED BY <3>1, FS_Subset
  <2> QED BY <2>1, <2>2, FS_Bijection DEF ExistsBijection
<1> QED BY <1>6, <1>7

LEMMA MirrorsNow ==
  ASSUME VInv
  PROVE  Mirrors
<1>1. CASE usbMode
  BY <1>1 DEF VInv, Bare, Mirrors, Nodes, Live
<1>2. CASE ~usbMode
  <2> PICK N, D : N = fs.node /\ D = fs.dirs
    OBVIOUS
  <2>1. Tree(N, D) /\ Nodelike(N) /\ Linked(N) /\ Volumes(fs)
    BY <1>2, Zenon DEF VInv, Good, Tree
  <2>2. ASSUME NEW n \in DOMAIN N, N[n].loaded, ~Gone(n),
               NEW K, K = {k \in N[n].kids : k # fs.mount["CF"] /\ ~Gone(k)}
        PROVE  /\ {EntryOf(N[k]) : k \in K} = D[N[n].disk][N[n].loc]
               /\ Cardinality(K) = Cardinality(D[N[n].disk][N[n].loc])
    <3>1. ~GoneIn(N, D, n)
      BY <2>2, GoneIs
    <3>2. \A k \in N[n].kids : k \in DOMAIN N /\ (Gone(k) <=> GoneIn(N, D, k))
      BY <2>1, GoneIs DEF Linked
    <3>3. \A k \in N[n].kids : k # fs.mount["CF"] <=> k # Card
      <4>1. CASE "CF" \in fs.info
        BY <2>1, <4>1 DEF Volumes
      <4>2. CASE "CF" \notin fs.info
        <5>1. fs.mount["CF"] = NULL /\ Card \notin DOMAIN N
          BY <2>1, <4>2 DEF Volumes
        <5>2. \A k \in N[n].kids : k \in Keys /\ k # NULL
          BY <2>1, NodeFacts, KeyFacts
        <5> QED BY <3>2, <5>1, <5>2
      <4> QED BY <4>1, <4>2
    <3>4. K = {k \in N[n].kids : k # Card /\ ~GoneIn(N, D, k)}
      BY <2>2, <3>2, <3>3
    <3>5. /\ {EntryOf(N[k]) : k \in K} = Holds(N, D, n)
          /\ Cardinality(K) = Cardinality(Holds(N, D, n))
      <4>1. /\ Tree(N, D) /\ n \in DOMAIN N /\ N[n].loaded /\ ~GoneIn(N, D, n)
            /\ K = {k \in N[n].kids : k # Card /\ ~GoneIn(N, D, k)}
        BY <2>1, <2>2, <3>1, <3>4
      <4> QED BY ONLY <4>1, ShownEntries
    <3> QED BY <3>5 DEF Holds
  <2> QED BY <2>2 DEF Mirrors, Nodes, Live
<1> QED BY <1>1, <1>2

LEMMA DanglesNow ==
  ASSUME VInv
  PROVE  NothingDangles
<1>1. CASE usbMode
  <2>1. /\ Bare(fs) /\ held = {} /\ DOMAIN fs.node = {} /\ fs.used = 0
        /\ \A v \in Disks : fs.mount[v] = NULL /\ fs.opened[v] = {}
    BY <1>1 DEF VInv, Bare
  <2>2. fs.mount["HD"] = NULL
    BY <2>1, KeyFacts
  <2>3. {n \in held : fs.node[n].kind = "file"} = {} /\ Cardinality({}) = 0
    BY <2>1, FS_EmptySet
  <2> QED BY <2>1, <2>2, <2>3 DEF NothingDangles, Nodes, Live
<1>2. CASE ~usbMode
  <2> PICK N : N = fs.node
    OBVIOUS
  <2>1. /\ Good(fs) /\ held = Opened(N) /\ Nodelike(N) /\ Linked(N) /\ Placed(N) /\ Listed(fs)
        /\ Volumes(fs)
    BY <1>2 DEF VInv, Good, Tree
  <2>2. fs.mount["HD"] = <<>> /\ fs.mount["HD"] # NULL
    BY <2>1, KeyFacts DEF Volumes
  <2>3. DOMAIN N = {fs.mount["HD"]} \cup Below(fs, fs.mount["HD"])
    <3>1. Below(fs, <<>>) = DOMAIN N \ {<<>>} /\ <<>> \in DOMAIN N
      BY <2>1, BelowRoot DEF Linked
    <3> QED BY <2>2, <3>1
  <2>4. ASSUME NEW n \in DOMAIN N PROVE fs.mount[N[n].disk] # NULL
    <3>1. N[n].disk = Volume(n) /\ (Volume(n) = "CF" => Card \in DOMAIN N)
      BY <2>1 DEF Placed
    <3>2. CASE Volume(n) = "CF"
      BY <2>1, <3>1, <3>2, KeyFacts DEF Volumes
    <3>3. CASE Volume(n) # "CF"
      BY <2>2, <3>1, <3>3 DEF Volume
    <3> QED BY <3>2, <3>3
  <2>5. held = {n \in DOMAIN N : N[n].opened}
    BY <2>1 DEF Opened
  <2>6. \A d \in Disks : fs.opened[d] = {n \in held : N[n].disk = d}
    BY <2>1 DEF Listed, OpenOn, Opened
  <2>7. fs.used = Cardinality({n \in held : N[n].kind = "file"})
    <3>1. OpenFiles(N) = {n \in held : N[n].kind = "file"}
      BY <2>1 DEF OpenFiles, Opened
    <3> QED BY <2>1, <3>1 DEF Listed
  <2> QED BY <2>2, <2>3, <2>4, <2>5, <2>6, <2>7 DEF NothingDangles, Nodes, Live
<1> QED BY <1>1, <1>2

\* The invariant holds always: whatever the calls, the changes of cards and
\* the turns of the shell, what is in the tree fits together.
THEOREM TreeInv == Spec => []VInv
<1>1. Init => VInv
  BY InitVInv
<1>2. VInv /\ [Next]_vars => VInv'
  BY NextVInv
<1> QED BY <1>1, <1>2, PTL DEF Spec

\* ref_cnt is exact (vfs_nodeAddChild, vfs_rmNodeFromTree, open and close):
\* a node is removed when and only when nothing refers to it.
THEOREM RefCountsExact == Spec => []RefExact
BY TreeInv, ExactNow, PTL

\* What a loaded directory shows is what its volume holds (fat_loadDir and
\* the calls that write entries).
THEOREM TreeMirrorsDisk == Spec => []Mirrors
BY TreeInv, MirrorsNow, PTL

\* No node is lost, none is left of a volume that was unmounted, and the
\* lists of what is open are what the callers hold (vfs_umount, disk_rm).
THEOREM NoneDangles == Spec => []NothingDangles
BY TreeInv, DanglesNow, PTL
=============================================================================
