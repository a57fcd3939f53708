-------------------------------- MODULE Heap --------------------------------
(***************************************************************************)
(* The memory allocator of MediOS: kernel/core/malloc.c with the resource  *)
(* lists of kernel/core/thread.c that give every buffer an owner, and the  *)
(* callers that tie buffers to a thread's life (thread_create, the MED     *)
(* loader, thread_doKill).                                                 *)
(*                                                                         *)
(* The pool is a range of addresses.  A block starts with a header (struct *)
(* bhead), here one function per field; a header that no block starts with *)
(* any more has its fields reset, as nothing reads them.  The size field   *)
(* is negative while the block is allocated.  Each call is one action: the *)
(* code does not protect the heap against preemption (see the README).     *)
(***************************************************************************)
EXTENDS Integers, Sequences, FiniteSets, FiniteSetsExt

CONSTANTS
  PoolSize,    \* len of mem_addPool, in bytes
  HDR,         \* sizeof(struct bhead)
  SizeQuant,
  Width,       \* bits of an unsigned int
  Requests,    \* bound: the sizes asked of malloc
  MaxPid,      \* bound: the largest pid given to a MED
  Loaders,     \* who loads MEDs: KERNEL (shell), CMD ("run")
  InfoSize, StackSize, CodeSize   \* THREAD_INFO, saveStack, code of a MED

KERNEL == 0
CMD    == 2
Med    == 3..MaxPid
Pid    == {KERNEL, CMD} \cup Med
NULL   == -1
Addr   == 0..(PoolSize - 1)

ASSUME PoolAssumption ==
  /\ {PoolSize, HDR, SizeQuant, Width} \subseteq Nat \ {0}
  /\ PoolSize > HDR /\ PoolSize < 2^(Width - 1)
  /\ HDR % SizeQuant = 0 /\ PoolSize % SizeQuant = 0
  /\ 2^Width \in Nat
ASSUME CallerAssumption ==
  /\ Requests \subseteq 0..(2^Width - 1) /\ MaxPid \in Nat
  /\ Loaders \subseteq {KERNEL, CMD}
  /\ {InfoSize, StackSize, CodeSize} \subseteq 0..PoolSize

VARIABLES
  heap,     \* headers, first_free, totalloc and the lists of the threads
  alive,    \* pids of the threads in the ring
  loaded,   \* code buffer each loader has filled but not started
  med,      \* buffers of each live MED: its struct, saved stack and code
  asked     \* ghost: the size asked for at each allocated buffer

vars == <<heap, alive, loaded, med, asked>>

Field(v) == [a \in Addr |-> v]
NoMed == [info |-> NULL, stack |-> NULL, code |-> NULL]

\* mem_addPool: one free block, nobody owns it.
mem_addPool ==
  [size  |-> [Field(0) EXCEPT ![0] = PoolSize],
   bnxt  |-> Field(NULL), bprev |-> Field(NULL),   \* blist
   fnxt  |-> Field(NULL), fprev |-> Field(NULL),   \* free_list
   lnxt  |-> Field(NULL), lprev |-> Field(NULL),   \* __thread_list
   pid   |-> Field(NULL),
   first |-> 0, total |-> 0,                       \* first_free, totalloc
   head  |-> [t \in Pid |-> NULL]]                 \* ressources[].head_list

Init ==
  /\ heap = mem_addPool
  /\ alive = {}
  /\ loaded = [t \in {KERNEL, CMD} |-> NULL]
  /\ med = [t \in Med |-> NoMed]
  /\ asked = Field(NULL)

\* f with f[a] = v.  The link of a NULL block is not stored; internalMalloc taking
\* the only free block does write one, to 0x14, the vector that the ARM reserves.
Put(f, a, v) == IF a = NULL THEN f ELSE [f EXCEPT ![a] = v]

\* The addresses that next leads to from start on, in order.
Walk(next, start) ==
  LET at[n \in 0..PoolSize] ==
        IF n = 0 THEN start
        ELSE IF at[n - 1] = NULL THEN NULL ELSE next[at[n - 1]]
  IN  [i \in 1..Cardinality({n \in 0..PoolSize : at[n] # NULL}) |-> at[i - 1]]

(***************************************************************************)
(* Resource lists.                                                         *)
(***************************************************************************)

\* thread_listAdd of block b by thread c (NULL before thread_init).
thread_listAdd(h, b, c, force) ==
  IF c = NULL
  THEN [h EXCEPT !.pid[b] = NULL, !.lnxt[b] = NULL, !.lprev[b] = NULL]
  ELSE LET o == IF force THEN KERNEL ELSE c
           n == h.head[o]
       IN  [h EXCEPT !.pid[b] = o,
                     !.lprev = Put([@ EXCEPT ![b] = NULL], n, b),
                     !.lnxt[b] = n,
                     !.head[o] = b]

\* Mutant: nobody is refused.
MayRmAny(h, b, c, force) == TRUE

\* May c take b off its list?  KERNEL and the kernel's own calls always may.
MayRm(h, b, c, force) ==
  \/ force \/ c \in {NULL, KERNEL}
  \/ h.pid[b] # NULL /\ h.pid[b] = c

\* thread_listRm: the list searched is the current thread's, or that of pid 0.
thread_listRm(h, b, c, force) ==
  IF h.pid[b] = NULL \/ c = NULL THEN h
  ELSE LET o == IF h.pid[b] = c THEN c ELSE KERNEL
           n == h.lnxt[b]
           p == h.lprev[b]
       IN  IF h.head[o] = b
           THEN [h EXCEPT !.head[o] = n, !.lprev = Put(@, n, NULL)]
           ELSE [h EXCEPT !.lnxt = Put(@, p, n), !.lprev = Put(@, n, p)]

\* The blocks of thread t's list, in order.
OwnedBy(h, t) == Walk(h.lnxt, h.head[t])

(***************************************************************************)
(* The free list: doubly linked, a block goes before the first one that is *)
(* not smaller.                                                            *)
(***************************************************************************)
FreeList(h) == Walk(h.fnxt, h.first)

\* Mutant: the block after a in the list still names a as its predecessor.
REMOVE_FREE_OneWay(h, a) ==
  IF a = h.first
  THEN [h EXCEPT !.first = h.fnxt[a]]
  ELSE [h EXCEPT !.fnxt[h.fprev[a]] = h.fnxt[a]]

REMOVE_FREE(h, a) ==
  LET n == h.fnxt[a]
      p == h.fprev[a]
  IN  IF a = h.first
      THEN [h EXCEPT !.first = n, !.fprev = Put(@, n, NULL)]
      ELSE [h EXCEPT !.fnxt[p] = n, !.fprev = Put(@, n, p)]

\* Where INSERT_FREE_W_START stops: at a block that is not smaller, or the last.
StopAt(h, a) ==
  LET l == FreeList(h)
  IN  l[Min({i \in DOMAIN l : h.size[l[i]] >= h.size[a] \/ i = Len(l)})]

INSERT_FREE(h, a) ==
  LET q == StopAt(h, a)
      p == h.fprev[q]
  IN  IF h.first = NULL
      THEN [h EXCEPT !.first = a, !.fprev[a] = NULL, !.fnxt[a] = NULL]
      ELSE IF h.size[a] <= h.size[h.first]
      THEN [h EXCEPT !.fnxt[a] = h.first, !.fprev = [@ EXCEPT ![h.first] = a, ![a] = NULL],
                     !.first = a]
      ELSE IF h.size[q] >= h.size[a]
      THEN [h EXCEPT !.fnxt = [@ EXCEPT ![a] = q, ![p] = a],
                     !.fprev = [@ EXCEPT ![a] = p, ![q] = a]]
      ELSE [h EXCEPT !.fnxt = [@ EXCEPT ![q] = a, ![a] = NULL],
                     !.fprev[a] = q]

\* A free block that fits, the first in list order; NULL when none does.
FirstFit(h, s) ==
  LET l    == FreeList(h)
      fits == {i \in DOMAIN l : h.size[l[i]] >= s}
  IN  IF fits = {} THEN NULL ELSE l[Min(fits)]

\* Mutant: the header is not added.
NeededBare(n) ==
  (((n + SizeQuant - 1) % 2^Width) \div SizeQuant) * SizeQuant

\* The block that a request of n bytes needs: rounded up, plus the header.
Needed(n) ==
  LET U == 2^Width
      rounded == (((n + SizeQuant - 1) % U) \div SizeQuant) * SizeQuant
  IN  (rounded + HDR) % U

(***************************************************************************)
(* internalMalloc: the tail of a block that is large enough to split, else *)
(* the whole block.                                                        *)
(***************************************************************************)
\* Mutant: totalloc moves the wrong way.
SplitDown(h, b, s) ==
  LET a == b + h.size[b] - s
      n == h.bnxt[b]
  IN  [h EXCEPT !.size  = [@ EXCEPT ![b] = h.size[b] - s, ![a] = -s],
                !.bnxt  = [@ EXCEPT ![b] = a, ![a] = n],
                !.bprev = Put([@ EXCEPT ![a] = b], n, a),
                !.total = @ - s]

Split(h, b, s) ==
  LET a == b + h.size[b] - s
      n == h.bnxt[b]
  IN  [h EXCEPT !.size  = [@ EXCEPT ![b] = h.size[b] - s, ![a] = -s],
                !.bnxt  = [@ EXCEPT ![b] = a, ![a] = n],
                !.bprev = Put([@ EXCEPT ![a] = b], n, a),
                !.total = @ + s]

TakeWhole(h, b) ==
  LET n == h.fnxt[b]
      p == h.fprev[b]
      unlinked == IF p = NULL
                  THEN [h EXCEPT !.first = n, !.fprev = Put(@, n, NULL)]
                  ELSE [h EXCEPT !.fnxt[p] = n, !.fprev = Put(@, n, p)]
  IN  [unlinked EXCEPT !.total = @ + h.size[b], !.size[b] = -h.size[b],
                       !.fnxt[b] = NULL, !.fprev[b] = NULL]

\* The heap after the call and the block handed out, NULL when there is none.
internalMalloc(h, n, c, force) ==
  LET s == Needed(n)
      b == FirstFit(h, s)
  IN  IF b = NULL THEN [h |-> h, b |-> NULL]
      ELSE IF h.size[b] - s > SizeQuant + HDR
      THEN LET a == b + h.size[b] - s
           IN  [h |-> thread_listAdd(Split(h, b, s), a, c, force), b |-> a]
      ELSE [h |-> thread_listAdd(TakeWhole(h, b), b, c, force), b |-> b]

(***************************************************************************)
(* internalFree: merge with a free neighbour on either side, then put the  *)
(* block back where its new size belongs.                                  *)
(***************************************************************************)
\* Mutant: the block after b still names b as its predecessor.
MERGE_BLOCK_OneWay(h, a, b) ==
  [h EXCEPT !.bnxt[a] = h.bnxt[b], !.size[a] = @ + h.size[b]]

MERGE_BLOCK(h, a, b) ==
  [h EXCEPT !.bnxt[a] = h.bnxt[b],
            !.bprev = Put(@, h.bnxt[b], a),
            !.size[a] = @ + h.size[b]]

\* The header at a is not one any more.
Forget(h, a) ==
  [h EXCEPT !.size[a] = 0, !.bnxt[a] = NULL, !.bprev[a] = NULL,
            !.fnxt[a] = NULL, !.fprev[a] = NULL]

\* Mutant: any neighbour is merged with.
IsFreeAny(h, a) == a # NULL

IsFree(h, a) == a # NULL /\ h.size[a] >= 0

internalFree(h, b) ==
  LET freed == [h EXCEPT !.size[b] = -@, !.total = @ + h.size[b],
                         !.pid[b] = NULL, !.lnxt[b] = NULL, !.lprev[b] = NULL]
      p == h.bprev[b]
      n == h.bnxt[b]
  IN  IF h.size[b] >= 0 THEN h
      ELSE IF IsFree(h, p) /\ IsFree(h, n)
      THEN LET merged == MERGE_BLOCK(MERGE_BLOCK(freed, p, b), p, n)
           IN  Forget(Forget(INSERT_FREE(REMOVE_FREE(REMOVE_FREE(merged, p), n), p), n), b)
      ELSE IF IsFree(h, p)
      THEN Forget(INSERT_FREE(REMOVE_FREE(MERGE_BLOCK(freed, p, b), p), p), b)
      ELSE IF IsFree(h, n)
      THEN Forget(INSERT_FREE(REMOVE_FREE(MERGE_BLOCK(freed, b, n), n), b), n)
      ELSE INSERT_FREE(freed, b)

\* free and kfree by thread c.
free(h, b, c) ==
  IF b # NULL /\ MayRm(h, b, c, FALSE)
  THEN internalFree(thread_listRm(h, b, c, FALSE), b) ELSE h
kfree(h, b, c) ==
  IF b # NULL THEN internalFree(thread_listRm(h, b, c, TRUE), b) ELSE h

\* thread_listFree: everything thread t still owns.
thread_listFree(h, t) ==
  LET l == OwnedBy(h, t)
      freed[i \in 0..Len(l)] == IF i = 0 THEN h ELSE internalFree(freed[i - 1], l[i])
  IN  freed[Len(l)]

(***************************************************************************)
(* The callers.  c is the running thread.                                  *)
(***************************************************************************)
Blocks(h)     == {a \in Addr : h.size[a] # 0}
Allocated(h)  == {a \in Addr : h.size[a] < 0}
FreeBlocks(h) == {a \in Addr : h.size[a] > 0}
\* Buffers a program got from malloc itself, not the loader's or the kernel's.
Private == Allocated(heap) \ ({loaded[t] : t \in {KERNEL, CMD}} \cup
             UNION {{med[m].info, med[m].stack, med[m].code} : m \in Med})

Asked(b, n) == asked' = Put(asked, b, n)
Ask(r, n) == heap' = r.h /\ Asked(r.b, n)

\* thread_init: the struct and the saved stack of KERNEL belong to nobody.
thread_init ==
  /\ alive = {}
  /\ LET r == internalMalloc(heap, InfoSize, NULL, TRUE)
     IN  Ask(r, InfoSize) /\ r.b # NULL
  /\ alive' = {KERNEL, CMD}
  /\ UNCHANGED <<loaded, med>>

malloc(c, n) ==
  /\ c \in alive
  /\ Ask(internalMalloc(heap, n, c, FALSE), n)
  /\ UNCHANGED <<alive, loaded, med>>

kmalloc(c, n) ==
  /\ c \in alive
  /\ Ask(internalMalloc(heap, n, c, TRUE), n)
  /\ UNCHANGED <<alive, loaded, med>>

\* Any thread may try to free any buffer; KERNEL frees those of pid 0.
Free(c, b) ==
  /\ c \in alive /\ b \in Private
  /\ c = KERNEL => heap.pid[b] = KERNEL
  /\ heap' = free(heap, b, c)
  /\ asked' = IF MayRm(heap, b, c, FALSE) THEN [asked EXCEPT ![b] = NULL] ELSE asked
  /\ UNCHANGED <<alive, loaded, med>>

\* The kernel frees what it got from kmalloc, whoever runs.
Kfree(c, b) ==
  /\ c \in alive /\ b \in Private /\ heap.pid[b] = KERNEL
  /\ heap' = kfree(heap, b, c)
  /\ asked' = [asked EXCEPT ![b] = NULL]
  /\ UNCHANGED <<alive, loaded, med>>

\* realloc: a new buffer first, then the old one is freed.
Realloc(c, b, n) ==
  /\ c \in alive /\ b \in Private /\ heap.pid[b] = c
  /\ LET r == internalMalloc(heap, n, c, FALSE)
     IN  IF r.b = NULL THEN heap' = heap /\ asked' = asked
         ELSE /\ heap' = free(r.h, b, c)
              /\ asked' = [asked EXCEPT ![b] = NULL, ![r.b] = n]
  /\ UNCHANGED <<alive, loaded, med>>

\* med_loadParam: the loader's buffer for the code of a MED.
LoadCode(c) ==
  /\ c \in Loaders \cap alive /\ loaded[c] = NULL
  /\ LET r == internalMalloc(heap, CodeSize, c, FALSE)
     IN  Ask(r, CodeSize) /\ loaded' = [loaded EXCEPT ![c] = r.b]
  /\ UNCHANGED <<alive, med>>

\* thread_startMed and thread_create: the struct, then the saved stack; when
\* one of them cannot be had the others are freed.
thread_startMed(c) ==
  /\ c \in Loaders /\ loaded[c] # NULL
  /\ loaded' = [loaded EXCEPT ![c] = NULL]
  /\ LET i == internalMalloc(heap, InfoSize, c, TRUE)
         k == internalMalloc(i.h, StackSize, c, TRUE)
         code == loaded[c]
     IN  \/ /\ i.b # NULL /\ k.b # NULL
            /\ heap' = k.h
            /\ asked' = [asked EXCEPT ![i.b] = InfoSize, ![k.b] = StackSize]
            /\ \E m \in Med \ alive :
                 /\ \A x \in Med \ alive : m <= x
                 /\ alive' = alive \cup {m}
                 /\ med' = [med EXCEPT ![m] = [info |-> i.b, stack |-> k.b,
                                               code |-> code]]
         \/ /\ i.b # NULL /\ k.b = NULL
            /\ heap' = kfree(free(i.h, i.b, c), code, c)
            /\ asked' = [asked EXCEPT ![code] = NULL,
                           ![i.b] = IF MayRm(i.h, i.b, c, FALSE) THEN @ ELSE InfoSize]
            /\ UNCHANGED <<alive, med>>
         \/ /\ i.b = NULL
            /\ heap' = kfree(heap, code, c)
            /\ asked' = [asked EXCEPT ![code] = NULL]
            /\ UNCHANGED <<alive, med>>

\* thread_doKill of MED m; c runs by then: the killer, or the thread after m.
thread_doKill(m, c) ==
  /\ m \in Med \cap alive /\ c \in alive \ {m}
  /\ LET h1 == thread_listFree(heap, m)
         h2 == kfree(h1, med[m].stack, c)
         h3 == kfree(h2, med[m].code, c)
         h4 == kfree(h3, med[m].info, c)
     IN  /\ heap' = [h4 EXCEPT !.head[m] = NULL]   \* the struct is gone
         /\ asked' = [a \in Addr |-> IF h4.size[a] < 0 THEN asked[a] ELSE NULL]
  /\ alive' = alive \ {m}
  /\ med' = [med EXCEPT ![m] = NoMed]
  /\ UNCHANGED loaded

Next ==
  \/ thread_init
  \/ \E c \in Pid : \/ \E n \in Requests : malloc(c, n) \/ kmalloc(c, n)
                    \/ \E b \in Addr : Free(c, b) \/ Kfree(c, b)
                    \/ \E b \in Addr, n \in Requests : Realloc(c, b, n)
                    \/ \E m \in Med : thread_doKill(m, c)
  \/ \E c \in {KERNEL, CMD} : LoadCode(c) \/ thread_startMed(c)

Spec == Init /\ [][Next]_vars

(***************************************************************************)
(* Properties.                                                             *)
(***************************************************************************)
Extent(h, a) == IF h.size[a] < 0 THEN -h.size[a] ELSE h.size[a]
End(h, a)    == a + Extent(h, a)
BytesUsed(h) == UNION {a..(End(h, a) - 1) : a \in Allocated(h)}

\* The shape of the state: every link is an address or NULL.
Links == [Addr -> Addr \cup {NULL}]
HeapType ==
  [size : [Addr -> -PoolSize..PoolSize], pid : [Addr -> Pid \cup {NULL}],
   bnxt : Links, bprev : Links, fnxt : Links, fprev : Links, lnxt : Links, lprev : Links,
   first : Addr \cup {NULL}, total : 0..PoolSize, head : [Pid -> Addr \cup {NULL}]]

TypeOK ==
  /\ heap \in HeapType
  /\ alive \subseteq Pid
  /\ loaded \in [{KERNEL, CMD} -> Addr \cup {NULL}]
  /\ med \in [Med -> [info : Addr \cup {NULL}, stack : Addr \cup {NULL},
                      code : Addr \cup {NULL}]]
  /\ asked \in [Addr -> Nat \cup {NULL}]

\* The blocks tile the pool, linked in address order.
Tiled(h) ==
  /\ \A a \in Blocks(h) :
       \/ End(h, a) = PoolSize /\ h.bnxt[a] = NULL
       \/ /\ End(h, a) \in Blocks(h)
          /\ h.bnxt[a] = End(h, a) /\ h.bprev[End(h, a)] = a
  /\ 0 \in Blocks(h) /\ h.bprev[0] = NULL
  /\ \A a, c \in Blocks(h) : a < c => End(h, a) <= c

\* Two free blocks are never neighbours.
Merged(h) == \A a \in FreeBlocks(h) : h.bnxt[a] \notin FreeBlocks(h)

\* Splitting and merging lose no byte, free space is as large as it can be, and
\* totalloc says how much is in use.
BlocksTile ==
  Tiled(heap) /\ Merged(heap) /\ heap.total = Cardinality(BytesUsed(heap))

\* The free list holds the free blocks, each once, and its links agree: no free
\* block is lost to malloc and none that is in use can be handed out.
FreeListExact ==
  LET l == FreeList(heap)
  IN  /\ {l[i] : i \in DOMAIN l} = FreeBlocks(heap)
      /\ \A i, j \in DOMAIN l : l[i] = l[j] => i = j
      /\ \A i \in DOMAIN l : heap.fprev[l[i]] = IF i = 1 THEN NULL ELSE l[i - 1]

\* Every allocated buffer with an owner is on the list of that owner, a live
\* thread: it is freed when its owner ends.
OwnersListed ==
  \A t \in Pid :
    LET l == OwnedBy(heap, t)
    IN  /\ {l[i] : i \in DOMAIN l} = {a \in Allocated(heap) : heap.pid[a] = t}
        /\ t \notin alive => l = <<>>

\* A buffer has room for what was asked for.
BigEnough ==
  \A a \in Allocated(heap) : asked[a] # NULL => Extent(heap, a) >= asked[a] + HDR

\* A buffer in use is never moved, resized or given to somebody else.
BuffersStay ==
  [][\A a \in Addr : heap.size[a] < 0 /\ heap'.size[a] < 0 /\ asked'[a] # NULL =>
       /\ heap'.size[a] = heap.size[a]
       /\ heap'.pid[a] = heap.pid[a]
       /\ asked'[a] = asked[a]]_vars
=============================================================================
