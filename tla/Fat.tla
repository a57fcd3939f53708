-------------------------------- MODULE Fat --------------------------------
(***************************************************************************)
(* The files of one volume: kernel/fs/fat.c and fat_lowLevel.c under the   *)
(* calls of vfs_fops.c and vfs_fsManip.c.  Entries of the table are read   *)
(* and changed through a cache of its sectors that is written back when a  *)
(* line is needed for another sector, and as a whole by fat_flushFat;      *)
(* directory entries are written through.  Data is left out (see FatFile), *)
(* a cluster has one sector and a file is measured in clusters.            *)
(*                                                                         *)
(* A call computes what it leaves in memory and the writes it makes, in    *)
(* their order; they then reach the disk one at a time, and the power may  *)
(* go between any two.                                                     *)
(***************************************************************************)
EXTENDS Integers, Sequences, FiniteSets, TLC, FatTable

CONSTANTS
  Files,       \* the names, all in one directory
  CacheSize,   \* FAT_CACHE_SIZE
  MAX_OPEN,
  MaxSize,     \* bound: clusters of a file
  MaxCrashes   \* bound: how often the power goes

ASSUME VolumeAssumption ==
  /\ {CacheSize, MAX_OPEN} \subseteq Nat \ {0} /\ {MaxSize, MaxCrashes} \subseteq Nat

VARIABLES
  vol,      \* the table as memory sees it, and fsinfo (struct bpb)
  cache,    \* fat_cache: the sector in each line, and which are dirty
  node,     \* what the tree knows of each file (vfs_node, fat_entry)
  disk,     \* the table, the directory entries and fsinfo on the disk
  writes,   \* the writes of the call in progress still to be made
  busy,     \* ghost: the files that call is about
  damaged,  \* ghost: the files that were busy or open when the power went
  crashes

vars == <<vol, cache, node, disk, writes, busy, damaged, crashes>>

NONE     == -1
Lines    == 0..(CacheSize - 1)
Absent   == [first |-> NONE, size |-> 0]
Unopened == [mode |-> "closed", first |-> 0, last |-> 0, num |-> 0,
             fresh |-> TRUE, pos |-> 0]

-----------------------------------------------------------------------------
(* The cached table.  q: vol, cache and the writes made so far. *)

SectorImage(fat, s) == [c \in {d \in Clusters : FatSector(d) = s} |-> fat[c]]

\* fat_flushFatSector
flushFatSector(q, s) ==
  [q EXCEPT !.cache.dirty = @ \ {s},
            !.out = Append(@, [on |-> "fat", sector |-> s,
                               image |-> SectorImage(q.vol.fat, s)])]

\* Mutant: a dirty sector is forgotten when its line is needed.
cacheForgets(q, s, change) ==
  [q EXCEPT !.cache.line[s % CacheSize] = s,
            !.cache.dirty = (IF change THEN @ \cup {s} ELSE @)
                              \ ({q.cache.line[s % CacheSize]} \ {s})]

\* fat_cacheFatSector
cacheFatSector(q, s, change) ==
  LET old == q.cache.line[s % CacheSize]
      a   == IF old # s /\ old \in q.cache.dirty THEN flushFatSector(q, old) ELSE q
  IN  [a EXCEPT !.cache.line[s % CacheSize] = s,
                !.cache.dirty = IF change THEN @ \cup {s} ELSE @]

ReadEntry(q, c) == cacheFatSector(q, FatSector(c), FALSE)
Update(q, c, val) ==
  [cacheFatSector(q, FatSector(c), TRUE) EXCEPT !.vol = updateFatEntry(@, c, val)]

\* fat_findFreeCluster looks at the sectors up to the one with a free cluster.
Search(q, start) ==
  LET found == findFreeCluster(q.vol.fat, start)
      n == IF found = 0 THEN FatSize
           ELSE ((FatSector(found) - FatSector(start)) % FatSize) + 1
      at[i \in 0..n] ==
        IF i = 0 THEN q
        ELSE cacheFatSector(at[i - 1], (FatSector(start) + i - 1) % FatSize, FALSE)
  IN  [at[n] EXCEPT !.vol.nextfree = IF found = 0 THEN @ ELSE found]

\* fat_nextWriteCluster for the file f
NextWrite(q, f) ==
  LET a     == IF f.last = 0 THEN q ELSE ReadEntry(q, f.last)
      next  == getNextCluster(q.vol.fat, f.last)
      start == IF f.last # 0 THEN f.last + 1 ELSE q.vol.nextfree
      new   == findFreeCluster(q.vol.fat, start)
      b     == Search(a, start)
      c     == IF f.last = 0 THEN b ELSE Update(b, f.last, new)
  IN  IF next # 0 THEN [q |-> a, cluster |-> next]
      ELSE IF new = 0 THEN [q |-> b, cluster |-> 0]
      ELSE [q |-> Update(c, new, EOF_MARK), cluster |-> new]

\* The chain from first is freed: the loops of fat_truncate and fat_fileRemove.
FreeChain(q, first) ==
  LET at == ChainAt(q.vol.fat, first)
      st[n \in 0..NClusters] ==
        IF n = 0 THEN q
        ELSE IF at[n - 1] = 0 THEN st[n - 1]
        ELSE Update(ReadEntry(st[n - 1], at[n - 1]), at[n - 1], FREE)
  IN  st[NClusters]

\* Mutant: the last cluster that stays is not marked as the last.
truncateUnmarked(q, last) ==
  FreeChain(ReadEntry(q, last), getNextCluster(q.vol.fat, last))

\* fat_truncate
truncate(q, last) ==
  LET a == FreeChain(ReadEntry(q, last), getNextCluster(q.vol.fat, last))
  IN  IF last = 0 THEN a ELSE Update(a, last, EOF_MARK)

\* fat_flushFat with fat_updateFsInfo
flushFat(q) ==
  LET at[i \in 0..CacheSize] ==
        IF i = 0 THEN q
        ELSE IF at[i - 1].cache.line[i - 1] \in at[i - 1].cache.dirty
             THEN flushFatSector(at[i - 1], at[i - 1].cache.line[i - 1])
             ELSE at[i - 1]
      a == at[CacheSize]
  IN  [a EXCEPT !.out = Append(@, [on |-> "info", nextfree |-> a.vol.nextfree,
                                   freecount |-> a.vol.freecount])]

PutEntry(q, f, entry) ==
  [q EXCEPT !.out = Append(@, [on |-> "dent", file |-> f, entry |-> entry])]

\* fat_seek to the cluster p of the file f
Seek(q, f, p) ==
  LET near == f.num # 0 /\ p - 1 >= f.num
      from == IF near THEN f.last ELSE f.first
      n    == IF near THEN p - 1 - f.num ELSE p - 1
      at   == ChainAt(q.vol.fat, from)
      st[i \in 0..n] == IF i = 0 THEN q ELSE ReadEntry(st[i - 1], at[i - 1])
  IN  IF p = 0
      THEN [q |-> q, f |-> [f EXCEPT !.last = f.first, !.num = 0, !.fresh = TRUE]]
      ELSE [q |-> st[n], f |-> [f EXCEPT !.last = at[n], !.num = p - 1, !.fresh = FALSE]]

\* fat_closeWrite of the file called name, whose struct is f
closeWrite(q, name, f, size) ==
  LET empty == size = 0 /\ f.first # 0
      a == IF empty THEN Update(q, f.first, FREE) ELSE q
      first == IF empty THEN 0 ELSE f.first
  IN  flushFat(PutEntry(a, name, [first |-> first, size |-> size]))

-----------------------------------------------------------------------------
(* The calls.  loc is storage_location, size the size in the fat_entry. *)

Known(f)  == node[f].known
IsOpen(f) == node[f].open.mode # "closed"
Unknown   == [known |-> FALSE, loc |-> 0, size |-> 0, moved |-> FALSE, open |-> Unopened]

Load(entry) ==    \* fat_loadDir
  IF entry.first = NONE THEN Unknown
  ELSE [Unknown EXCEPT !.known = TRUE, !.loc = entry.first, !.size = entry.size]

Init ==
  /\ vol = [fat |-> [c \in Clusters |-> FREE], nextfree |-> 2, freecount |-> NClusters]
  /\ cache = [line |-> [l \in Lines |-> NONE], dirty |-> {}]
  /\ node = [f \in Files |-> Unknown]
  /\ disk = [fat |-> vol.fat, nextfree |-> 2, freecount |-> NClusters,
             dent |-> [f \in Files |-> Absent]]
  /\ writes = <<>> /\ busy = {} /\ damaged = {} /\ crashes = 0

Here == [vol |-> vol, cache |-> cache, out |-> <<>>]

\* A call begins when the one before has made its writes.
Idle == writes = <<>>

Did(q, fs) ==
  /\ vol' = q.vol /\ cache' = q.cache /\ writes' = q.out
  /\ busy' = (IF q.out = <<>> THEN {} ELSE fs)
  /\ UNCHANGED <<disk, damaged, crashes>>

OpenFiles == {f \in Files : IsOpen(f)}
CanOpen   == Cardinality(OpenFiles) < MAX_OPEN     \* cache_list

\* fat_fileOpen
Opened(f, mode) ==
  [Unopened EXCEPT !.mode = mode, !.first = node[f].loc, !.last = node[f].loc]

\* open(O_CREAT) of a name that does not exist: fat_createFile adds the entry;
\* the file stays when there is no file_cache left to open it with.
create(f) ==
  /\ Idle /\ ~Known(f) /\ f \notin damaged
  /\ node' = [node EXCEPT ![f] =
                [Unknown EXCEPT !.known = TRUE,
                                !.open.mode = IF CanOpen THEN "rw" ELSE "closed"]]
  /\ Did(PutEntry(Here, f, [first |-> 0, size |-> 0]), {f})

\* The name of a renamed file has size 0 in memory until it is read again.
Settled(f) == Known(f) /\ ~node[f].moved

\* open of an existing file, perhaps with O_TRUNC
open(f, mode) ==
  LET o == Opened(f, mode)
      q == IF mode = "trunc" THEN truncate(Here, o.last) ELSE Here
  IN  /\ Idle /\ Settled(f) /\ ~IsOpen(f) /\ f \notin damaged
      /\ CanOpen
      /\ node' = [node EXCEPT ![f].open = o,
                              ![f].size = IF mode = "trunc" THEN 0 ELSE @]
      /\ Did(q, {f})

\* write of one cluster at the position
write(f) ==
  LET o == node[f].open
      w == NextWrite(Here, o)
      first == IF o.last = 0 THEN w.cluster ELSE o.first
      o2 == [o EXCEPT !.first = first, !.last = w.cluster, !.num = @ + 1,
                      !.fresh = FALSE, !.pos = @ + 1]
      again == o.fresh /\ o.last # 0       \* the first sector of the file
  IN  /\ Idle /\ IsOpen(f) /\ o.pos < MaxSize
      /\ IF again
         THEN /\ node' = [node EXCEPT ![f].open = [o EXCEPT !.fresh = FALSE, !.pos = @ + 1],
                                      ![f].size = IF o.pos + 1 > @ THEN o.pos + 1 ELSE @]
              /\ Did(Here, {f})
         ELSE /\ node' = IF w.cluster = 0 THEN node
                         ELSE [node EXCEPT
                                 ![f].open = o2,
                                 ![f].loc = IF o.last = 0 THEN w.cluster ELSE @,
                                 ![f].size = IF o2.pos > @ THEN o2.pos ELSE @]
              /\ Did(w.q, {f})

lseek(f, p) ==
  LET s == Seek(Here, node[f].open, p)
  IN  /\ Idle /\ IsOpen(f) /\ p <= node[f].size /\ p # node[f].open.pos
      /\ node' = [node EXCEPT ![f].open = [s.f EXCEPT !.pos = p]]
      /\ Did(s.q, {f})

\* A file that is emptied is written to before it is closed (see FatFile).
NotEmptied(f) == node[f].size > 0 \/ node[f].loc = 0

\* close: fsync, with the truncation of a file opened with O_TRUNC
close(f) ==
  LET n == node[f]
      s == Seek(Here, n.open, n.size)
      q == IF n.open.mode = "trunc" THEN truncate(s.q, s.f.last) ELSE Here
  IN  /\ Idle /\ IsOpen(f) /\ NotEmptied(f)
      /\ node' = [node EXCEPT ![f].open = Unopened]
      /\ Did(closeWrite(q, f, n.open, n.size), {f})

\* rmfile: open, fat_fileRemove (the chain, the entry, a flush), then the
\* close writes size 0 into the entry that is free by now.
rmfile(f) ==
  LET a == PutEntry(FreeChain(Here, node[f].loc), f, Absent)
  IN  /\ Idle /\ Known(f) /\ ~IsOpen(f) /\ f \notin damaged
      /\ CanOpen
      /\ node' = [node EXCEPT ![f] = Unknown]
      /\ Did(flushFat(flushFat(a)), {f})

\* mvfile: fat_mvFileDir adds an entry, gives it the chain and the size, and
\* frees the old entry; the new node does not get the size.
mvfile(f, g) ==
  LET e == [first |-> node[f].loc, size |-> node[f].size]
  IN  /\ Idle /\ Settled(f) /\ ~IsOpen(f) /\ ~Known(g) /\ {f, g} \cap damaged = {}
      /\ CanOpen
      /\ node' = [node EXCEPT ![f] = Unknown,
                              ![g] = [Load(e) EXCEPT !.size = 0, !.moved = TRUE]]
      /\ Did(flushFat(PutEntry(PutEntry(PutEntry(Here, g, [first |-> 0, size |-> 0]),
                                        g, e), f, Absent)), {f, g})

\* One write of the call in progress.
DiskWrite ==
  LET w == Head(writes)
  IN  /\ writes # <<>>
      /\ disk' =
           IF w.on = "fat"
           THEN [disk EXCEPT !.fat = [c \in Clusters |->
                   IF FatSector(c) = w.sector THEN w.image[c] ELSE @[c]]]
           ELSE IF w.on = "dent" THEN [disk EXCEPT !.dent[w.file] = w.entry]
           ELSE [disk EXCEPT !.nextfree = w.nextfree, !.freecount = w.freecount]
      /\ writes' = Tail(writes)
      /\ busy' = IF Tail(writes) = <<>> THEN {} ELSE busy
      /\ UNCHANGED <<vol, cache, node, damaged, crashes>>

\* The power goes and the volume is mounted again (fat_initDevice).
Crash ==
  /\ crashes < MaxCrashes /\ crashes' = crashes + 1
  /\ damaged' = {f \in Files : f \in damaged \cup busy \cup OpenFiles
                                 /\ disk.dent[f] # Absent}
  /\ vol' = [fat |-> disk.fat, nextfree |-> disk.nextfree, freecount |-> disk.freecount]
  /\ cache' = [line |-> [l \in Lines |-> NONE], dirty |-> {}]
  /\ node' = [f \in Files |-> Load(disk.dent[f])]
  /\ writes' = <<>> /\ busy' = {}
  /\ UNCHANGED disk

Next ==
  \/ \E f \in Files :
       \/ create(f) \/ write(f) \/ close(f) \/ rmfile(f)
       \/ \E mode \in {"rw", "trunc"} : open(f, mode)
       \/ \E p \in 0..MaxSize : lseek(f, p)
       \/ \E g \in Files \ {f} : mvfile(f, g)
  \/ DiskWrite
  \/ Crash

Spec == Init /\ [][Next]_vars

-----------------------------------------------------------------------------
(* What holds. *)

FirstOf(f) == IF IsOpen(f) THEN node[f].open.first ELSE node[f].loc
Chain(f)   == ChainOf(vol.fat, FirstOf(f))
Healthy    == {f \in Files : Known(f) /\ f \notin damaged}

\* A cluster belongs to one file: the chains of two files do not meet, none
\* leads into a free cluster, and each is as long as its file (the search for
\* free clusters, fat_nextWriteCluster, fat_truncate and fat_fileRemove over
\* a cached table, also after the power went and left it half written).
Exclusive ==
  \A f \in Healthy :
    /\ Chain(f) \cap FreeClusters(vol.fat) = {}
    /\ Cardinality(Chain(f)) >= node[f].size
    /\ \A g \in Healthy \ {f} : Chain(f) \cap Chain(g) = {}

\* If the power goes now, a file that is closed is what it was when it was
\* closed, and one that was removed does not come back, whatever other call
\* is half way and whichever sectors of the table were written back early
\* (fat_closeWrite, fat_flushFat, fat_cacheFatSector).  When all is closed
\* the disk has all there is in memory.
Survives ==
  /\ \A f \in Files \ (busy \cup damaged) :
       /\ ~Known(f) => disk.dent[f] = Absent
       /\ Known(f) /\ ~IsOpen(f) =>
            /\ disk.dent[f].first = node[f].loc
            /\ ~node[f].moved => disk.dent[f].size = node[f].size
            /\ ChainAt(disk.fat, node[f].loc) = ChainAt(vol.fat, node[f].loc)
            /\ Cardinality(ChainOf(disk.fat, node[f].loc)) >= disk.dent[f].size
  /\ Idle /\ OpenFiles = {} =>
       disk.fat = vol.fat /\ disk.freecount = vol.freecount

\* No cluster is lost and freecount counts the free ones, as long as the
\* power stays on (fat_updateFatEntry).
Accounted ==
  crashes = 0 =>
    /\ vol.freecount = Cardinality(FreeClusters(vol.fat))
    /\ Clusters \ FreeClusters(vol.fat) = UNION {Chain(f) : f \in Healthy}

\* The names are interchangeable.
NameSymmetry == Permutations(Files)
=============================================================================
