------------------------------ MODULE FatFile ------------------------------
(***************************************************************************)
(* One file opened for writing: read, write, lseek, fsync, truncate and    *)
(* close of kernel/fs/vfs_fops.c on top of kernel/fs/fat.c.  The file has  *)
(* a cache of one sector, a cursor that remembers the last sector the      *)
(* chain of clusters was followed to, and a position in bytes; the three   *)
(* are moved separately by every call.  A call is one action (nothing in   *)
(* this code stops another thread from entering it: see the README).       *)
(*                                                                         *)
(* m is all that the calls change: the table and the sectors of the        *)
(* volume, the directory entry on the disk, and f, the struct fat_entry    *)
(* of the file with its vfs_node and its file_cache.                       *)
(***************************************************************************)
EXTENDS Integers, Sequences, FiniteSets, SequencesExt, FatTable

CONSTANTS
  SECTOR_SIZE,
  Byte,        \* the values written
  JUNK,        \* what a sector holds before it is written
  MaxSize,     \* bound: the size a file may grow to
  MaxCall,     \* bound: the bytes of one call
  Layouts      \* the sets of clusters other files may hold at the start

ASSUME FileAssumption ==
  /\ {SECTOR_SIZE, MaxSize, MaxCall} \subseteq Nat \ {0}
  /\ Layouts \subseteq SUBSET Clusters /\ JUNK \notin Byte

VARIABLES
  m,
  phase,      \* "closed", "open", "failed", "lost" (see ByteFile)
  trunc,      \* the file was opened with O_TRUNC
  unsynced,   \* ghost: written since it was opened or synced
  others      \* ghost: the clusters of the other files

vars == <<m, phase, trunc, unsynced, others>>

Sectors == 1..(cluster2Sec(NClusters + 1) + SecPerClus - 1)
NONE    == -1     \* cacheOffset of an empty cache

-----------------------------------------------------------------------------
(* Sectors: fat_seek and fat_readWrite. *)

\* Mutant: the number of the cluster is not reset.
StartSameNumber(f, first) ==
  [f EXCEPT !.lastcluster = first, !.lastsector = 0, !.sectornum = 0, !.eof = FALSE]

\* The cursor before the first sector of a chain.
Start(f, first) ==
  [f EXCEPT !.lastcluster = first, !.lastsector = 0, !.clusternum = 0,
            !.sectornum = 0, !.eof = FALSE]

\* fat_seek: the cursor is left on the sector before seeksector.
seek(q, seeksector) ==
  LET f    == q.f
      clus == (seeksector - 1) \div SecPerClus
      near == f.clusternum # 0 /\ clus >= f.clusternum
      from == IF near THEN f.lastcluster ELSE f.firstcluster
      num  == IF near THEN clus - f.clusternum ELSE clus
      c    == ChainAt(q.vol.fat, from)[num]
      sec  == (seeksector - 1) % SecPerClus
  IN  IF seeksector = 0
      THEN [m |-> [q EXCEPT !.f = Start(f, f.firstcluster)], ok |-> TRUE]
      ELSE IF num > 0 /\ c = 0
      THEN [m |-> [q EXCEPT !.f.eof = FALSE], ok |-> FALSE]
      ELSE [m |-> [q EXCEPT !.f = [f EXCEPT !.lastcluster = c, !.clusternum = clus,
                                            !.lastsector = cluster2Sec(c) + sec,
                                            !.sectornum = sec + 1, !.eof = FALSE]],
            ok |-> TRUE]

\* The cursor moves to the cluster that was looked up, or found and linked.
nextCluster(w, write, fetch) ==
  LET f == w.f
      c == fetch.cluster
      g == [f EXCEPT !.firstcluster = fetch.first, !.lastcluster = c,
                     !.storage_location = IF write /\ f.lastcluster = 0 THEN c ELSE @,
                     !.lastsector = cluster2Sec(c), !.clusternum = @ + 1,
                     !.sectornum = 1, !.eof = (c = 0)]
  IN  IF write /\ c = 0                                  \* volume full
      THEN [w EXCEPT !.f.sectornum = 1, !.f.eof = TRUE, !.full = TRUE]
      ELSE [w EXCEPT !.f = g, !.vol = fetch.vol, !.secs = Append(@, cluster2Sec(c))]

\* One round of the loop of fat_readWrite: the cursor moves to the next sector.
nextSector(w, write) ==
  LET f == w.f
      sec == IF f.lastsector # 0 THEN f.lastsector + 1 ELSE cluster2Sec(f.firstcluster)
  IN  IF f.sectornum + 1 <= SecPerClus /\ f.lastcluster # 0
      THEN [w EXCEPT !.f.lastsector = sec,
                     !.f.sectornum = IF f.lastsector # 0 THEN @ + 1 ELSE 1,
                     !.secs = Append(@, sec)]
      ELSE nextCluster(w, write,
             IF write THEN nextWriteCluster(w.vol, f.firstcluster, f.lastcluster)
             ELSE [vol |-> w.vol, first |-> f.firstcluster,
                   cluster |-> getNextCluster(w.vol.fat, f.lastcluster)])

walk(q, count, write) ==
  LET at[n \in 0..count] ==
        IF n = 0 THEN [f |-> q.f, vol |-> q.vol, secs |-> <<>>, full |-> FALSE]
        ELSE IF at[n - 1].full THEN at[n - 1] ELSE nextSector(at[n - 1], write)
  IN  at[count]

\* Sectors are sent in runs of neighbours; the run that is being collected
\* when the volume turns out to be full is not sent.
Sent(w) ==
  LET breaks == {i \in 1..Len(w.secs) : i = 1 \/ w.secs[i] # w.secs[i - 1] + 1}
  IN  IF ~w.full THEN 1..Len(w.secs)
      ELSE {i \in 1..Len(w.secs) : \E b \in breaks : b > i}

\* The sectors the cursor went along are written from buf, or read.
transfer(q, w, count, buf, write) ==
  LET piece(i) == SubSeq(buf, (i - 1) * SECTOR_SIZE + 1, i * SECTOR_SIZE)
      sent == Sent(w)
      sector(s) == IF \E i \in sent : w.secs[i] = s
                   THEN piece(CHOOSE i \in sent : w.secs[i] = s) ELSE q.disk[s]
      written == IF write THEN [s \in Sectors |-> sector(s)] ELSE q.disk
  IN  [m   |-> [q EXCEPT !.f = w.f, !.vol = w.vol, !.disk = written],
       ret |-> IF w.full THEN -2 ELSE IF w.f.eof THEN count - 1 ELSE count,
       buf |-> IF write THEN <<>>
               ELSE FlattenSeq([i \in 1..count |-> q.disk[w.secs[i]]])]

\* fat_readWrite of count sectors.
readWrite(q, count, buf, write) ==
  IF q.f.eof /\ ~write THEN [m |-> q, ret |-> 0, buf |-> <<>>]
  ELSE transfer(q, walk(q, count, write), count, buf, write)

-----------------------------------------------------------------------------
(* Bytes: the sector cache of the file. *)

SectorOf(p) == p \div SECTOR_SIZE

\* Mutant: the sector is written where the cursor happens to be.
flushCacheHere(q) ==
  [m |-> [readWrite(q, 1, q.f.data, TRUE).m EXCEPT !.f.dirty = FALSE], ok |-> TRUE]

\* fat_fileFlushCache
flushCache(q) ==
  LET written(w) == IF w.ret < 1 /\ w.m.f.eof THEN [m |-> w.m, ok |-> FALSE]
                    ELSE [m |-> [w.m EXCEPT !.f.dirty = FALSE], ok |-> TRUE]
      sought(s)  == IF ~s.ok THEN s
                    ELSE written(readWrite(s.m, 1, q.f.data, TRUE))
  IN  sought(seek(q, SectorOf(q.f.position)))

\* fat_fileSeek
fileSeek(q, pos) ==
  LET new   == SectorOf(pos)
      moved == new # SectorOf(q.f.position)
      off   == pos % SECTOR_SIZE
      filled(r) == [m  |-> [r.m EXCEPT !.f.cacheOffset = off,
                                       !.f.data = IF r.ret < 1 THEN @ ELSE r.buf],
                    ok |-> TRUE]
      sought(s) == IF ~s.ok THEN s
                   ELSE IF off # 0 THEN filled(readWrite(s.m, 1, <<>>, FALSE))
                   ELSE [m |-> [s.m EXCEPT !.f.cacheOffset = NONE], ok |-> TRUE]
      flushed(s) == IF s.ok THEN seek(s.m, new) ELSE s
  IN  IF moved
      THEN sought(flushed(IF q.f.dirty THEN flushCache(q) ELSE [m |-> q, ok |-> TRUE]))
      ELSE IF q.f.cacheOffset = NONE /\ off # 0
      THEN filled(readWrite(q, 1, <<>>, FALSE))
      ELSE [m  |-> [q EXCEPT !.f.cacheOffset = IF @ # NONE THEN off ELSE @],
            ok |-> TRUE]

\* Bytes from+1 .. from+n of the cached sector become v.
Put(data, from, n, v) ==
  [i \in 1..SECTOR_SIZE |-> IF i \in (from + 1)..(from + n) THEN v ELSE data[i]]

\* fat_fileReadWrite in its three parts.  r: m, the bytes done, the bytes
\* left, what was read, and what an early return gives (0: none).
headBytes(q, count, v, write) ==
  LET offs == q.f.cacheOffset
      n    == IF count <= SECTOR_SIZE - offs THEN count ELSE SECTOR_SIZE - offs
      fill == offs + n = SECTOR_SIZE
      a    == [q EXCEPT !.f.cacheOffset = IF fill THEN NONE ELSE offs + n,
                        !.f.data = IF write THEN Put(@, offs, n, v) ELSE @]
      done(x) == [m |-> x, done |-> n, left |-> count - n, err |-> 0,
                  buf |-> IF write THEN <<>> ELSE SubSeq(q.f.data, offs + 1, offs + n)]
      flushed(s) == IF s.ok THEN done(s.m)
                    ELSE [m |-> s.m, done |-> 0, left |-> 0, buf |-> <<>>, err |-> -1]
  IN  IF offs = NONE
      THEN [m |-> q, done |-> 0, left |-> count, buf |-> <<>>, err |-> 0]
      ELSE IF ~write THEN done(a)
      ELSE IF ~fill THEN done([a EXCEPT !.f.dirty = TRUE])
      ELSE flushed(flushCache(a))

\* When no sector can be had after a head was done, the code returns the length of
\* the head, a short count, and leaves position and size; err marks it all the same.
wholeSectors(r, v, write) ==
  LET sectors == r.left \div SECTOR_SIZE
      moved(rw) ==
        LET a == [rw.m EXCEPT !.f.cacheOffset = NONE]
        IN  IF rw.ret < 0
            THEN [r EXCEPT !.m = IF write /\ a.f.eof THEN a
                                 ELSE [a EXCEPT !.f.position = @ + r.done], !.err = -1]
            ELSE [r EXCEPT !.m = a, !.done = @ + rw.ret * SECTOR_SIZE,
                           !.left = IF rw.ret < sectors THEN 0 ELSE @ % SECTOR_SIZE,
                           !.buf = IF write THEN @
                                   ELSE @ \o SubSeq(rw.buf, 1, rw.ret * SECTOR_SIZE)]
  IN  IF r.err # 0 \/ sectors = 0 THEN r
      ELSE moved(readWrite(r.m, sectors, [i \in 1..(sectors * SECTOR_SIZE) |-> v], write))

tailBytes(r, v, write) ==
  LET at   == r.m.f.position + r.done
      back == write /\ at < r.m.f.size        \* copy back from disk
      bad(q) == [r EXCEPT !.m = [q EXCEPT !.f.position = at, !.f.cacheOffset = NONE],
                          !.err = -1]
      good(q, data) ==
        [r EXCEPT
           !.m = [q EXCEPT !.f.data = IF write THEN Put(data, 0, r.left, v) ELSE data,
                           !.f.dirty = IF write THEN TRUE ELSE @,
                           !.f.cacheOffset = r.left],
           !.done = @ + r.left, !.left = 0,
           !.buf = IF write THEN <<>> ELSE @ \o SubSeq(data, 1, r.left)]
      sought(s, data) == IF s.ok THEN good(s.m, data) ELSE bad(s.m)
      loaded(rd) == IF rd.ret < 1 THEN bad(rd.m)
                    ELSE IF back THEN sought(seek(rd.m, SectorOf(at)), rd.buf)
                    ELSE good(rd.m, rd.buf)
  IN  IF r.err # 0 \/ r.left = 0 THEN r
      ELSE IF back \/ ~write THEN loaded(readWrite(r.m, 1, <<>>, FALSE))
      ELSE good(r.m, r.m.f.data)

fileReadWrite(q, count, v, write) ==
  LET rest == q.f.size - q.f.position
      n == IF ~write /\ count > rest THEN rest ELSE count
      ended(r) ==
        LET p == r.m.f.position + r.done
        IN  IF r.err # 0 THEN r
            ELSE [r EXCEPT !.m.f.position = p,
                           !.m.f.size = IF write /\ p > @ THEN p ELSE @]
  IN  ended(tailBytes(wholeSectors(headBytes(q, n, v, write), v, write), v, write))

-----------------------------------------------------------------------------
(* The calls. *)

\* fat_fileTruncate
fileTruncate(q, size) ==
  LET sought(s) == IF ~s.ok THEN s
                   ELSE [m  |-> [s.m EXCEPT !.vol = truncateChain(@, s.m.f.lastcluster),
                                            !.f.size = size],
                         ok |-> TRUE]
  IN  sought(seek(q, (size + SECTOR_SIZE - 1) \div SECTOR_SIZE))

\* fat_closeWrite, with fat_updateShortEntry
closeWrite(q) ==
  LET f == q.f
      a == IF f.size = 0 /\ f.firstcluster # 0
           THEN [q EXCEPT !.vol = updateFatEntry(@, f.firstcluster, FREE),
                          !.f.firstcluster = 0]
           ELSE q
  IN  [a EXCEPT !.dent = [first |-> a.f.firstcluster, size |-> f.size]]

\* fsync of a file opened for writing
sync(q) ==
  LET flushed(s) == IF s.ok /\ trunc THEN fileTruncate(s.m, s.m.f.size) ELSE s
      written(s) == IF s.ok THEN [m |-> closeWrite(s.m), ok |-> TRUE] ELSE s
  IN  written(flushed(IF q.f.dirty THEN flushCache(q) ELSE [m |-> q, ok |-> TRUE]))

\* fat_fileOpen
fileOpen(q) ==
  [q EXCEPT !.f = [Start(q.f, q.f.storage_location) EXCEPT
                     !.firstcluster = q.f.storage_location,
                     !.cacheOffset = NONE, !.position = 0, !.dirty = FALSE]]

Init ==
  /\ others \in Layouts
  /\ m = [vol  |-> [fat |-> [c \in Clusters |-> IF c \in others THEN EOF_MARK ELSE FREE],
                    nextfree |-> 2, freecount |-> NClusters - Cardinality(others)],
          disk |-> [s \in Sectors |-> [i \in 1..SECTOR_SIZE |-> JUNK]],
          dent |-> [first |-> 0, size |-> 0],
          f    |-> [firstcluster |-> 0, lastcluster |-> 0, lastsector |-> 0,
                    clusternum |-> 0, sectornum |-> 0, eof |-> FALSE, size |-> 0,
                    storage_location |-> 0, position |-> 0, dirty |-> FALSE,
                    data |-> [i \in 1..SECTOR_SIZE |-> JUNK], cacheOffset |-> NONE]]
  /\ phase = "closed" /\ trunc = FALSE /\ unsynced = FALSE

\* What the callers of this code keep to; the README says what the code does
\* to a caller that does not.
\* Nobody reads back what it has written before it is synced.
ReadsWhatIsSynced == ~unsynced
\* An existing file that is emptied is written to before it is synced.
NotEmptied == m.f.size > 0 \/ (m.f.storage_location = 0 /\ ~m.f.dirty)
\* A file opened with O_TRUNC is synced at its end.
SyncsAtEnd == trunc => m.f.position = m.f.size

open(flags) ==
  LET a == fileOpen(m)
      t == fileTruncate(a, 0)
      b == IF "O_TRUNC" \in flags THEN t.m ELSE a
  IN  /\ phase = "closed"
      /\ trunc' = ("O_TRUNC" \in flags)
      /\ unsynced' = FALSE
      \* with O_APPEND the position lseek returns is taken for an error
      /\ IF "O_APPEND" \in flags /\ b.f.size > 0
         THEN m' = fileSeek(b, b.f.size).m /\ phase' = "closed"
         ELSE m' = b /\ phase' = "open"

write(n, v) ==
  LET r == fileReadWrite(m, n, v, TRUE)
  IN  /\ phase = "open" /\ m.f.position + n <= MaxSize
      /\ m' = r.m
      /\ phase' = IF r.err = 0 THEN "open" ELSE "failed"
      /\ unsynced' = TRUE
      /\ UNCHANGED trunc

read(n) ==
  /\ phase = "open" /\ ReadsWhatIsSynced
  /\ m' = fileReadWrite(m, n, JUNK, FALSE).m
  /\ UNCHANGED <<phase, trunc, unsynced>>

lseek(pos) ==
  LET s == fileSeek(m, pos)
  IN  /\ phase = "open" /\ pos <= m.f.size /\ pos # m.f.position
      /\ m' = IF s.ok THEN [s.m EXCEPT !.f.position = pos] ELSE s.m
      /\ phase' = IF s.ok THEN "open" ELSE "failed"
      /\ UNCHANGED <<trunc, unsynced>>

\* truncate(fd, lseek(fd, 0, SEEK_CUR)), the only way it is called
truncate ==
  /\ phase = "open"
  /\ m' = fileTruncate(m, m.f.position).m
  /\ unsynced' = TRUE
  /\ UNCHANGED <<phase, trunc>>

fsync ==
  LET s == sync(m)
  IN  /\ phase = "open" /\ NotEmptied /\ SyncsAtEnd
      /\ m' = s.m
      /\ phase' = IF s.ok THEN "open" ELSE "failed"
      /\ unsynced' = IF s.ok THEN FALSE ELSE unsynced
      /\ UNCHANGED trunc

\* close does not look at what fsync returned
close ==
  LET s == sync(m)
  IN  /\ phase \in {"open", "failed"} /\ NotEmptied
      /\ m' = s.m
      /\ phase' = IF s.ok /\ phase = "open" THEN "closed" ELSE "lost"
      /\ unsynced' = FALSE
      /\ UNCHANGED trunc

Call ==
  \/ \E flags \in {{}, {"O_TRUNC"}, {"O_APPEND"}} : open(flags)
  \/ \E n \in 1..MaxCall : read(n) \/ \E v \in Byte : write(n, v)
  \/ \E pos \in 0..MaxSize : lseek(pos)
  \/ truncate \/ fsync \/ close

Next == Call /\ UNCHANGED others

Spec == Init /\ [][Next]_vars

-----------------------------------------------------------------------------
(* What holds. *)

\* Byte i of the file: in the cache while its sector waits there, else where
\* the table leads from the first cluster the entry e names.
ByteAt(e, i) ==
  LET k == SectorOf(i - 1)
      c == ChainAt(m.vol.fat, e.first)[k \div SecPerClus]
      data == IF m.f.dirty /\ k = SectorOf(m.f.position) THEN m.f.data
              ELSE IF c = 0 THEN [j \in 1..SECTOR_SIZE |-> JUNK]
              ELSE m.disk[cluster2Sec(c) + (k % SecPerClus)]
  IN  data[((i - 1) % SECTOR_SIZE) + 1]

\* A closed file is what its directory entry, read after a reboot, says.
Content ==
  LET e == IF phase = "closed" THEN m.dent
           ELSE [first |-> m.f.firstcluster, size |-> m.f.size]
  IN  [i \in 1..e.size |-> ByteAt(e, i)]

\* The file is a sequence of bytes with a position: the sector cache, the
\* cursor and the growth of the chain do not show, a call that finds the
\* volume full leaves what is before the position, and what close wrote is
\* what the directory entry on the disk leads to (fat.c, vfs_fops.c).
File == INSTANCE ByteFile WITH
          content <- Content, phase <- phase,
          pos <- IF phase = "closed" THEN 0 ELSE m.f.position
ImplementsFile == File!Spec

\* Whatever read is asked for now, the caller gets the bytes that follow the
\* position, from the cache, whole sectors and a tail (fat_fileReadWrite).
ReadsTrue ==
  phase = "open" /\ ReadsWhatIsSynced =>
    \A n \in 1..MaxCall :
      LET r == fileReadWrite(m, n, JUNK, FALSE)
          p == m.f.position
      IN  r.buf = SubSeq(Content, p + 1, IF p + n > m.f.size THEN m.f.size ELSE p + n)

\* Nothing outside the clusters of this file is written or freed, also by
\* calls that find the volume full and by the close that follows them: the
\* sectors before the data area and those of the other files stay as they
\* were (fat_readWrite, fat_nextWriteCluster, fat_truncate).
OthersIntact ==
  /\ \A c \in others : m.vol.fat[c] = EOF_MARK
  /\ others \cap ChainOf(m.vol.fat, m.f.firstcluster) = {}
  /\ \A s \in Sectors :
       (s < FirstData \/ \E c \in others : s - cluster2Sec(c) \in 0..(SecPerClus - 1))
         => m.disk[s] = [i \in 1..SECTOR_SIZE |-> JUNK]

\* The values written are interchangeable.
ByteSymmetry == Permutations(Byte)
=============================================================================
