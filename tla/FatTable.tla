------------------------------ MODULE FatTable ------------------------------
(***************************************************************************)
(* The file allocation table as kernel/fs/fat_lowLevel.c reads and writes  *)
(* it.  A volume is a record: the entries of the table, and the two fields *)
(* of fsinfo, nextfree (where the search for a free cluster starts) and    *)
(* freecount.  Clusters are numbered from 2; entries 0 and 1 are reserved. *)
(***************************************************************************)
EXTENDS Integers, FiniteSets

CONSTANTS
  NClusters,           \* dataclusters of the bpb
  ClustersPerSector,   \* CLUSTERS_PER_FAT_SECTOR
  SecPerClus           \* bpb_secperclus

ASSUME TableAssumption ==
  {NClusters, ClustersPerSector, SecPerClus} \subseteq Nat \ {0}

Clusters  == 2..(NClusters + 1)
FREE      == 0
EOF_MARK  == NClusters + 2
Entry     == {FREE, EOF_MARK} \cup Clusters
Table     == [Clusters -> Entry]

FatSector(c) == c \div ClustersPerSector
FatSize      == FatSector(NClusters + 1) + 1
FatSectors   == 0..(FatSize - 1)

FreeClusters(fat) == {c \in Clusters : fat[c] = FREE}

\* fat_cluster2Sec, with the data area starting after FirstData sectors.
FirstData == 2 * SecPerClus + 1
cluster2Sec(c) == (c - 2) * SecPerClus + FirstData

\* fat_getNextCluster: 0 at the end of a chain; entry 0 of the table holds
\* the media mark, which is no cluster either.
getNextCluster(fat, c) ==
  IF c \notin Clusters \/ fat[c] = EOF_MARK THEN 0 ELSE fat[c]

\* fat_findFreeCluster: the sectors of the table from the one of start on,
\* each searched round from where the search enters it.
SearchRank(start, c) ==
  LET i      == (FatSector(c) - FatSector(start)) % FatSize
      offset == IF i = 0 THEN start % ClustersPerSector ELSE 0
  IN  i * ClustersPerSector + ((c - offset) % ClustersPerSector)
\* Mutant: the cluster the search starts from is taken without a look.
findFreeHere(fat, start) ==
  IF FreeClusters(fat) = {} THEN 0 ELSE IF start \in Clusters THEN start ELSE 2
findFreeCluster(fat, start) ==
  IF FreeClusters(fat) = {} THEN 0
  ELSE CHOOSE c \in FreeClusters(fat) :
         \A d \in FreeClusters(fat) : SearchRank(start, c) <= SearchRank(start, d)

\* Mutant: an entry that is in use is counted again when it changes.
updateCountsTwice(vol, c, val) ==
  [vol EXCEPT !.fat[c] = val, !.freecount = IF val # FREE THEN @ - 1 ELSE @ + 1]

\* fat_updateFatEntry with its bookkeeping of freecount.
updateFatEntry(vol, c, val) ==
  [vol EXCEPT
     !.fat[c] = val,
     !.freecount = IF val # FREE /\ vol.fat[c] = FREE /\ @ > 0 THEN @ - 1
                   ELSE IF val = FREE /\ vol.fat[c] # FREE THEN @ + 1
                   ELSE @]

\* The free cluster new (0: there is none) is linked in after old.
linkCluster(vol, first, old, new) ==
  LET used == [vol EXCEPT !.nextfree = new]
      tied == IF old = 0 THEN used ELSE updateFatEntry(used, old, new)
  IN  IF new = 0 THEN [vol |-> vol, first |-> first, cluster |-> 0]
      ELSE [vol |-> updateFatEntry(tied, new, EOF_MARK),
            first |-> IF old = 0 THEN new ELSE first, cluster |-> new]

\* fat_nextWriteCluster after cluster old of a file whose chain starts at
\* first: the cluster the chain has there, or a free one that is linked in.
\* 0 when the volume is full.
nextWriteCluster(vol, first, old) ==
  LET next == getNextCluster(vol.fat, old)
  IN  IF next # 0 THEN [vol |-> vol, first |-> first, cluster |-> next]
      ELSE linkCluster(vol, first, old,
             findFreeCluster(vol.fat, IF old # 0 THEN old + 1 ELSE vol.nextfree))

\* The n-th cluster of the chain that starts at first (0: there is none).
ChainAt(fat, first) ==
  LET at[n \in 0..NClusters] ==
        IF n = 0 THEN first ELSE getNextCluster(fat, at[n - 1])
  IN  at
ChainOf(fat, first) ==
  {ChainAt(fat, first)[n] : n \in 0..(NClusters - 1)} \ {0}

\* fat_truncate: the clusters after last are freed, last ends the chain.
truncateChain(vol, last) ==
  LET cut  == ChainOf(vol.fat, getNextCluster(vol.fat, last))
      free == [vol EXCEPT !.fat = [c \in Clusters |-> IF c \in cut THEN FREE ELSE @[c]],
                          !.freecount = @ + Cardinality(cut)]
  IN  IF last = 0 THEN free ELSE updateFatEntry(free, last, EOF_MARK)
=============================================================================
