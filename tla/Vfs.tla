-------------------------------- MODULE Vfs --------------------------------
(***************************************************************************)
(* The tree of files and directories (kernel/fs/vfs*.c over fat.c), the    *)
(* volumes mounted in it (disk.c) and the compact flash card that comes    *)
(* and goes (driver/ext_module.c, cf_module.c).  Every entry of a loaded   *)
(* directory has a node; a node counts its children and its user in        *)
(* ref_cnt and cannot be removed before that is zero.  The card is         *)
(* mounted and unmounted by a timer of the tick, the hard disk by the      *)
(* shell when it hands the disk to a PC.                                   *)
(*                                                                         *)
(* fs is what the calls change.  A call is one action: the README says     *)
(* what this leaves out.  What is in a file is left out (see FatFile and   *)
(* Fat), and "." and ".." are two more references to their directory.      *)
(***************************************************************************)
EXTENDS Integers, Sequences, FiniteSets

CONSTANTS
  Names,       \* of files and directories
  CF_0,        \* the name of the card's mount point
  NULL,
  MaxDirs,     \* bound: directories of a volume besides its root
  MAX_OPEN,
  MaxHeld      \* bound: files and directories open at once

ASSUME TreeAssumption ==
  /\ Names # {} /\ CF_0 \notin Names
  /\ NULL \notin Seq(Names \cup {CF_0})
  /\ MaxDirs \in Nat \ {0} /\ {MAX_OPEN, MaxHeld} \subseteq Nat

VARIABLES
  fs,                 \* see Init
  slot,               \* the module in the extension slot (hardware)
  remote,             \* FM_is_connected() || kFWIsConnected()
  connected_module,
  usbMode,
  held                \* ghost: what the callers have open

vars == <<fs, slot, remote, connected_module, usbMode, held>>

Disks   == {"HD", "CF"}
Modules == {"CF", "OTHER", "NONE"}
ROOT    == 0          \* the root directory of a volume; the others have a cluster
Dirs    == 0..MaxDirs

-----------------------------------------------------------------------------
(* The tree: vfs_node.c.  q is a value of fs.  A node is known by the     *)
(* path it was made at: there is one at a time.                           *)

Live(q)     == DOMAIN q.node
DotsOf(x)   == IF x.loaded /\ x.loc # ROOT THEN 2 ELSE 0
Named(q, d, name) == {n \in q.node[d].kids : q.node[n].name = name}

NewNode(name, kind, loc, disk) ==
  [kind |-> kind, name |-> name, parent |-> NULL, kids |-> {}, ref |-> 0,
   opened |-> FALSE, loaded |-> FALSE, loc |-> loc, disk |-> disk]

\* vfs_nodeAddChild of nodes that have just been allocated
Child(d, x) == Append(d, x.name)
addChildren(q, d, new) ==
  LET made   == {Child(d, x) : x \in new}
      at(k)  == [(CHOOSE x \in new : Child(d, x) = k) EXCEPT !.parent = d]
      parent == [q.node[d] EXCEPT !.kids = @ \cup made, !.ref = @ + Cardinality(new)]
  IN  [q EXCEPT !.node = [k \in Live(q) \cup made |->
                            IF k \in made THEN at(k) ELSE IF k = d THEN parent ELSE @[k]]]
addChild(q, d, x) == addChildren(q, d, {x})

\* The memory of some nodes is given back.
freeNodes(q, gone) == [q EXCEPT !.node = [k \in Live(q) \ gone |-> @[k]]]

\* Mutant: the parent keeps its reference to a node that is gone.
rmKeepsRef(q, n) ==
  LET d == q.node[n].parent
      a == IF d = NULL THEN q ELSE [q EXCEPT !.node[d].kids = @ \ {n}]
  IN  IF q.node[n].ref > 0 THEN q ELSE freeNodes(a, {n})

\* vfs_rmNodeFromTree
rmNodeFromTree(q, n) ==
  LET d == q.node[n].parent
      a == IF d = NULL THEN q
           ELSE [q EXCEPT !.node[d].kids = @ \ {n}, !.node[d].ref = @ - 1]
  IN  IF q.node[n].ref > 0 THEN q ELSE freeNodes(a, {n})

\* fat_loadDir, if it has not been done: a node for every entry.
loadDir(q, d) ==
  LET x   == q.node[d]
      all == addChildren(q, d, {NewNode(e.name, e.kind, e.at, x.disk) : e \in q.dirs[x.disk][x.loc]})
      loaded == [all EXCEPT !.node[d].loaded = TRUE]
  IN  IF x.loaded THEN q
      ELSE [loaded EXCEPT !.node[d].ref = @ + DotsOf(loaded.node[d])]

\* vfs_nodeLookup from the root: n is the last node reached, left what was
\* not found of the path; bad when a file is used as a directory.
lookup(q, path) ==
  LET down(r, a, i) ==
        LET found == Named(a, r.n, path[i])
            n == CHOOSE k \in found : TRUE
        IN  IF found = {} THEN [r EXCEPT !.q = a]
            ELSE IF i < Len(path) /\ a.node[n].kind = "file"
            THEN [r EXCEPT !.q = a, !.bad = TRUE]
            ELSE [r EXCEPT !.q = a, !.n = n, !.left = @ - 1]
      step(r, i) == IF r.bad \/ r.left # Len(path) - i + 1 THEN r
                    ELSE down(r, loadDir(r.q, r.n), i)
      at[i \in 0..Len(path)] ==
        IF i = 0 THEN [q |-> q, n |-> q.mount["HD"], left |-> Len(path), bad |-> FALSE]
        ELSE step(at[i - 1], i)
  IN  at[Len(path)]

\* The nodes under n.
Below(q, n) ==
  LET at[i \in 0..3] ==
        IF i = 0 THEN q.node[n].kids
        ELSE at[i - 1] \cup UNION {q.node[k].kids : k \in at[i - 1] \cap Live(q)}
  IN  at[3]

\* vfs_clearNodeTree: the loop does not end when something under n keeps a
\* reference after its own children (and dots) are gone.
clearNodeTree(q, n) ==
  LET b == Below(q, n)
      stuck == \E k \in b : q.node[k].ref # Cardinality(q.node[k].kids) + DotsOf(q.node[k])
      a     == [q EXCEPT !.node[n].kids = {}, !.node[n].ref = @ - Cardinality(q.node[n].kids)]
  IN  IF stuck THEN [q EXCEPT !.hung = TRUE] ELSE freeNodes(a, b)

-----------------------------------------------------------------------------
(* Files and directories: vfs_fops.c, vfs_dops.c, vfs_fsManip.c.  A call  *)
(* gives what it leaves of fs and the node it opened, NULL for an error.  *)

EntryOf(x) == [name |-> x.name, kind |-> x.kind, at |-> x.loc]

putEntry(q, d, e) == [q EXCEPT !.dirs[q.node[d].disk][q.node[d].loc] = @ \cup {e}]
rmEntry(q, n) ==
  LET d == q.node[q.node[n].parent]
  IN  [q EXCEPT !.dirs[d.disk][d.loc] = @ \ {EntryOf(q.node[n])}]

\* The end of open and of opendir: the node is referenced and listed.
nodeOpened(q, n) ==
  [q |-> [q EXCEPT !.node[n].opened = TRUE, !.node[n].ref = @ + 1,
                   !.opened[q.node[n].disk] = @ \cup {n}], fd |-> n]

\* Mutant: when there is no cache for a new file its node is removed again.
openCleansUp(q, path, create) ==
  LET refused(a) == [q |-> a, fd |-> NULL]
      take(a, n, b) == IF a.used = MAX_OPEN THEN refused(b)
                       ELSE nodeOpened([a EXCEPT !.used = @ + 1], n)
      made(a, n) == take(a, n, rmNodeFromTree(a, n))
      found(r) ==
        LET x == NewNode(path[Len(path)], "file", 0, r.q.node[r.n].disk)
        IN  IF r.bad \/ r.left > 1 \/ (r.left = 1 /\ ~create) THEN refused(r.q)
            ELSE IF r.left = 1
            THEN made(addChild(putEntry(r.q, r.n, EntryOf(x)), r.n, x), Child(r.n, x))
            ELSE IF r.q.node[r.n].opened \/ r.q.node[r.n].kind = "dir" THEN refused(r.q)
            ELSE take(r.q, r.n, r.q)
  IN  found(lookup(q, path))

\* fat_fileOpen: an opened file takes one of the sector caches.
fat_fileOpen(q, n) ==
  IF q.used = MAX_OPEN THEN [q |-> q, fd |-> NULL]
  ELSE nodeOpened([q EXCEPT !.used = @ + 1], n)

\* open, with fat_createFile
openFile(q, path, create) ==
  LET found(r) ==
        LET x == NewNode(path[Len(path)], "file", 0, r.q.node[r.n].disk)
        IN  IF r.bad \/ r.left > 1 \/ (r.left = 1 /\ ~create) THEN [q |-> r.q, fd |-> NULL]
            ELSE IF r.left = 1
            THEN fat_fileOpen(addChild(putEntry(r.q, r.n, EntryOf(x)), r.n, x), Child(r.n, x))
            ELSE IF r.q.node[r.n].opened \/ r.q.node[r.n].kind = "dir"
            THEN [q |-> r.q, fd |-> NULL]
            ELSE fat_fileOpen(r.q, r.n)
  IN  found(lookup(q, path))

\* opendir
openDir(q, path) ==
  LET found(r) ==
        LET x == r.q.node[r.n]
        IN  IF r.bad \/ r.left > 0 \/ x.opened \/ x.kind = "file"
            THEN [q |-> r.q, fd |-> NULL]
            ELSE nodeOpened(loadDir(r.q, r.n), r.n)
  IN  found(lookup(q, path))

\* close and closedir, with fat_fileClose
closeNode(q, n) ==
  [q EXCEPT !.node[n].opened = FALSE, !.node[n].ref = @ - 1,
            !.opened[q.node[n].disk] = @ \ {n},
            !.used = IF q.node[n].kind = "file" THEN @ - 1 ELSE @]

\* rmfile, with fat_fileRemove
removeFile(q, path) ==
  LET opened(o) ==
        IF o.fd = NULL THEN o.q
        ELSE rmNodeFromTree(closeNode(rmEntry(o.q, o.fd), o.fd), o.fd)
  IN  opened(openFile(q, path, FALSE))

\* mkdir, with fat_createDir
FreeDirs(q, disk) ==
  Dirs \ ({ROOT} \cup {e.at : e \in UNION {q.dirs[disk][d] : d \in Dirs}})
makeDir(q, path) ==
  LET name == path[Len(path)]
      opened(o) ==
        LET disk == o.q.node[o.fd].disk
            at   == CHOOSE d \in FreeDirs(o.q, disk) : TRUE
            x    == [NewNode(name, "dir", at, disk) EXCEPT !.loaded = TRUE, !.ref = 2]
            a    == addChild(putEntry(o.q, o.fd, EntryOf(x)), o.fd, x)
        IN  IF o.fd = NULL THEN o.q
            ELSE IF Named(o.q, o.fd, name) # {} THEN closeNode(o.q, o.fd)
            ELSE closeNode([a EXCEPT !.dirs[disk][at] = {}], o.fd)
  IN  opened(openDir(q, SubSeq(path, 1, Len(path) - 1)))

\* rmdir: the node stays, its "." and ".." are references to it.
removeDir(q, path) ==
  LET opened(o) ==
        LET x == o.q.node[o.fd]
            a == [rmEntry(o.q, o.fd) EXCEPT !.dirs[x.disk][x.loc] = {}]
        IN  IF o.fd = NULL THEN o.q
            ELSE IF x.kids # {} THEN closeNode(o.q, o.fd)
            ELSE rmNodeFromTree(closeNode(a, o.fd), o.fd)
  IN  opened(openDir(q, path))

\* mvfile, with mvEntry and fat_mvFileDir: a copy of the node is added.
moveFile(q, path, newpath) ==
  LET moved(o, p) ==
        LET x == [o.q.node[o.fd] EXCEPT !.name = newpath[Len(newpath)], !.opened = FALSE,
                                        !.ref = @ - 1]
            a == addChild(putEntry(p.q, p.fd, EntryOf(x)), p.fd, x)
            b == closeNode(closeNode(rmEntry(a, o.fd), p.fd), o.fd)
        IN  IF p.fd = NULL THEN closeNode(p.q, o.fd)
            ELSE rmNodeFromTree([b EXCEPT !.node[o.fd].ref = 0], o.fd)
      opened(o) == IF o.fd = NULL THEN o.q
                   ELSE moved(o, openDir(o.q, SubSeq(newpath, 1, Len(newpath) - 1)))
      isDir(r) == ~r.bad /\ r.left = 0 /\ r.q.node[r.n].kind = "dir" /\ ~r.q.node[r.n].opened
      tested(t) == IF t.fd # NULL THEN closeNode(t.q, t.fd)
                   ELSE IF isDir(lookup(q, newpath)) THEN t.q
                   ELSE opened(openFile(t.q, path, FALSE))
  IN  tested(openFile(q, newpath, FALSE))

-----------------------------------------------------------------------------
(* Volumes: disk.c and vfs.c. *)

\* vfs_mount, with fat_mount; it fails when the name is taken.
mount(q, disk) ==
  LET x == NewNode(CF_0, "dir", ROOT, disk)
      n == IF disk = "HD" THEN <<>> ELSE Child(q.mount["HD"], x)
      taken == disk = "CF" /\ Named(q, q.mount["HD"], CF_0) # {}
      a == IF disk = "HD" THEN [q EXCEPT !.node = [k \in {n} |-> x]] ELSE addChild(q, q.mount["HD"], x)
  IN  IF taken THEN q
      ELSE loadDir([a EXCEPT !.mount[disk] = n, !.opened[disk] = {},
                             !.mounted = @ \cup {disk}], n)

\* Mutant: the root node is left in the tree.
umountKeepsRoot(q, disk) ==
  LET cleared(a) == IF a.hung THEN a
                    ELSE [a EXCEPT !.mount[disk] = NULL, !.opened[disk] = {}]
  IN  IF q.mount[disk] = NULL THEN q ELSE cleared(clearNodeTree(q, q.mount[disk]))

\* vfs_umount: the root node is removed if it can be, the mount point is gone.
umount(q, disk) ==
  LET root == q.mount[disk]
      cleared(a) == IF a.hung THEN a
                    ELSE [rmNodeFromTree(a, root) EXCEPT !.mount[disk] = NULL,
                                                         !.opened[disk] = {}]
  IN  IF root = NULL THEN q ELSE cleared(clearNodeTree(q, root))

\* disk_rm
disk_rm(q, disk) ==
  LET umounted(a) == IF a.hung THEN a
                     ELSE [a EXCEPT !.info = @ \ {disk}, !.mounted = @ \ {disk}]
  IN  IF disk \notin q.info THEN q
      ELSE umounted(IF disk \in q.mounted THEN umount(q, disk) ELSE q)

\* disk_add, there being a disk to read; it looks at the partitions of the
\* hard disk whichever disk it adds.
disk_add(q, disk, there) ==
  LET removed(a) ==
        IF a.hung \/ ~there THEN a
        ELSE IF "HD" \notin a.info \cup {disk} THEN [a EXCEPT !.hung = TRUE]
        ELSE mount([a EXCEPT !.info = @ \cup {disk}], disk)
  IN  removed(IF disk \in q.info THEN disk_rm(q, disk) ELSE q)

\* disk_addAll, disk_rmAll
disk_addAll(q) ==
  LET added(a) == IF connected_module = "CF" THEN disk_add(a, "CF", slot = "CF") ELSE a
  IN  added(disk_add(q, "HD", TRUE))
disk_rmAll(q) ==
  LET removed(a) == IF a.hung THEN a ELSE disk_rm(a, "HD")
  IN  removed(IF connected_module = "CF" THEN disk_rm(q, "CF") ELSE q)

-----------------------------------------------------------------------------
(* The callers, the user and the tick. *)

Paths == {<<>>} \cup {<<a>> : a \in Names \cup {CF_0}}
                \cup {<<a, b>> : a \in Names \cup {CF_0}, b \in Names}
OnCard(path) == path # <<>> /\ path[1] = CF_0

\* What may be on a volume: nothing, a file, or a directory with a file.
SomeName == CHOOSE n \in Names : TRUE
SomeFile == [name |-> SomeName, kind |-> "file", at |-> ROOT]
SomeDir  == [name |-> SomeName, kind |-> "dir", at |-> 1]
Layouts ==
  {[d \in Dirs |-> {}], [d \in Dirs |-> IF d = ROOT THEN {SomeFile} ELSE {}],
   [d \in Dirs |-> IF d = ROOT THEN {SomeDir} ELSE IF d = 1 THEN {SomeFile} ELSE {}]}

Blank(layout) ==
  [node |-> <<>>, mount |-> [d \in Disks |-> NULL],
   opened |-> [d \in Disks |-> {}],        \* opened_node of the mount points
   info |-> {}, mounted |-> {},            \* disk_info and its mounted flags
   used |-> 0,                             \* sector caches in use (cache_list)
   dirs |-> [d \in Disks |-> layout],      \* what is on the volumes
   hung |-> FALSE]                         \* a loop without end, or a bad pointer

Init ==
  /\ slot = "NONE" /\ remote = FALSE /\ connected_module = slot /\ usbMode = FALSE
  /\ held = {}
  /\ \E layout \in Layouts : fs = disk_add(Blank(layout), "HD", TRUE)

Working == ~fs.hung /\ ~usbMode
Rest    == UNCHANGED <<slot, remote, connected_module, usbMode>>

\* What the callers and the user keep to; the README says what the code does
\* otherwise.  A card that is used is not pulled out, and one that is out is
\* not used before it is unmounted;
CardRests == fs.opened["CF"] = {}
CardIn(path) == OnCard(path) => slot = "CF"
\* nothing is done to a directory after it was removed;
Gone(n) == LET x == fs.node[n]
           IN  /\ n \in Live(fs) /\ x.kind = "dir" /\ x.loc # ROOT
               /\ EntryOf(x) \notin fs.dirs[x.disk][fs.node[x.parent].loc]
Plain(path) == \A i \in 0..Len(path) : ~Gone(lookup(fs, SubSeq(path, 1, i)).n)
\* mount points are not removed, made or moved;
Ordinary(path) == path # <<>> /\ path[Len(path)] # CF_0
\* a file is moved within its volume, and not to the name of an open one.
MayMove(path, newpath) ==
  /\ Working /\ OnCard(path) = OnCard(newpath) /\ path # newpath
  /\ LET r == lookup(fs, newpath) IN r.left = 0 => ~r.q.node[r.n].opened

Callable(path) == Working /\ CardIn(path) /\ Plain(path)

open(path, create) ==
  LET o == openFile(fs, path, create)
  IN  /\ Ordinary(path) /\ Callable(path)
      /\ fs' = o.q /\ held' = held \cup ({o.fd} \ {NULL}) /\ Rest
      /\ Cardinality(held') <= MaxHeld

opendir(path) ==
  LET o == openDir(fs, path)
  IN  /\ Callable(path)
      /\ fs' = o.q /\ held' = held \cup ({o.fd} \ {NULL}) /\ Rest
      /\ Cardinality(held') <= MaxHeld

close(n) ==
  /\ Working /\ n \in held
  /\ fs' = closeNode(fs, n) /\ held' = held \ {n} /\ Rest

rmfile(path) ==
  /\ Ordinary(path) /\ Callable(path)
  /\ fs' = removeFile(fs, path) /\ UNCHANGED held /\ Rest

mkdir(path) ==
  /\ Ordinary(path) /\ Callable(path)
  /\ FreeDirs(fs, IF OnCard(path) THEN "CF" ELSE "HD") # {}
  /\ fs' = makeDir(fs, path) /\ UNCHANGED held /\ Rest

rmdir(path) ==
  /\ Ordinary(path) /\ Callable(path)
  /\ fs' = removeDir(fs, path) /\ UNCHANGED held /\ Rest

mvfile(path, newpath) ==
  /\ Ordinary(path) /\ Ordinary(newpath) /\ MayMove(path, newpath)
  /\ Callable(path) /\ Callable(newpath)
  /\ fs' = moveFile(fs, path, newpath) /\ UNCHANGED held /\ Rest

\* The module in the slot is pulled out, or one is put in; between two the
\* slot is seen empty by the tick.
Swap(module, layout) ==
  /\ Working /\ CardRests
  /\ module # slot /\ "NONE" \in {module, slot}
  /\ slot = "NONE" => connected_module = "NONE"
  /\ slot' = module
  /\ fs' = IF module = "CF" THEN [fs EXCEPT !.dirs["CF"] = layout] ELSE fs
  /\ UNCHANGED <<remote, connected_module, usbMode, held>>

Remote == /\ Working /\ remote' = ~remote
          /\ UNCHANGED <<fs, slot, connected_module, usbMode, held>>

\* Mutant: the module is noted as connected also when it cannot be used.
changeNotesAll ==
  /\ connected_module' = slot
  /\ fs' = IF ~remote /\ slot = "CF" THEN disk_add(fs, "CF", TRUE)
           ELSE IF (remote \/ slot = "NONE") /\ connected_module = "CF" THEN disk_rm(fs, "CF")
           ELSE fs

\* process_ext_mod_chg, with cf_connected and cf_disconnected
process_ext_mod_chg ==
  /\ connected_module' = IF remote THEN "NONE" ELSE slot
  /\ fs' = IF ~remote /\ slot = "CF" THEN disk_add(fs, "CF", TRUE)
           ELSE IF (remote \/ slot = "NONE") /\ connected_module = "CF" THEN disk_rm(fs, "CF")
           ELSE fs

\* extModule_Chk, every second of the tick
extModule_Chk ==
  /\ Working /\ slot # connected_module
  /\ process_ext_mod_chg
  /\ UNCHANGED <<slot, remote, usbMode, held>>

\* The shell hands the disk to the PC (intCmd_doUsbMode) when all is closed,
\* and nobody touches the slot until it comes back.
UsbOn ==
  /\ Working /\ held = {}
  /\ slot = connected_module \/ (remote /\ connected_module = "NONE")
  /\ fs' = disk_rmAll(fs) /\ usbMode' = TRUE
  /\ UNCHANGED <<slot, remote, connected_module, held>>

\* vfs_init and disk_addAll; the PC may have written to the disk.
UsbOff(layout) ==
  /\ ~fs.hung /\ usbMode /\ usbMode' = FALSE
  /\ fs' = disk_addAll([fs EXCEPT !.dirs["HD"] = layout, !.mount = [d \in Disks |-> NULL]])
  /\ UNCHANGED <<slot, remote, connected_module, held>>

Next ==
  \/ \E path \in Paths :
       \/ opendir(path) \/ rmfile(path) \/ mkdir(path) \/ rmdir(path)
       \/ \E create \in BOOLEAN : open(path, create)
       \/ \E newpath \in Paths : mvfile(path, newpath)
  \/ \E n \in held : close(n)
  \/ \E module \in Modules, layout \in Layouts : Swap(module, layout)
  \/ Remote \/ extModule_Chk
  \/ UsbOn \/ \E layout \in Layouts : UsbOff(layout)

\* The timer of the check runs freely.
Spec == Init /\ [][Next]_vars /\ WF_vars(extModule_Chk)

-----------------------------------------------------------------------------
(* What holds. *)

Nodes == Live(fs)

\* A node is removed when and only when nothing needs it: ref_cnt is the
\* number of its children and of its users, over every path of open, mkdir,
\* rmfile, rmdir and mvfile that gives up half way.  Else unmounting loops.
RefExact ==
  \A n \in Nodes :
    LET x == fs.node[n]
    IN  /\ x.ref = Cardinality(x.kids) + DotsOf(x) + (IF x.opened THEN 1 ELSE 0)
        /\ x.kids = {k \in Nodes : fs.node[k].parent = n}

\* What the tree shows of a directory that was loaded is what is on the
\* volume, after any calls and after any change of cards (fat_loadDir,
\* fat_addDirEntry, fat_freeDirEntries, vfs_rmNodeFromTree).
Mirrors ==
  \A n \in Nodes :
    LET x == fs.node[n]
        kids == {k \in x.kids : k # fs.mount["CF"] /\ ~Gone(k)}
    IN  x.loaded /\ ~Gone(n) =>
          /\ {EntryOf(fs.node[k]) : k \in kids} = fs.dirs[x.disk][x.loc]
          /\ Cardinality(kids) = Cardinality(fs.dirs[x.disk][x.loc])

\* No node is lost and none is left of a volume that is gone: all are under
\* the root, each on a volume that is mounted; what the callers hold is open
\* and listed where vfs_hasOpenNode looks, and nothing else is.
NothingDangles ==
  /\ Nodes = IF fs.mount["HD"] = NULL THEN {}
             ELSE {fs.mount["HD"]} \cup Below(fs, fs.mount["HD"])
  /\ \A n \in Nodes : fs.mount[fs.node[n].disk] # NULL
  /\ held = {n \in Nodes : fs.node[n].opened}
  /\ \A d \in Disks : fs.opened[d] = {n \in held : fs.node[n].disk = d}
  /\ fs.used = Cardinality({n \in held : fs.node[n].kind = "file"})

\* A card that stays in is mounted in the end, one that is out is unmounted,
\* and the tick never hangs in a loop over the tree (process_ext_mod_chg,
\* disk_add, vfs_clearNodeTree).
CardShown ==
  /\ (slot = "CF" /\ ~remote /\ ~usbMode)
       ~> (fs.mount["CF"] # NULL \/ slot # "CF" \/ remote \/ usbMode)
  /\ (slot = "NONE") ~> ((fs.mount["CF"] = NULL /\ ~fs.hung) \/ slot # "NONE")
=============================================================================
