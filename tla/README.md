# A TLA+ model of the MediOS kernel

MediOS is a small operating system for the Archos AV and Gmini players: one ARM
processor, one address space, preemption by a 100 Hz tick, a heap, software
timers, event queues, a FAT file system on an ATA disk that powers itself down,
and a graphical shell that loads programs ("MEDs").  This directory models its
kernel, `src/mediOS/code/mediOS/kernel` (below: `K`), checks the models with TLC
and proves theorems about them with TLAPS.

## 1. The system

| Part | Files | State | Operations | Interaction |
|---|---|---|---|---|
| Thread ring | `K/core/thread.c` | `nxt`, `prev`, `threadCurrent` | `thread_insert`, `thread_remove`, `thread_findPid` | everything that names a thread |
| Scheduler | `K/core/thread.c`, `trap.S` | `enable`, `priority`, `idleCnt`, `threadSysStack`, saved stacks, I bit | `thread_nxt`, `yield`, `THREAD_PAUSE`, create, start, exit, kill, enable, disable, nice | called from the tick and by `swi` |
| Command line | `K/core/cmd_line*.c`, `uart.c` | editing buffer, UART | read loop, commands | wakes by interrupt, acts on threads |
| Heap | `K/core/malloc.c` and the resource lists of `thread.c` | block list, free list, owner lists | `malloc`, `kmalloc`, `realloc`, `free`, `kfree` | every buffer is freed when its owner ends |
| Timers | `K/core/timer.c` | `tick`, list of `tmr_s` | `tmr_start`, `tmr_stop`, walk in the tick | actions run in the interrupt |
| Disk power, ATA | `K/driver/ata.c`, `bat_power.c`, `usb_fw.c` | `ata_stopping`, `hd_sleep_state`, `cur_disk`, two timers | `ata_rwData`, stop, sleep | thread against tick |
| Events | `K/core/evt.c`, `pipes.c` | table of handlers with ring buffers | register, send, read, purge, free | interrupts send, threads read |
| MED loader | `K/fs/med.c`, `bflat.c` | code buffer, arguments | load, relocate, start | heap and threads |
| Open files, FAT | `K/fs/fat.c`, `fat_lowLevel.c`, `vfs_fops.c` | sector cache and cursor of a file, cache of FAT sectors, fsinfo | open, read, write, lseek, truncate, fsync, close | sectors through ATA |
| Directory tree, volumes | `K/fs/vfs*.c`, `disk.c` | nodes with reference counts, mount points, `disk_info` | look-up, opendir, mkdir, rmdir, rmfile, mvfile, mount, unmount | FAT; called by threads, by the tick (cards) and by the shell (USB mode) |
| Extension slot | `K/driver/ext_module.c`, `cf_module.c` | `connected_module` | check every second in the tick | mounts and unmounts the card |
| Sound | `K/snd/` | playlist, mp3 buffer | play, refill, skip | DSP interrupt against thread |
| Buttons, remotes | `K/driver/*.c` | debounce counters, plug states | poll in the tick | send events |
| Shell | `K/gfx/gui/shell/` | its handler, `usbMode` | start MEDs, redraw, USB mode | sends its own redraw event, hands the disk to a PC |
| GUI | `K/gfx/` | lists, widgets, settings | draw, handle events | reads its handler |
| Library, chips, boot | `K/lib`, `K/driver`, `K/init`, `K/target` | little | pure functions, register accesses | - |

The other trees of the repository (`gravity`, `avlo`, emulators, earlier GUIs,
ported programs, `avOS`) are predecessors, host tools or third-party programs
and are left aside.

What is hard here: there is one processor but no lock anywhere.  A tick may
come between any two statements of a thread and either run timer actions, which
touch the same globals, or switch to another thread.  The code protects itself
with `__cli`/`__sti` in a few places only.  Every module therefore asks what
survives when the tick comes in the middle.  The file system is hard for another
reason: each call moves half a dozen fields that must agree (a cursor, a cache, a
position, a chain, a count, an entry on the disk), gives up in many places, and
is protected neither from a second thread nor from the tick that mounts cards
under it, nor from the loss of power.

## 2. The modules

| Module | Models | Notes |
|---|---|---|
| `Ring` | operators of the thread ring as a sequence | used by `ThreadRing`'s specification and by `Thread` |
| `RingSpec` | what the ring promises | abstract specification |
| `ThreadRing` | the linked list, with the preemptible `thread_findPid` | implements `RingSpec` (refinement `ringOf`) |
| `Thread` | scheduler, thread life, SYS stack area, command line thread, MED start and end | the core |
| `Heap` | `malloc.c`, the owner lists, their use by thread creation and end | |
| `Timer` | `timer.c` with a thread that starts timers | word width is a parameter |
| `DiskPower` | who powers the disk | |
| `EventQueue` | what a handler promises: a queue | abstract specification |
| `Evt` | `evt.c` over `pipes.c` | implements `EventQueue` |
| `FatTable` | operators of the file allocation table | used by `FatFile` and `Fat` |
| `ByteFile` | what an open file promises: bytes and a position | abstract specification |
| `FatFile` | one file: sector cache, cursor, chain, directory entry | implements `ByteFile` |
| `Fat` | the files of a volume, the cached FAT, loss of power | |
| `Vfs` | node tree, volumes, the card that comes and goes | |
| `ThreadRingProofs`, `ThreadProofs`, `HeapProofs`, `TimerProofs`, `DiskPowerProofs`, `EvtProofs`, `FatProofs`, `VfsProofs` | proofs | |

Operators whose comment begins "Mutant:" are variants of the definition that
follows, each a plausible bug; the runs are known to reject them.

### Ring, ThreadRing
The ring is read along `nxt` from `threadCurrent`.  A thread is named by its
pid; `nxt[t] = NULL` says that it is not in the ring.  Insert and remove run
with interrupts masked: one step each.  `thread_findPid` does not: each of its
iterations is a step, and threads join, leave and run in between.  Its end
condition, "back at `threadCurrent`", works because `threadCurrent` is the
caller again whenever the caller executes it.  A walk that stands on a thread
that ends stops in the model (in the code it reads freed memory; `thread_remove`
has set its links to NULL).

### Thread
An action is what the code does between two points where the tick may come.
`masked[t]` is the I bit of thread `t`: after `thread_startMed`'s `__cli` it stays
set until the caller is back.  `thread_nxt` is one operator, called with the
ring, the flags and `threadSysStack` as they are at the call.

The SYS stack: KERNEL and MEDs run on one stack area; a thread that is not on
it has its frames in `saveStack`.  `stackOf` is the thread whose frames really
are in the area and `saved[t]` tells whether `saveStack` is up to date: two ghosts
beside the code's own belief, `threadSysStack`.

A command on a pid finds the struct in one step (`FindPid`) and uses it in a
later one.  If the thread has ended by then the access is undefined: the model
records `fault` and follows the program no further.  So it does when pid 0 is
killed: KERNEL leaves the ring, and as all that `kmalloc` gave out is on KERNEL's
list, the structs and stacks of the other threads are freed with it.

`thread_startMed` does not stop when `thread_create` fails: it goes on with
`med_thread` unset, disables KERNEL and only then writes through the pointer.  The
same happens when the MED was killed since it was created.  `LaunchMed` has both: the
shell is disabled by the step that records the fault.

### Heap
A header field is a function of the address; sizes are negative while a block
is allocated, as in the code.  `Width` bits bound the arithmetic of the request.
`FreeList` and `OwnedBy` are what the loops of the code see: the addresses that the
links lead to (`Walk`).  The properties compare these walks with the headers.
A call is one step.  That is a limit of the model: the code does not mask
interrupts in `malloc`, and a tick in the middle lets another thread see a half
changed list.  A buffer may be freed only by who got it (`Private`): the code
does not detect a double free or a foreign pointer.

### Timer
`Effect` is the visit of a due timer, with the one start or stop its action
makes: which field is written before the action and which after it is what
matters.  The thread's start is four steps.  `due` and `on` are ghosts: the time
the timer was last told to expire, and whether it was started since.

### DiskPower
Time is what is left of the two timers.  The tick visits the stop timer, the
cable check and the inactivity timer in list order (`tmr_setup` puts the newest
first).  `Sleep` has no exit but the drive being ready: inside the interrupt the
tick does not count.  A disk without power answers nothing.

### Evt
An event is copied unit by unit; a unit is the event and the place in it.
`evt_send` in an interrupt is one step; the shell's own send loads and stores
`nIN` in separate steps.  The refinement mapping takes the bytes between `nOUT`
and `nIN` as the queue, leaving out those of the event that is being read or
written.  `broken` ends the promise: after an overrun (nobody looks for room)
or a second user in a pipe where a thread has written part of an event (`Mid`,
`Writing`), the code promises nothing, and the runs go no further (`Unbroken`).
Among those second users is `evt_getHandler` itself: it sets the mask of a struct
that a thread may be in the middle of writing to by the mask of its last owner.

### FatTable, ByteFile, FatFile
A volume is the entries of its table and two fields of fsinfo.  `FatFile` keeps in
`m` what the calls change: the table, every sector of the disk, the directory
entry, and the file's own struct (`fat_entry`, `vfs_node` and `file_cache` in one).
`readWrite` is the loop of `fat_readWrite`, sector by sector, with the runs of
neighbours it sends; `fileReadWrite` is head, whole sectors and tail.  A call is an
action.  All bytes of one write are equal: different writes can be told apart.
`Content` reads the file the way a fresh open would: along the chain, with the
dirty sector of the cache in place.  When the file is closed it starts from the
directory entry, so the refinement says that closing saves everything.

What the callers are taken to keep to, each with what the code does otherwise:

- `ReadsWhatIsSynced`: nobody reads back what is not synced.  Else the cached
  sector is lost or lands where the cursor is (fat.c:1208).
- `NotEmptied`: an existing file that was emptied is written before it is synced.
  Else its first cluster is freed while `storage_location` keeps it, and the next
  open writes into it (fat.c:549).
- `SyncsAtEnd`: a file opened with `O_TRUNC` is synced at its end.  Else the
  truncation of fsync leaves the cursor there (vfs_fops.c:196).
- after a call that failed the file is only closed, also after a write that
  returned a short count because the volume was full (fat.c:1225: it did a head, and
  moves neither position nor size, so that the count it returns is not what a next
  call goes on from; `FatFile` counts it as failed); `truncate` is called with the
  current position, as cfg_file.c:226 does.

### Fat
The calls compute what they leave in memory and a list of writes in their order;
`DiskWrite` makes one, `Crash` may come between any two and mounts what is on the
disk.  A sector of the table is written when its cache line is needed for another
(`cacheFatSector`) or by `flushFat`.  A cluster has one sector and data is left out.
`busy` and `damaged` are ghosts: the files a call in progress is about, and those
that were open or busy when the power went.  The code repairs nothing, so damaged
files are left alone afterwards.  A renamed file has size 0 in memory until its
directory is read again and is not opened before (`Settled`).

### Vfs
`fs` holds the nodes and the volumes.  A node has its children, its reference
count, and whether it is loaded and open; "." and ".." count as two references to
their directory, which is what they are.  The calls are functions of `fs`, composed
as in the code: `removeFile` opens the file, removes the entry, closes it and
removes the node, with every way out on the way.  `hung` stands for a loop without
end or a read through NULL; the run checks deadlock, so it shows that neither
happens.  The callers keep to this:

- `CardRests`, `CardIn`: a card is pulled when nothing on it is open and is not used
  between being pulled and being unmounted.  Else `vfs_clearNodeTree` loops in the
  tick (vfs.c:236); `addDir` of the playlist leaves a directory open
  (playlist.c:127), which is enough.
- `Plain`: nothing is done to a directory after its removal: its node stays, since
  its dots refer to it (vfs_fsManip.c:137).
- `MayMove`: a file is moved within its volume (else the parent stays open for good,
  vfs_fsManip.c:219) and not to the name of an open file (else there are two entries).
- the slot is seen empty between two modules and is left alone in USB mode
  (ext_module.c:73, disk.c:91).

## 3. What is checked

Runs that pass:

| Run | Properties | Bounds | Why they are enough |
|---|---|---|---|
| `threadring` | `LinksAgree`, `OneRing`, `FindsWhatIsThere`, `ImplementsRing` | 4 pids, one walker, 3 of them end | a walk with threads before, at and behind it that come and go |
| `thread_operator` | `TypeOK`, `RingSound`, `ShellAlive`, `BoundedWait` | 1 MED, priorities 0..2 and a refused one; kill: every pid; enable, disable: every pid but KERNEL's; nice: every pid but the idle thread's; memory may fail | every kill in every thread state, up to the first fault; the count of idle switches is bounded by the property itself |
| `thread_shell` | `ArgsAlive`, `SysStackOwned`, `EnabledRuns`, `ShellReturns` | 3 MEDs in turn, memory suffices, renice of the command line | a new MED gets the area from KERNEL and gives it back, three times |
| `heap` | `TypeOK`, `BlocksTile`, `FreeListExact`, `OwnersListed`, `BigEnough`, `BuffersStay` | 24 bytes, header and quantum 2, two sizes, 1 MED | up to six blocks: both neighbours free, either, none; split, whole block, exhaustion |
| `timer` | `TypeOK`, `NeverEarly`, `OnTime`, `StaysArmed` | 3 timers, delays 2 and 3, 7 ticks | an action acts on a timer before it, on itself and on one after it in the walk |
| `diskpower` | `TypeOK`, `AsleepIsOff`, `StopIsWatched`, `IdleDiskStops` | accesses of 2 sectors, delay 2, stop count 2, one cable move | a tick between any two statements of an access, stop begun before, during and after it |
| `evt` | `TypeOK`, `HandlersApart`, `HandlersOwned`, `ImplementsQueue` | 2 users, 2 handlers, pipes for 2 events of 2 units, 3 events | handlers change hands, a pipe wraps and holds two events |
| `fatfile` | `ReadsTrue`, `OthersIntact`, `ImplementsFile` | 3 clusters of 2 sectors of 2 bytes, one of them or none taken by others, files of 5 bytes, calls of 4 | a call with head, whole sectors and tail; files over two clusters, a chain with a gap; a volume that fills up |
| `fat` | `Exclusive`, `Survives`, `Accounted` | 2 files, 3 clusters in 2 FAT sectors, one cache line, 2 losses of power | every change of a chain over two sectors evicts one of them; a crash during the recovery's first calls |
| `vfs` | `RefExact`, `Mirrors`, `NothingDangles`, `CardShown` | 2 names, 2 levels, 1 file cache, 1 thing held open | every call on an existing, missing, open or wrong kind of entry, on the disk, the card and across a card change |

Fairness.  `Vfs`: the check of the slot runs (weak), as a free running timer of the
tick.  `FairSpec` of `Thread`: ticks keep coming (weak), a pending interrupt
is taken, and a thread that gets the processor again and again executes its next
statement (strong: a tick may preempt it any number of times, but a time slice is
10 ms).  A MED need not end: `ShellReturns` speaks of one that has.  `FairSpec` of
`DiskPower`: the tick and its steps go on, a powered drive in order ends its
command, the thread in an access gets the processor.

`CHECK_DEADLOCK FALSE`: where a configuration says so the system may really stop
(a wild access, the end of `MaxTime`, a tick that hangs, all threads ended, a file
that was lost).

Runs that show a disagreement between the code and what it says of itself; the
quotes are in `PROJECT.json`:

| Run | Violated | What happens |
|---|---|---|
| `thread_lost` | `LinesAreRead` | lost wake-up between the look at the UART and the pause |
| `diskpower_hang` | `TickReturns` | the tick waits for a disk without power, with a timeout that counts ticks |

Known from the same models, without a run of their own:

- `Thread`, with `KillTargets = {3, 4}` and `Starters = {0, 2}`: `SysStackOwned` fails.
  `thread_doKill` resets `threadSysStack` though the killed MED was not on the area;
  old frames overwrite live ones (thread.c:373, against "saving prev sys stack",
  thread.c:519).
- `Thread`, with `Starters = {2}`: `ArgsAlive` fails.  `run` frees the arguments of
  the MED it has just started (med.c:443, "back from med").
- `Heap`, with `Loaders = {2}`: `OwnersListed` fails.  A block is taken off the list
  of thread 0 instead of its owner's (thread.c:587, against the comment at 550-552).
- `Thread`: with kills allowed, `fault` becomes `"stale"`: a command uses the
  struct of a thread that ended since it was found (thread.c:337 and 358).
- `Thread`, with `ShellNeverLost` in place of `ShellAlive` in `thread_operator`: a start
  that finds no memory prints its error and goes on (thread.c:110-116), which disables
  the shell although there is no MED whose end would enable it.  With `MemFails = FALSE`
  the shell is lost when a MED is killed between its creation and its launch.
- `Heap`: with a request of `2^Width - 1` (`Requests = {1, 63}`) `BigEnough` fails:
  rounding wraps (malloc.c:53-54).
- `Timer`: with `Width = 3` and 7 ticks `StaysArmed` fails: at the wrap of `tick`
  free running timers stop for good (timer.c:54-56), which takes 497 days.
- `DiskPower`: the inactivity timer switches `cur_disk` to the hard disk in the
  middle of a transfer from the card (ata.c:235); the power may be cut during
  an access when the stop timer's decision and the access cross (ata.c:61-65); a
  transfer that times out reports success (ata.c:136-137).
- `Evt`: with `Apart = FALSE` two registrations get the same handler (evt.c:32-42).
  When two masks are used and `SetMask` does not end the promise (its `Break` dropped),
  `ImplementsQueue` fails: an event the new owner did not ask for is delivered,
  since the shell had begun to write it by the mask of the last one.
- `FatFile`, `Fat`, `Vfs`: what the callers keep to, above, is needed; with any of it
  dropped TLC shows what is said there.

## 4. What is proved

For every value of the constants that satisfies the modules' assumptions:

- `ThreadRingProofs`: `RingLinked`, `RingWhole`, `WalkFinds`, the refinement
  `LinksImplementRing` and, by way of it, `RingOnceEach` (the sequence the links spell
  never holds a thread twice), all for any number of threads and walkers.  The invariant is
  `Order`, `LinksAgree` and `OneRing`, and for a walk (`Ahead`) that what `nxt` leads to
  before it is back at the walker contains the thread it looks for, if that was
  there throughout.  `ringOf` is a
  recursive function over the links; that it exists, holds each thread of the ring
  once and changes as the abstract ring does is induction over its places.  The
  library's induction theorem takes a predicate and cannot be used, so each
  induction looks at the least place where the claim fails (`LeastNat`).
- `ThreadProofs!TypeCorrect` and `RingAlwaysSound`, from what `Insert`, `Remove` and
  `TurnTo` do to the members and the distinctness of a sequence.  Type correctness is not
  inductive alone: that the scheduler finds somebody to run needs the idle thread
  in the ring, which a kill keeps there; that it keeps KERNEL, and that a launch
  enables a MED, needs to know which pids the commands hold (`ArgSound`).  The invariant is `TypeOK /\ RingSound /\ ArgSound`.  Only the
  idle thread is safe from the operator; `RingSound` has KERNEL in the ring when
  0 is not in `KillTargets`.
- `ThreadProofs!ShellComesBack`: `ShellAlive`, when the operator does not disable
  KERNEL by hand (`KERNEL \notin StateTargets`; dropped, it is false for the obvious
  reason).  `ShellAlive` ends with the first fault: it is what remains true when memory
  may fail and anything may be killed.
- `ThreadProofs!ShellKept`: `ShellNeverLost`, which has no such end, when memory
  suffices and the operator neither kills, enables nor disables KERNEL or a MED.  TLC
  violates it when memory fails, when a MED is killed before its launch (both in
  section 3), and when it is enabled before it (with
  `StateTargets = {3}` it may end before its launch).  The
  strengthening is `LaunchSound`: a MED that was created is in the ring, disabled,
  not the current thread and nobody else's until its launch, so it can neither have
  run nor ended, and the launch finds it.
- `ThreadProofs!SysStackAlwaysOwned`: `SysStackOwned` while nobody is killed by
  another thread (`KillTargets = {}`; section 3 says why).  The inductive
  strengthening is `StackSound`: `threadSysStack` is the thread whose frames are in
  the area, every other user of it has its own saved, and only the user named
  by `threadSysStack` runs.
- `ThreadProofs!ArgsOutliveMed`: `ArgsAlive` while only the shell starts MEDs
  (`Starters \subseteq {KERNEL}`; section 3 says why) and the operator does not enable
  KERNEL by hand, which would have it go on behind `thread_startMed` with its MED alive.
  The strengthening is `MedSound`: there is at most one MED, the one the shell
  started, and until it has ended the shell is disabled and does not run.
- `ThreadProofs!WaitIsBounded`: `BoundedWait`, for any threads, priorities and
  commands.  The bound that suggests itself, `MaxPrio + MaxPid` (above the worst
  priority every other thread can go first once), holds in the run and is wrong:
  with the code's `THREAD_MAX_PRIO` of 5 and four threads TLC finds a count of 9.
  A thread that is disabled and enabled again keeps its count, so that it can be
  passed over by one that has waited much less and had its priority changed.  What
  holds is `MaxPid * (MaxPrio + 1)`, by `AgeSound`: of the threads that wait, enabled
  or not, at most `MaxPid - k` have reached a count of `k * (MaxPrio + 1)`.  A
  count that gets there was passed over by one from the level below, which starts
  again (`NxtAge`); starts, kills of the running and of another thread, and
  renicing leave the levels alone (`NextAge`).
- `HeapProofs`: `HeapTypeCorrect`, `TilesHold`, `FreeListHolds`, `OwnersHold`,
  `BuffersBigEnough` and `BuffersNeverMove`, for any pool, any requests and any
  number of MEDs, under two assumptions that section 3 shows to be needed: no request
  wraps when it is rounded (`NoWrap`) and only the shell loads MEDs (`KernelLoads`).
  The invariant `HInv` has three parts.  `Core`: the blocks tile the pool, the
  free list has the free blocks, `totalloc` is their sum.  `ListsOf`: the list
  of every thread has the blocks with its pid.  `Callers`: only live threads own
  something, and the code loaded by the shell and the three buffers of each MED
  are distinct blocks of KERNEL.  Without the last one `thread_startMed` and
  `thread_doKill` would free through the wrong list.  A list is
  `Linked(next, prev, first, S)`: there is a numbering of `S` that the links
  follow; `LinkedIn` and `LinkedOut` insert and remove an element, `TileSplit` and
  `TileMerge` do the same for blocks.  One lemma says what `internalMalloc` does
  (`Malloc`), four what `internalFree` does with its neighbours (`FreeAlone`,
  `FreeBack`, `FreeFront`, `FreeBoth`), `ListFree` what `thread_listFree` frees (by
  the least turn of its loop where the claim fails); then each caller keeps `HInv`
  and makes a `Step`, which says that a buffer that stays in use is as it was.
- `TimerProofs!TimerTypeCorrect`, and `NeverTooEarly`, `AlwaysOnTime`,
  `StartsAreKept` under `NoWrap`: the word is wide enough for every deadline of the
  behaviour and the delay exceeds the time a start takes.  The invariant says, for
  every place of the walk and of the thread, which timers may still be due and
  what the value in the thread's register is worth.
- `DiskPowerProofs!DiskTypeCorrect`, `SleepMeansOff` and `StopsAreFollowed`.
  `AsleepIsOff` and `StopIsWatched` prove each other, with the help of `SleepsAwake`: the
  tick puts a disk to sleep only while the driver takes it for awake.  Type
  correctness needs that an access that goes on, and a drive that offers data, have
  sectors to come (`TodoLeft`, `DataLeft`).
- `EvtProofs!EvtTypeCorrect`, from `TypeOK` with what each place of a call promises
  of the slot and the handler (`PlaceOK`); and `HandlersStayApart`,
  `HandlersStayOwned` under `Apart = TRUE`.  Between the steps of a registration
  nobody's `handler` names the struct yet: `SlotsSound` says it is free until
  `Claim`, then in use and nobody's handler until `SetMask`, and that only one
  thread is there.
- `EvtProofs!HandlersImplementQueues`: `Evt` implements `EventQueue` under
  `Apart = TRUE`, for any sizes, threads, handlers, classes and masks.  `QInv` says,
  as long as nothing is broken, what is in a pipe in use between `nOUT` and `nIN`:
  the rest of the event its owner is reading (`ReadInv`, `RestAt`), whole events,
  and the first units of the one a thread is writing, which are that thread's
  (`WriteInv`).  It needs that `reg` is still `nIN` when the unit is stored and that
  the classes of an event in the making are in the mask (`SendInv`), and that a
  struct is given out with an empty pipe nobody writes to (`ResetInv`).  The
  arithmetic comes first: `WrapIs` is what masking an index keeps, `WaitGrow`,
  `WaitTake` and `WaitDrop` say how the queue of events changes when units are added
  or taken, the `Span` lemmas where they lie.  Then every action keeps `QInv` and is
  a step of `EventQueue` or changes nothing of it (`IrqSendQ` is `Post`, the last
  `StoreUnitQ` of an event is `Deliver`, the first `ReadUnitQ` is `Take`).

- `FatProofs`: `FilesExclusive`, `ClosedSurvives` and `ClustersAccounted`, for any
  volume, any FAT cache and any names, with no assumption but that sizes are
  positive.  The invariant `Inv` says that there are a chain `ch[f]`, a sequence of
  clusters, and a directory entry `ent[f]` for every file the power left whole
  (`Fits`): the table spells the chains, no two meet, and an open file's cursor is
  in its chain (`OpenAt`, with the two ways in which the code numbers the cluster it
  is in).  What the disk holds is stated without running the pending writes: `Lands`
  says what the last write to a place leaves there, `Steady` that no moment before
  or after differs.  A closed file lands; one that no call is about is steady, which is
  what a loss of power needs.  `Sound` ties the cache to this: an entry whose sector
  is not dirty lands, and a dirty sector is in its line.
  Every helper of `Fat` has a lemma that says what it does to this: `EntryRead`,
  `EntryChanged`, `Searched`, `ChainFreed`, `Truncated`, `NextWritten`, `Sought`,
  `TableFlushed`; they compose through `Leads`, "from here to there nothing
  happens to the clusters of K".  `CallDone` puts a whole call together from how it
  leaves the files it is about and that it spares the others, and each action has a
  step that applies it.  A loop of the code is a recursive function: that it exists is
  `LoopExists`, what holds after every turn is `UpTo`, and the chain functions
  `ChainAt` and `ChainOf` are the sequence (`ChainAtIs`, `ChainOfIs`).

- `VfsProofs`: `RefCountsExact`, `TreeMirrorsDisk` and `NoneDangles`, for any names,
  number of directories, of file caches and of things held open, under what the
  callers keep to (section 2).  Paths have the two levels of `Paths` and a volume
  that comes in is one of `Layouts`, as in the run.  None of the three is inductive.
  A count is exact after `rmNodeFromTree` only if the parent lists the node,
  which is the tree (`Linked`); a file that is made gets a new node
  only if a loaded directory shows everything that is on the disk (`Mirrored`); an
  entry that is written changes what one directory shows only if no other node
  stands for the same cluster (`OneDir`), the node a removed directory leaves behind
  excepted, which has no children (`Ghosts`); unmounting the card leaves nothing only if a
  node is on the volume its path says (`Placed`).  `Good` is these with exact counts
  (`Counted`), the lists of open nodes (`Listed`) and the mount points (`Volumes`);
  `Bare` is the state while the disk is lent to a PC; `VInv` says which of the two
  holds and how it agrees with the slot, `connected_module` and what is held.  Both say
  `hung = FALSE`: no call loops or reads through NULL.  `TreeInv` is its invariance.
  A call is composed of steps on a value of `fs` that need not be a state: load a
  directory (`DirLoaded`), look a path up (`LookupReaches`), open and close
  (`GoodOpen`, `GoodClose`), add a node with its entry (`AddFile`, `AddDir`), remove one
  (`RemoveOpened`, `GhostTree`).  Each keeps `Good`; `Grows` says that the nodes there
  were are as before, `Called` what is open afterwards, and these compose into
  one lemma per call (`CreateFile`, `MakeDir`, `RemoveDir`, `MoveFile` ...).  Unmounting
  is `CardRemoved`: with nothing open, every node below the mount point is loose when
  its children are gone, so that `vfs_clearNodeTree` ends.

Only model-checked: liveness (out of the prover's reach: `EnabledRuns`, `ShellReturns`,
`IdleDiskStops`, `CardShown`), and `FatFile`: `ReadsTrue`, `OthersIntact` and the
refinement `ImplementsFile`.

## 5. Limits

- One action of a thread is one or a few statements; the compiler's order of
  memory accesses is taken to be the source's.  `pipeWrite`'s increment and mask
  of `nIN` are one store.
- Registers and trap frames are not modelled beyond the I bit.
- `ATA_FORCE_STOP` (the halt path), changes of the disk timer's settings, DMA and
  a second accessing thread are not in `DiskPower`.
- `internalMalloc` writes through a NULL `first_free` when it takes the only free
  block (malloc.c:92-93): on this machine a store to address 0x14, which the ARM
  reserves; the model drops it (`Put`).
- Calls of the file system are single actions (in `Fat` single in memory, with every
  write to the disk a step of its own).  The code has no lock: with a second thread
  or the check of the slot in the middle of a call nothing it promises survives.
- Media errors, lack of memory, FAT16 and long names, `mvdir`, the cursor of
  `readdir` and the dirty list are not modelled; two partitions of a disk are not
  told apart.
- `fat_flushFatSector` writes two copies of the table; the model has one.
- Interrupts do not nest in the kernel; the tick is the only switch point besides
  `yield`, `THREAD_PAUSE` and a thread's end.

## 6. Not modelled, and what would come next

- Sound: the refill of the mp3 buffer, the DSP interrupt and track changes share
  their indices without protection, and a full and an empty buffer look alike
  (sound.c:62).  What could be checked is a list of ways to break it.
- Buttons, remotes, clock, two wire bus, LCD: counters of one interrupt and register
  accesses.
- GUI, graphics, kernel library, MED and flat binary parsing, the editing buffer of
  the command line: sequential code over data, within reach of unit tests.
- Interrupt dispatch: its effect (one handler at a time, masked) is assumed.
- The other trees of the repository: predecessors, host tools, third-party programs.

Next would be proofs of the refinement of `ByteFile` and of what `FatFile` reads, paths of
any depth in the proofs of `Vfs`, and statements of what may still be relied on when a tick
comes inside `malloc` or inside a call of the file system; the models here show that
it is little.
