# Simple-os-dev-projs: a verification project

Three programs live in this repository: a preemptive user-level thread library
(`src/Pthreads`), the same library on top of a paging memory manager
(`src/Memory_Manager`), and a small FUSE file system (`src/Simple_File_System`).
This directory holds TLA+ modules that model them, TLC configurations that check
the models, and proofs that TLAPS checks. `PROJECT.json` lists the runs, the
mutants that show each property can fail, the source lines of each definition, the
hazards and the findings.

Run from this directory: `tlc -config X.cfg M`, `tlapm M.tla`.
Line numbers without a file are of `src/Pthreads/my_pthread.c` in the parts on
threads, of `totalrecall.c` in the parts on memory, of `sfs.c` in the part on files.

## 1. Inventory

| Component | State | Operations | Correct when | Module |
|---|---|---|---|---|
| Thread creation, scheduling, preemption | `mpq` (3 queues), running queue, `tcb`s, saved contexts, interval timer, `thread_count1` | `my_pthread_create`, `_yield`, `_exit`, `sig_handler`, `scheduler`, `createRunningQueue` | every thread is in one queue once; the running queue's head is who executes; each context resumes its own thread; nobody starves; it never hangs | `RunQueues`, `Scheduler` |
| What the scheduler promises | the round, who waits | a turn ends, create, exit | at most two turns of another between two of mine | `Rounds` |
| Mutex, ids of threads | `flag`, `destroyed`, the counter | init, lock, unlock, destroy; lines 89-95 | mutual exclusion, unique ids, lock ends | `Mutex` |
| Join and return values | `join_LL`, `retval_LL` | `my_pthread_join`, `my_pthread_exit` | join returns after the exit and with its value; every joiner is woken; no block is lost | `Join` |
| Virtual memory (`totalrecall.c`) | 1600 page nodes, 3900 swap nodes, page protection, clock hand, pages per thread | fault handler, `swapPage`, `swapFileGrab`, `evictPage`, `protectPages` | each page of a thread is in exactly one place, where the handler will look, and open to its owner only | `Paging` |
| Allocator (`totalrecall.c`) | the list of `AllocNode`s of each region, `thread_page_count`, `pagesLeft` | `myallocate`, `mydeallocate`, `schedulerallocate`, `shalloc` | blocks never overlap, the list knows every block, free neighbours merge, blocks lie in counted pages | `Allocator` |
| File system (`sfs.c`) | two byte maps, inodes, the entries of the root, a counter | init, create, unlink, getattr, opendir, readdir, releasedir | an entry names an allocated inode that is there, nothing has two owners, what was created stays | `FileSystem` |
| Block device (`block.c`) | blocks | `block_read`, `block_write` | | the steps of `FileSystem` |
| Stubs, log, headers, test programs, build files | | | | not modelled: no state a property is about |

How they interact. Every thread calls the library and the timer's SIGALRM calls
`scheduler` on the stack of whoever executes, at any instruction; the library
masks nothing and relies on stopping the timer. `my_pthread_create` uses the
mutex, which calls back into the scheduler by `my_pthread_yield`. In
`Memory_Manager` every `malloc` of the library is `myallocate` with `LIBRARYREQ`,
which protects the pages of the running thread and calls `schedulerallocate`, and
each context switch protects the pages of the thread that leaves; the next access
faults, and the fault handler moves pages. The file system is independent of both
and is called by FUSE, by several threads at a time.

What is hard to test: a signal in one of a few instructions (create, exit, join,
the context switch); lists that share nodes after a particular number of
threads of each priority; a mutex destroyed while it is being taken; eviction and
swapping after pages have moved several times; a sequence of frees after which a
link is out of date; two callers of one file operation, and a crash between its
writes. The list with lines is `hazards` in `PROJECT.json`.

## 2. Modules

### Threads

`RunQueues` has no variables. It has the four queues as heads, tails and `next`
pointers, because all four are linked through the one `next` field of a node and
the interesting failures are nodes in two lists. It holds the two queue
operations of `scheduler` (`Enqueue`, `Advance`), the selection of
`createRunningQueue` by its outcome (`Tally`: two passes, the budget of 300 ms;
`Spins`: the second pass does not end; `Load`: the first *n* of each queue are
linked together). The loops are summed up in arithmetic on the lengths of the
queues; `SkipUnfit` selects the second pass of the copy in `Memory_Manager`.

`Scheduler` composes them into the running library. One kernel thread runs
everything: `cpu` is who executes, `pc` where each thread is inside the library.
`scheduler` is one action up to `setitimer` because the timer is stopped; `Swap`
is `swapcontext` or `setcontext`. `owner[t]` is whose execution is saved in the
context of `t`. The insertion in `my_pthread_create` is in steps (`CreateTest`,
`CreateHead`, `CreateLink`, `CreateTail`). `Tick` is SIGALRM; `Windows` lists the
library code where it may land: everything is what the program does, a smaller
set isolates one window. `inHandler` says that the kernel blocks SIGALRM during
the handler, so only a `scheduler` called by yield can be interrupted between
`setitimer` and `swapcontext`. A process that has followed a destroyed list or
context is `"lost"` and not followed further, one in the endless loop `"hung"`.

`Rounds` is the abstract promise: rounds of turns, everyone who waits is in the
next round. `RoundsOvertaking` adds a history variable that counts turns.
`SchedulerRounds` maps the running queue to the round and the priority queues to
those who wait, and states `KeepsPromise`.

`Mutex` has one action per access to shared memory of init, lock, unlock, destroy
and of lines 91-93. A `Manager` may initialise, destroy and initialise again.

`Join` has the two lists that join and exit share, and one action per access that a
signal can separate from the next: the read of a list's head and the store of the
push, the search for the predecessor of a block and its unlinking (of the join's own
block in `join_LL`, `JoinFind` and `JoinUnlink`, and of the value in `retval_LL`,
`JoinTake` and `JoinCollect`), the scan of
`join_LL` and the status by which the scheduler takes the thread away. The
scheduler is abstracted by `At`: a thread executes when every other one is where it
may have lost the processor, which is the program's code, the waiting loop (it
yields) and the labels of `Windows`. A block of either list is named by its
thread. `woke` and `takers` are history variables.

### Memory

`Paging`. Every thread sees the same pages, so page *v* of the running thread must be
in frame *v*. `frame` and `slot` are the page nodes and swap nodes together with
what the page holds (`data`: whose page and which, so that a page in the wrong
place is told from the right one). The handler's cases A to F are one action each,
in the order of the code: `Unprotect` (in place), `BringBack` (other frame),
`SwapIn`, `TakeFree`, `Displace`, `SwapOut`, and `NoRoom` for the return
without a page. `Sweep` is `evictPage`; `swapPage` and the two `Grabbed` operators
are the moves. `Switch`, `SwitchFromExited` and `LibraryCall` are the callers of
`protectPages`, `Grant` is the part of `myallocate` that counts pages, `Touch` is
the access by which a page comes to hold something. Three history variables
name the ways in which pages go astray: `misfiled` (a page was filed under a frame that is
not its home), `skipped` (`protectPages` stops at the first free frame and leaves
an open page behind it), `most` (the most pages a thread had).

`Allocator` is one region of memory with the headers that lie in it, by address.
A header that is no longer in the list stays in memory until something
is written over it (`Gone`), so a pointer that is out of date reads what the code would
read. `kind` says which allocator it is: the three search alike, `ThreadHead`,
`ThreadAppend` are `myallocate`, `RegionHead`, `FailedHead`, `RegionAppend` are
`schedulerallocate` and `shalloc`. `mydeallocate` is taken apart into its loop
iterations (`Free`, `MergePrev`, `PrevInUse`, `MergeNext`, `KeepFree`,
`DeleteTail`). History: `stray` (a `prev` was followed that was out of date: line
692 and its neighbours set `next` only), `uncounted` (a header or first block in
a page that was not counted).

### Files

`FileSystem` is the disk (`imap`, `dmap` as the sets of bytes that are 1, the
inode at offset 0 of each inode block), the counter in memory, and what each
caller is doing. Every action but the first of a call has one `block_read` or
`block_write`; `Stop` is a crash or an unmount between any two. `phase` tells a disk
that was left in a mount (`down`) from one that was left between the two writes of
`sfs_init` (`torn`). The code is
followed where it is surprising:

- `sfs_init` formats the root again on each mount. It writes map block 0 from an
  array on the stack of which it sets only byte 0, so the other bytes are any, and
  leaves the other map blocks and the data map as they are.
- `sfs_create` writes the inode at the offset that the *directory* has in its
  block, so each inode block holds one inode, at offset 0, and an inode of block 0
  (inodes 1 to 3 of the 5000) overwrites the root directory.
- The stored name is cut by one character and begins with the slash
  (`substring`), so no lookup ever finds it. `sfs_unlink`, `sfs_opendir`, `sfs_readdir` and
  `sfs_releasedir` of a missing file compute a block from the number -1, in a
  loop that does not end (`MissingPath`); the rest of `sfs_unlink` is
  therefore unreachable and not modelled.
- Searching a map starts at a random entry and wraps to entry 1, for ever if
  all are taken.
- `sfs_getattr` answers -1, which is EPERM and not ENOENT, for what it does not find. A
  kernel does not go on to create then; the model takes the handlers as FUSE
  may call them, in any order.

| Module | Code |
|---|---|
| `RunQueues.Enqueue`, `Advance`, `Push` | `scheduler` 165-169, 196, 208, 218-247 |
| `RunQueues.FirstPass`, `Refill`, `Tally`, `Spins` | `createRunningQueue` 349-399 |
| `RunQueues.Load` | `createRunningQueue` 401-457 |
| `Scheduler.Create*` | `my_pthread_create` 33-114 |
| `Scheduler.Charge`, `Requeued`, `SwitchFrom`, `Dispatch` | `scheduler` 174-301 |
| `Scheduler.Swap` | `scheduler` 303-316 |
| `Scheduler.Tick`, `Yield`, `Exit` | 320-331, 123-135, 495-496 |
| `Mutex` | 89-95, 614-660 |
| `Join` | `my_pthread_exit` 460-497, `my_pthread_join` 501-611 |
| `Paging` | `totalrecall.c`: `buildKernalSpace`, `swapPage`, `swapFileGrab`, `evictPage`, `pageFaultHandler`, `protectPages`; the callers in `Memory_Manager/my_pthread.c` |
| `Allocator` | `totalrecall.c`: `myallocate`, `schedulerallocate`, `shalloc`, `mydeallocate` |
| `FileSystem` | `sfs.c`: `sfs_init`, `sfs_create`, `sfs_opendir`, `sfs_readdir`, `sfs_releasedir` and their helpers; `block.c` |

Operators whose comment begins with "Faulty" are variants with a plausible
mistake. No specification uses one; putting it in the place of the operator
behind it makes the property that `PROJECT.json` names fail.

## 3. Runs

Times are in units of 25 ms: slices 1, 2, 4, budget 12 (300 ms), aging limit
15 (375 ms).

| Run | Shows | Instance |
|---|---|---|
| `Scheduler` | the queues stay disjoint lists that hold every thread once, tails end lists, threads are filed by their priority, contexts are intact, the scheduler never hangs, it refines `Rounds`, and no ready thread waits for ever | 3 threads, aging limit 5, signals anywhere outside create's stores and the switch |
| `Scheduler_spoilt` | what is proved holds with signals everywhere, reused memory and too many threads for the running queue | 3 threads, budget 6, aging limit 4 |
| `Scheduler_hang` | finding: the second pass spins | 4 threads, real limits |
| `Rounds` | overtaking is bounded by two, everyone is served | 4 threads |
| `Mutex` | mutual exclusion, unique ids, handle = id, the lock is released | 3 callers who heed errors and a manager, ids up to 4, `destroyed` starts as anything |
| `Join` | `join_LL` loses no block, a join waits for its thread, a value is collected once, a join that was woken returns | 3 threads, signals at three labels of join, the harmless ones |
| `Join_second` | finding: only one joiner is woken | 3 threads, no signals |
| `Paging` | until the first misfiled page no page is lost, none is open to another thread, every granted page can be had; with one page per thread, more than there are frames, nothing goes wrong at all | 3 threads, 2 pages each, 2 frames, 3 slots, of which the swap file has one |
| `Paging_lost` | finding: a displaced page that is displaced again is lost | 2 threads, 2 pages each, 3 frames |
| `Allocator` | until the first stale `prev` blocks in use are disjoint, listed, in counted pages, free neighbours are merged, and no byte is lost | the 3 kinds, 15 bytes, header 2, pages of 4 |
| `Allocator_overlap` | finding: two blocks in use overlap | 24 bytes, header 2 |
| `FileSystem` | nothing has two owners, whenever the machine stops; entries are allocated, while mounted and on the disk a crash or an unmount leaves, but for one inside `sfs_init`; while mounted, until an inode is written over another, a created file stays and every entry has its inode | 2 callers, 5 inodes, 3 data blocks |

Why these bounds are enough to mean something.

- *Three threads* are the most for which 100 ms each fits the budget of 300 ms, so
  a running queue takes in everyone who waits: within this load the design
  works, and `Scheduler` says so. A fourth thread breaks it, which is what
  `Scheduler_hang` shows. Three threads cover a queue with a head, a middle and a
  tail.
- *Aging limit 5* instead of 15 keeps the run small enough to check liveness with it: a
  thread still climbs down through all priorities (1 + 2), runs at the lowest
  one and is reset, though there always on its first full slice, where the
  real limit allows three. With 8 (two slices at the lowest priority) and with 15
  (2.7 million states) the safety properties hold too.
- *Budget 6* in `Scheduler_spoilt` makes three threads overfill the running queue,
  so both `hung` and `lost` are reached.
- Thread ids are bounded by `N` (`CreateAlloc` has `thread_count1 <= N`) and by
  `MaxId` in `Mutex`. Both bound how many threads are ever created, not how long
  the system runs.
- *Three threads that join* give a list with a head, a middle and an end, two
  joiners of one thread and chains of joins.
- *Two frames, three slots, three threads of two pages* (`MaxPages` bounds a
  grant): more pages than places, so a page can be displaced, evicted, swapped in
  and refused, and the clock hand goes round. There are more threads than frames, so
  that pages are displaced, brought back, swapped out and swapped in also while no thread
  has more than one page (`most` = 1); only a refusal (`NoRoom`) takes more. One slot
  is in the swap file and two are behind its end. The properties also hold with three
  frames and two slots (531 426 states), where one frame stays free of a home (only
  pages 0 and 1 are used), as most of the 1600 do.
- *`destroyed` starts as anything* in `Mutex` because `malloc` may leave anything in it.
  The callers of this run heed the error that lock then returns.
  `my_pthread_create` does not; that is in the table below.
- *Fifteen addresses* hold three blocks with headers of two, or a failed first
  request; the sizes include one that makes a merge fit exactly, and one that is too large.
  `Allocator_overlap` needs four blocks of one byte and one of ten, which overlaps the
  last of them, and so 24 addresses.
- *Five inodes, two in a block, maps of two bytes in a block, two entries*: there
  is an inode in the root's block, two outside it at offset 0 and at another offset,
  a map block that `sfs_init` sets and ones that it leaves, a full directory,
  full maps and a wrapped search.
- *Constraints.* `UntilMisfiled`, `UntilStray` and `UntilRaced` stop the search at the
  first state in which a history variable is set. The properties claim nothing of
  the states behind it (each is conditional on the variable); what happens there
  is shown by the finding runs, which have no constraint, and by the table below.
- *Deadlock*: `Rounds`, `Mutex`, `Join`, `Allocator` turn the check off: the program may
  end (no one is left in a round), callers stop when the last id is given, two
  threads may join each other, a region may be full of blocks no one frees.
  `Scheduler` has an explicit step for a process that has stopped. The check is on
  in `Paging` and `FileSystem`.

### What else the modules show

These instances are not kept as runs; each takes a changed cfg and seconds.

| Instance | Result |
|---|---|
| `Scheduler`, N = 4, `SkipUnfit` = TRUE (the copy in `Memory_Manager`) | `QueuedOnce` fails: the tails are wrong after a pass that took none of a queue, two lists share nodes |
| `Scheduler`, all create windows | `QueuedOnce` fails: a created thread is lost |
| `Scheduler`, `StaleMemory` = TRUE | `TailEndsList` fails: `next` of a new node is never set |
| `Scheduler`, windows `test` and `switch` | `ContextsIntact` fails: a context is overwritten |
| `Scheduler`, N = 4, budget 9, aging limit 8, up to the first state that is not `Fits` (`SchedulerProofs`) | the safety properties hold in 4.7 million states (the search was not finished): four threads may fit one running queue, as long as few of them reach the lowest priority |
| `Mutex`, `StaleDestroyed` and `IgnoreErrors` (`my_pthread_create` 41-44, 90) | `UniqueIds` fails: `destroyed` is not initialised |
| `Mutex`, a lock that overtakes destroy | init leaves the mutex locked |
| `Join`, window `push` or `unlink` | `JoinsListed` fails: a block pushed or unlinked in between is dropped or kept |
| `Join`, window `collect` (592 to 596 or 598) | `ValueOnce` and `TypeOK` fail: two joins collect and free one value, or a value pushed in between is dropped |
| `Join`, window `search` | `WaitedFor` fails: the thread was moved to a queue already searched |
| `Join`, window `scanned`, `store` or `dying` | `WaitedFor` fails: the joiner is woken before the value is there and the thread gone. With `scanned` or `dying` `JoinReturns` fails: a join behind the scan is never woken. With `store` `ValueOnce` fails: a value is dropped |
| `Join`, windows `linked`, `leave`, `take` | harmless, and on in the run |
| `Paging`, `Garbage` left out of what `Isolated` allows | fails in ten states: `buildKernalSpace` writes the swap file up to the first protected page, 434 of 3900 pages, and a page of the rest reads as what was in the buffer of `swapFileGrab` (40), which may be another thread's page |
| `Paging`, `GrantedPagesExist` without its condition on pages of exited threads | fails in fifteen states: their swap slots are not freed and their pages are granted again |
| `Allocator`, a block ends before `End` | fails for `library` in five states and for `thread` in six: the bound leaves the header out, the first block of an emptied list has none (503, 568) |
| `FileSystem`, one caller, no constraint | `CreatedExists` fails in ten states: a file in the root's block replaces the root. `EntriesComplete` without its condition `~overwritten` fails with it |
| `FileSystem`, `EntriesAllocated` between the writes of `sfs_init` (`format`), or on the disk that a crash there leaves (`torn`) | fails in eleven and in twelve states: the map block is rewritten and the root still has its entries |
| `FileSystem`, every created file is in `Listed` of the root | fails in ten states: the last free slot is taken, and lookups stop at the first free one |
| `FileSystem`, `EntriesComplete` on a disk that is not mounted | fails in ten states: a crash between the write of the directory and that of the inode leaves an entry without inode. The next mount formats the root |

### Fairness

`Fairness` in `Scheduler`: the kernel executes the process and delivers the
interval timer (`Tick` is taken if it stays possible), a swap that has begun
ends, and a thread that gets the processor again and again gets through the few
instructions of a library step (strong fairness, because the timer may interrupt
it each time). The program's own code is not fair: a thread may compute for ever,
and never yield or exit. `Tick` and the library steps are fair by formulas that
spell out when they are enabled; the comment there gives the reason.
In `Mutex` every caller is scheduled again, which is what `NoStarvation` gives.
So it is in `Join`, where a thread inside the library goes on (strong fairness,
because another may execute in between); the program need neither join nor exit.
`Paging`, `Allocator` and `FileSystem` state safety only: an access that
the handler cannot serve faults for ever, which `GrantedPagesExist` excludes as a
state, and the endless loops of `sfs.c` are the program counter `"hung"`.

### Where code and documentation disagree

Four findings have a run, see `findings` in `PROJECT.json`. Two more need none:
A thread is reset at 375 ms or more (line 189), `Memory_Manager/README` line 27
says at more than 375. `Memory_Manager/README` lines 74, 80 and 84 say that lock,
unlock and destroy return -1, they return `EINVAL` or `EBUSY`, which are positive.

One more is proved. `sfs.c` line 33 calls `numOccupiedInodeBytemap` the "number of bytemap
nodes occupied for inodes", and `sfs_create` 441-443 compares it with 5000 to log "ALL
INODES OCCUPIED". `sfs_init` starts it from 0 while it marks the root and
keeps or makes up other bytes of the map, so it counts the creates since the mount. As long
as no block was written back over a change, it stays below the number of bytes that are
set, and the test is never true: when the map is full, the search for a free byte
goes round for ever instead. This is `FullMapIsNotSeen` in `FileSystemProofs`.

## 4. Proofs

| Module | Theorem | For |
|---|---|---|
| `SchedulerProofs` | `SchedulerInvariant`, `TypeCorrect`, `RunningIsTheCurrentThread`, `PrioritiesAreEarned` | any number of threads, slices, limits, both second passes, all windows, reused memory |
| | `OrderInvariant`, `ThreadsAreQueuedOnce`, `TailsEndTheirLists`, `ThreadsAreFiledByPriority`, `WithRoomItNeverHangs`, `SchedulerImplementsRounds` | any number of threads, slices, limits, both second passes, under `Orderly` and in behaviours with `[]Fits` |
| | `ContextInvariant`, `ContextsAreTheirOwn`, `TheProcessStaysUp` | the same, under `Sheltered` and `[]Fits` |
| `RunQueuesProofs` | `TallyWithin`, `LoadOver` and the lemmas about the queue operations | any number of threads, any lists |
| | `TallyTakesAll`, `LoadLines` | the same, for queues whose threads fit the budget; well-formed lists |
| `RoundsProofs` | `RoundsInvariant`, `ServedOncePerRound`, `OvertakingIsBounded` | any finite set of threads |
| `MutexProofs` | `MutexInvariant`, `MutualExclusionHolds`, `HandlesAreIds`, `IdsAreUnique` | any callers, under `Contract` and `GoodStart` |
| `JoinProofs` | `JoinInvariant`, `JoinsWait` | any number of threads, under `SafeWindows` |
| | `ListsInvariant`, `JoinTypeCorrect`, `NoJoinIsLost`, `ValuesAreCollectedOnce` | the same, under `WholeUpdates` |
| `PagingProofs` | `PagingInvariant`, `TableTypeCorrect`, `PagesAreNotLost`, `OnePageIsSafe`, `GrantedPagesCanBeHad`, `ThreadsAreIsolated` | any number of threads, frames, slots and pages, any part of the slots in the swap file |
| `AllocatorProofs` | `AllocatorInvariant`, `AllocatorTypeCorrect`, `BlocksNeverOverlap`, `BlocksStayListed`, `FreeBlocksAreMerged`, `BlocksLieInCountedPages`, `NothingIsLeaked` | any region, page, header and request sizes, until the first stale `prev` |
| `FileSystemProofs` | `FSInvariant`, `DiskTypeCorrect`, `EntriesAreAllocated`, `NothingHasTwoOwners`, `CreatedFilesAreKept`, `EntriesHaveInodes`, `FullMapIsNotSeen` | any callers, any sizes, until a block is written back over a change |

Several of these have hypotheses that the code does not establish: `Orderly`, `Sheltered`, `[]Fits`,
`Contract`, `GoodStart`, `SafeWindows`, `WholeUpdates`, and the history variables in the
properties of memory and files. They are not about a better program. Each
names one of the ways in which this one goes wrong, the instances above show the failure
behind each of them, and the theorem says that there is no other way.

*Scheduler.* `RunningIsCurrent` is not inductive: `CreateAlloc` writes the status
of a new thread, and nothing in it says that this thread is not at the head of the
running queue. `SchedulerInv` adds that only ids that were given (`Given`) are linked
anywhere, also by a half-finished create, and that threads not given yet have no
status. That the queue operations preserve "every link is a given id" is what
`RunQueuesProofs` shows: `TallyWithin` (no more are counted than the queue has)
makes the prefixes that `Load` takes prefixes of real lists. It holds even where the
lists are broken, because the model goes on only with lists that end;
otherwise the process is `lost`. `SliceAccounting` needs that a full slice is charged
before each demotion.

*The lists of the scheduler.* `Orderly` asks for two things: no signal between the
stores of `my_pthread_create` (`Windows` within `test` and `switch`) and new memory that
is clean. The theorems are about behaviours with `[]Fits`: the slices of the threads
that exist, each at the priority it has at the time, come to no more than the budget. With the real
25, 50, 100 and 300 ms that is always so for three threads, and for more as long as
few of them are at the lowest priority. Each of the three is needed
(tables above: a node is lost, `next` is garbage, lists share nodes or the second pass
spins). A signal between `setitimer` and `swapcontext` is allowed: it does the lists
no harm. `QueuedOnce` and the others say that paths through `next` end and are
disjoint; proving that of a path means induction over its length. `OrderInv` has the
lists themselves as a witness instead, rows `L`, one per queue and one for the running
queue. `Lined` says that they are sequences without repetition, that no two share a
thread, and that heads and `next` follow them. Then each operation on the queues is an
operation on sequences: `AdvanceLines` drops a first element, `AppendLines` and
`PushLines` add a last and a first one, `LoadLines` joins the rows of the priorities. What
paths are is needed only at the end, to read `QueuedOnce` and `TailEndsList` off the rows.
`Rows` says that they hold exactly the live threads that are linked, filed by
priority, and that a tail is the last element, unless the create that has linked its node
has yet to set it. `Creates` says that the node of a create under way is its own, READY, of
priority 0 and without a successor, and that a create past its test is on the
processor and what it tested is still so. This is what a signal behind
the test would break. `TallyTakesAll` is what `Fits` is for: everyone who waits is
taken and no loop of the second pass spins. Without it, a queue that is taken in part
stays linked to the running queue.

*Contexts.* `Sheltered` is `Orderly` without signals between `setitimer` and
`swapcontext`, where one overwrites a context (table above). `Resumable` adds to `OrderInv` that
every live thread but the one on the processor has its own context saved, and that
a swap saves into the context of the thread that executes it or, if that one has
exited, nowhere. Then nothing can be lost or hang, which is `TheProcessStaysUp`. With such signals
contexts are lost, but the scheduler still does not loop (`WithRoomItNeverHangs`): the
finding of `Scheduler_hang` needs more threads than fit one running queue.

*Refinement.* `SchedulerRounds` reads the round off the running queue and the waiting
threads off the priority queues. Under `Orderly` these are rows of `L`, and
`NextKeepsPromise` shows one action at a time that a step of the scheduler is a step
of `Rounds` or a stutter. A switch ends a turn (`SwitchEndsTurn`): it either serves the
next of the round or, at the end of a round, takes everyone who waits into
the next one. `ServedOncePerRound` and `OvertakingIsBounded` are proved of `Rounds`,
and so are promises of the scheduler.

*Rounds.* The bound of two needs `Overtaken`: who waits for the next round has been
overtaken at most once by each other, and not yet by those still to be served in this
round; so at the end of the round it is once by each, and in the next round once more.

*Mutex.* `Contract` and `GoodStart` are about callers who go on after an error of lock, as
`my_pthread_create` does; callers who heed it need neither. For the others nobody may
destroy the mutex, and `destroyed` must not start as 1. Nobody destroys
`thread_count_mtx`, but nothing initialises it either, so that its ids are unique only if
`malloc` is lucky; the instance above shows the failure. The invariant says that a holder has set the flag and that only a
holder clears it (the unlock of a destroyed mutex does not, init of a destroyed mutex
does not), and that the last id given equals the counter only while its holder
has not written the counter back.

*Join.* `SafeWindows` excludes signals in exit and in the search, each of which breaks
the property (table above). `JoinInv` adds to `WaitedFor` that `done` is set only for
a block whose target is exiting or gone, that it is unset in the program's code and
after the block is unlinked, and that only joins have a target. It does not need
the shape of the lists: `FirstInFinds` says that a search returns a block of
the kind it looks for, whatever the list looks like.
The shape is what `JoinsListed` and `ValueOnce` are about. `WholeUpdates` excludes
signals at `push` and `unlink` (of `join_LL`), `store` and `collect` (of `retval_LL`),
where an update of a list is half done; each
of the four breaks a property (table above). That `join_LL` has exactly the joins
under way is stated with the order of the list as a witness (`Linked`): a sequence
without repetition whose elements are linked to one another. Pushing and unlinking
are then operations on the sequence, and the search for the block before the one to be
unlinked finds the element before it.

*Paging.* `Isolated` allows an open frame to hold a page that no thread has written
(`Unwritten`), which is what a slot behind the end of the swap file yields. What
the thread reads there is outside of it: a buffer on the stack, which may hold another
thread's page. `Isolated`
alone is not inductive: what a frame holds when it is opened was decided when its page was
put away. `PagingInv` therefore says of every node, in memory or in the swap file, that
its page is unwritten or what its owner wrote to the page it is filed as (`Honest`), that
free nodes are unwritten, and that no page is away from home in its own
home, without which `BringBack` would swap a frame with itself. That a switch closes every
open frame follows because open frames belong to the running thread.
`NoPageLost` adds that each page of a thread that has been written is in
at least one place (`StillHeld`), and that no two nodes are filed as the same page
(`FiledOnce`), until the first misfiling. `OnePageEach` has no such condition: with one
page per thread every page is filed under a home that no other has (`OneHome`), and
misfiling needs two.
`GrantedPagesExist` is a count: as many nodes are in use as pages were granted
(`GrantedCount`), and no more were granted than there are places.

*Allocator.* All of it is said of the states before the first stale `prev` (`~stray`).
The core is `Tiles`: the headers that a walk from the start reaches are exactly those
in `node`, each where the one before ends, the last ending where the counted pages
end, with `prev` naming the one before. A walk is a recursive function of the address
(`From`); the proofs use only the equation that defines it. From `Tiles` follow that
blocks do not overlap and lie in counted pages. `Merged` needs more than that no two
neighbours are free: in the middle of a free the block just freed may have free
neighbours on both sides, and `BeingFreed` says that there is nothing else. That a
block handed out stays listed needs that `Owned` blocks are never the one that is
merged into its neighbour. `GoneIsNoHeader` is the one assumption on a constant
that names a value of the model and not of the program: the mark of a header that
was merged away differs from every header.

*Files.* `EntriesAllocated` needs that a call past `MarkInode` holds a marked number and
that the block of the root it writes is the one it read, which is what `~raced` says.
It says nothing of a disk on which `sfs_init` was stopped between its two writes.
`FullMapIsNotSeen` needs that the number found was free in the map that is written
back, and that the byte of the root is set before the counter is reset: the counter is then
less than the number of marked bytes. `EntriesComplete` needs that a mount begins
with a root without entries.
`OneOwner` adds that the numbers of calls under way differ from each other and
from those of the entries, for inodes and for data blocks; `CreatedKept` that the
inode on the disk is the one the entry was made with, until one is written over it.

Only model-checked: liveness (`NoStarvation`, `Released`, `JoinReturns`,
`ServedInTime`), because the prover handles neither fairness nor ENABLED, and the
findings, which are counterexamples. Every invariant that a passing run checks, the
action properties and the refinement are theorems. Induction over data,
which is out of the prover's reach as well, is nowhere needed: sequences as witnesses take its
place in the lists, and the defining equation of `From` in the allocator.

## 5. Limits

Threads:

- malloc succeeds, and the memory of a new `mpq` is zero (line 33 does not set it).
- A new node is a fresh name: a freed node is not handed out while something still
  points to it. Reuse is modelled where it matters first, as the content of `next`.
  In `Join` the `next` of a freed block can still be read, as the code does.
- Stacks are not modelled: the scheduler frees the stack it still executes on (198),
  and frees `uc_stack.ss_sp` of the main thread, which is not initialised.
- Before the first `my_pthread_create` nothing else of the library is called
  (`priority_Queue` is NULL).
- All of `my_pthread_create` up to the insertion is one action in `Scheduler`; the
  races of its critical section are in `Mutex`.
- `my_pthread_exit` is its last two lines in `Scheduler`; the others are in `Join`.
- In `Join` the search of a list for a block is one step, as are the read of a head with the
  allocation of a block, and a store with the frees that follow it: a signal lands between
  them, not inside. A list that changes while it is walked is not modelled. Splicing a block that is no
  longer in the list changes nothing, as the loop of the code then ends without a store.
- Undefined behaviour ends in the mode `lost`.

Memory:

- The fault handler, `protectPages` and a switch are one step each: SIGALRM inside the
  SIGSEGV handler is not modelled, nor is a failure of `mprotect` or of the file.
- All threads are there before the first page is touched. A thread touches only
  pages it was granted (the handler ends the program otherwise), and page 0 first,
  because the allocator's list starts there.
- `Allocator` looks at one region by itself, its pages being there. The caller frees what it
  was given, once. A request that returns NULL without a change is no step.
- The thread library in `Memory_Manager` is modelled where it differs: the second pass
  and the calls of `protectPages`.

Files:

- Only the root directory: `sfs_mkdir` is a stub, so there is no other.
- An inode is 128 bytes, four in a block; `sfs_create` writes only the one at offset 0 of a
  block, the root's offset. The others read as zeros, but in block 20, the root's:
  `sfs_init` writes it from `TEMP_INODE_BLOCK`, a local that is not initialised (75, 83, 114), so that
  inodes 1 to 3 and the rest of the block are what was on the stack. `At` takes them to
  match no name.
- Reading a whole map is one step; I/O errors are not modelled.
- Read, write, open, release, rmdir and destroy only log: there is no content of a file.

Not modelled: the stubs and logging (no state), FUSE (vendored header), the test
programs (their calls are among those the models allow), the build files.

## 6. Plan

Done: all components that keep state have a module, and every safety property of a
run has a theorem. What could follow: the bounds of `Rounds`
stated of the variables of `Scheduler` through the refinement, and the searches of
`Join` block by block, with lists that change while they are walked.
