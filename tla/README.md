# jams_os in TLA+

A verification development for jams_os, an x86-64 kernel in C: TLA+ modules that
model its concurrent core, its drivers, its memory, its file system and its
program loader, TLC configurations that check them on small instances, and
TLAPS proofs, for every instance, of the main properties of the core, the
scheduler, the drivers and the boot memory map.
Paths below are relative to the repository, `multitask.c` is
`src/x86_64/multitask/multitask.c`, and so on.

## The system

The kernel runs on one CPU. What makes it hard is not parallelism but
interrupts: wherever the interrupt flag is set, the timer may switch threads
and a device handler may run.

* `int 0x80` is an interrupt gate, so a system call starts with interrupts off.
  It stays uninterrupted until its first `STI`. `PROC_block_on(q, 1)` executes
  `STI` and then `yield()`, so **what a call does after it has slept runs with
  interrupts on**.
* Device handlers are interrupt gates and run to their end.
* The page fault handler is a trap gate: it is preemptible, and `cr2` is not
  saved when threads are switched.
* `printk` reaches `vga_display_char`, whose local `enable_ints` is never
  initialized when interrupts are off on entry. So a `printk` may or may not
  enable interrupts. The models treat this as a choice (`VgaEnableInts`).

### Inventory

| Part | State | Operations | Hard behaviour | Correct means |
|---|---|---|---|---|
| threads, wait queues (`multitask.c`) | run_state, queues, curr_proc | create, block, unblock one/all, reschedule, exit | wake-up between `STI` and `yield()`, wake-up of a dead thread | pool, queues and states agree; the dead stay dead |
| processes (`multitask.c`, `process_syscalls.c`) | thread lists, live_threads, parents, cr3 | fork, clone, exec, exit, wait, join | look-then-block with interrupts on, stale pointers, partial failure | counts and lists exact, spaces conserved, wait and join return |
| mutexes (`mutex_syscalls.c`) | owner, waiters | create, lock, unlock, destroy, release on exit | hand-over to a thread that has not run yet | exclusion, no lost hand-over, locks return |
| scheduler (`round_robin.c`) | a ring, Head, Tail, Current, Count | admit, remove, next | removal of Head, Tail or Current, newcomers | one ring, nobody starves |
| keyboard (`ps2_kbd.c`), ring buffer (`bbuf.c`) | buffer, queue | key press, getc | full buffer, wrap-around, lost wake-up | first in, first out; no character behind a sleeper |
| serial (`serial_out.c`) | buffer, ser_active | print, transmit, interrupt | thread and handler both restart the UART | sent once, in order, in the end |
| disk (`ata.c`) | request queue, drive | read, interrupt | the reader starts the next request; phantom interrupt; errors | right block, no stall |
| boot memory (`frames.c`) | table of regions | parse tags, carve | sections across page and region borders | exactly the usable frames |
| frames, address spaces (`frames.c`, `vpages.c`) | free list, regions, page entries | load, fault, fork, exit | allocator with interrupts on, same-page faults, running out | no frame shared or lost |
| kernel heap (`vpages.c`, `kmalloc.c`) | kernel_va, pools, page entries | kmalloc, kfree, first access | partial failure, page tables that come and go | blocks apart, frames balance |
| files (`ext2.c`, `vfs.c`, `mbr.c`, `block_dev.c`) | open file, buffers, disk queue | mount, read inode, readdir, open, seek, read, close | indirect blocks and holes, sleeping once per sector, failed allocations, ignored errors | the file's bytes, no buffer lost |
| ELF loader (`elf64.c`, `vpages.c`) | file, bounce buffer, address space | load | error paths half-way, unaligned segments, several loaders | the image is the file's, or nothing is left |
| the rest (PIC, GDT/IDT, VGA, md5, klibc, boot assembly) | hardware set-up, output | | | not modelled, see the end |

## The modules

| Module | Models |
|---|---|
| `Multitask` | threads, the pool, the queues and the primitives of `multitask.c` |
| `Mutexes` | `mutex_syscalls.c`, on top of Multitask |
| `Processes` | process and thread life cycle, `wait`, `thread_join`, on top of Mutexes |
| `Kernel` | the composition: the above, the keyboard, the timer; fairness; the properties |
| `MCKernel` | workloads: which calls each thread's code makes |
| `KernelProofs` | the inductive invariant of Kernel, kept by every action |
| `ProcessProofs` | theorems about Kernel for every program |
| `ThreadSteps`, `ThreadProofs` | theorems about Kernel for user code of the usual kind: thread lists, process table, mutexes, queues |
| `Scheduler`, `RoundRobin` | what `multitask.c` expects of a scheduler; `round_robin.c`, shown to implement it |
| `Channel`, `BoundedBuffer` | a bounded queue; the ring buffer of `bbuf.c` |
| `Serial` | `serial_out.c` over BoundedBuffer, with an external UART; shows that the buffer implements the queue |
| `Ata` | `ata.c`, with an external drive |
| `BootMemory`, `MCBootMemory` | the region table of `frames.c` |
| `Frames`, `MCFrames` | the frame allocator with its clients in `vpages.c` and `elf64.c` |
| `Heap` | what the clients of `kmalloc` rely on |
| `KernelHeap`, `MCKernelHeap` | `kmalloc.c` over the demand-paged kernel pages of `vpages.c`, shown to implement Heap |
| `Ext2` | `ext2.c` on a partition (`mbr.c`, `block_dev.c`), the disk being a queue of requests |
| `Loader`, `MCLoader` | `elf64.c` with the user pages of `vpages.c`, on top of Ext2; a small disk |
| `ProcessTable` | what fork, exit and wait promise of the processes; Kernel is shown to implement it |
| `QueueProofs` | theorems about Serial, Ata and RoundRobin |
| `MemoryProofs` | theorems about BootMemory |
| `FoldInduction` | the induction rules for loops that these two use |

### How Kernel corresponds to the code

A thread is seen only at its control points (`pc`), where the interrupt flag is
set. Everything between two such points is one action: a whole system call if
it never enables interrupts, otherwise one action per uninterrupted part.
`thread_join` is `Join` (up to the first sleep), then `JoinWoken`, `JoinTest`,
`JoinBlock`, `JoinReap`, `JoinUnlink`. `wait` is `Wait`, or `WaitTop`,
`WaitBlock`, `WaitReap` once interrupts are on. A point named `*_sleep` lies
between the `STI` and the `yield()` of `PROC_block_on`; the thread is queued
there but still has the CPU, and `SleepYield` gives it up.

The primitives of `multitask.c` are functions of the record `core`
(run_state, pool, queue), so that a handler which calls several of them is
their composition in the code's order: exit is `Killed`, `TornDown`,
`UnblockAll`, `Reschedule`. The switch that the interrupt return makes is part
of `Reschedule`.

User code is the set of calls each thread may make, in any order (`Program`).
Kernel threads call only the kernel's own functions (`KernelCalls`).
Structures are used once: freed ones stay in `freed` with their old values, so
a stale pointer is visible. `kmalloc` failing is the lack of an unused one.
A call that is refused without a change of state is not a step.

Three parts of the code run with interrupts on and are one action each all the
same. `PROC_create_kthread` and `PROC_create_uthread` are called only by the
boot threads `kernel_init` and `ata_test_thread`, one after the other, when
nobody else changes the lists they change. `fork` and `exec` begin with a
`printk` that may enable interrupts, but go on only in a process of one thread,
and what they share with others is protected by its own `CLI`. The unlinking
and freeing of a reaped child (`WaitReap`) is one step: two threads that wait
already interfere before it (see the limits of the workloads).

In `Frames` one frame stands for all the page tables of a process, and a page
that the loader fills is backed by the same steps as one that faults.
A thread may lose the CPU between any two steps of the loader and the handler,
as in the code: both run with interrupts on. `raced` is a history variable. It
records that a thread was between the read and the write of `MMU_pf_alloc`, or
had a frame in its hands, when another one changed the allocator, mapped the
same page or ended its process.

### How KernelHeap, Ext2 and Loader correspond to the code

`kmalloc` and `kfree` run with interrupts off, so a call is one step of
`KernelHeap`. The heap's state is a record and each function of the code an
operator on it, so that `kmalloc` is `expand_pool` over `MMU_alloc_page` over
`demand_page`, with the failure of each. `MMU_alloc_pages` keeps what it has
reserved before a failure, as the code does. One level of page tables stands
for the three below the kernel's p4. A page of a block is backed when it is
first accessed; if there is no frame then, the page fault handler halts.

In `Ext2` a thread's locals are a record of `rd`, with a stack of return points,
since calls nest: `elf_load_program` calls readdir, which calls `ext2_read_inode`,
which calls `ext2_read_block`, which sleeps. A step leads from one read of a
sector to the next (`SectorStart`, then `SectorRead` by the interrupt handler,
then `SectorDone`), so that the steps of several threads interleave at every
place where the code sleeps. Buffers come from the abstract `Heap`: a block is
nobody else's, and a thread's blocks are numbered on their own. An
allocation succeeds or fails (`Outcomes`); the code checks few of these results,
and what it then does is followed: a buffer at NULL is read as arbitrary
(`GarbagePointers`, `GarbageInodes`, `GarbageEntries`), the error of
`ata_read_block` is ignored, and a read to NULL is never completed. A buffer
is represented by the sectors its parts were read from, and a byte by its
place on the disk: a read that returned another file's or a stale byte shows.

`Loader` is `elf_load_program` step by step. `MMU_alloc_at_as`,
`MMU_copy_to_user_as` and `MMU_zero_user_as` have interrupts off and are one
step each. `StartInit` is the rest of `elf_load` for the boot thread; what exec
does with the image is in `Processes`.

## Runs that pass

| Run | Shows | Distinct states |
|---|---|---|
| `KernelThreads` | one process whose main thread starts and joins workers that lock, read the keyboard and leave: `TypeOK`, `PoolIsRunnable`, `BlockedInOneQueue`, `CpuThreadIsRunning`, `DeadStayDead` (scheduling), `MutualExclusion`, `HandOver` (mutexes), `LiveThreadsExact`, `ThreadListExact`, `NoThreadOutlivesProcess` (thread life cycle) | 163572 |
| `KernelProcesses` | processes of one thread and a kernel thread: `SpacesConserved`, `CharHasReader`, `ImplementsProcessTable` | 165245 |
| `KernelReturns` | a parent that waits in one thread or in two, a child that exits, or two threads that share a mutex; fair scheduling, both outcomes of `printk`: `WaitReturns`, `LockReturns` | 46168 |
| `RoundRobin` | `TypeOK`, `OneRing`, `ImplementsScheduler` (with fairness) | 3406 |
| `Serial` | `NothingLost`, `AllSent`, `ImplementsChannel` | 8156 |
| `Ata` | `RightBlock`, `HeadIsServed`, `ReadReturns` with a drive that does not fail | 26572 |
| `BootMemory` | `ExactlyUsable`, `RegionsDisjoint` | 2187000 |
| `Frames` | a process of two threads and one of one, preempted at every step: `SharedOnlyByRace`, `LostOnlyByRace`, `HaltsOnlyByRace` | 858332 |
| `KernelHeap` | clients allocate, use and free blocks of two pools and of one and two pages until frames run out: `BlocksApart`, `FramesBalanced`, `ImplementsHeap` | 87873 |
| `Loader` | the boot thread mounts the disk and loads one of seven names, up to two allocations failing; then two threads load different programs at the same time: `LoadsImage`, `LoadOutcome`, `NoBlockLost`, `LoadReturns` | 233700 |

## Runs that show a disagreement

| Run | What happens |
|---|---|
| `KernelJoinMissed` | a worker exits between the second test of `thread_join`'s loop and its `CLI`; the joiner sleeps for ever |
| `FramesShared` | two loaders preempted inside `MMU_pf_alloc` get the same frame |

`PROJECT.json` quotes, for each, the line of the repository that says
otherwise.

## Limits of the passing workloads

The workloads above are what the properties hold for. These extensions of them
make a property false. Each is a change of the named constants, for which TLC
finds a trace.

| Property | Fails with | What happens |
|---|---|---|
| `NoThreadOutlivesProcess`, `ThreadListExact` | a worker that calls `clone` while another thread joins | `PROC_unlink_thread`, preempted between its walk and its write, loses the thread just linked; `exit` does not end it |
| `ReadReturns` | `DriveMayFail = TRUE` | a command that ends with an error leaves its reader, and all behind it, asleep |
| `LoadsImage` | a program with triply indirect blocks | `ext2_get_block_number` does not subtract the doubly indirect blocks (`ext2.c:285`); the first index is one too large |
| `LoadsImage`, `LoadOutcome` | a segment whose offset lies behind the end of the file | the error of `lseek` is ignored (`elf64.c:115`), and the bytes at the old offset are loaded |

More limits are part of what the properties state:

* `wait` looks for a zombie and goes to sleep in two steps once interrupts are
  on: from the start if `vga_display_char` has enabled them, and after every
  sleep. A child that exits in between wakes nobody, and the parent may sleep
  for ever. `WaitReturns` excepts this state (`ExitMissed`) and shows that no
  other wake-up is lost. It also excepts what follows when two threads of a
  process find the same child: the second uses it after it was freed
  (`FoundIsValid` is false), and the behaviour is undefined from there on.
* A loader or handler that is preempted inside `MMU_pf_alloc` may get a frame
  that another one got, and a thread ended between `MMU_pf_alloc` and the
  mapping of the frame loses it. `SharedOnlyByRace` and `LostOnlyByRace` except
  this (`raced`) and show that there is no other way.
* The fault handler stops the machine although there is memory if, before it has
  looked, another thread backed the same page or another fault replaced `cr2`.
  `HaltsOnlyByRace` says that these two are the only reasons.
* A read to a NULL buffer, after an allocation of the file system has failed,
  stays at the head of the disk's queue for ever, and all later reads wait
  behind it. `LoadReturns` excepts this (`DiskStuck`).
* `LoadsImage` and `LoadOutcome` speak of loads whose allocations succeeded.
  With a failed one, what is loaded may be arbitrary.
* Nobody frees the inode of a program that was loaded, and its raw data are lost
  if the inode itself could not be allocated. `NoBlockLost` counts these
  blocks as kept.
* After a failed `MMU_alloc_pages` the heap cannot grow any more, as the next
  call finds its first page reserved. `FramesBalanced` holds all the same.

Two properties of `Kernel` are not checked by a run, since they fail as soon as
the workload has what threatens them, and hold for want of it otherwise:
`FoundIsValid` (two threads of a process that wait) and `QueuedIsValid` (`exit`
in a process with a thread asleep, whose parent waits: the dead thread stays
linked in its queue and `wait` frees it). No document promises either. The
theorems `FoundCorrect` and `QueuedCorrect` say for which user code they hold.

## Bounds

* Kernel: four threads (the boot thread and three user threads), up to three
  user processes, one mutex. Three user threads are what a joiner, a target and
  a third party need, or an owner and two waiters. The keyboard buffer holds one
  or two characters, so that it fills.
* `RoundRobin`: three threads, so that Head, Tail and Current can differ.
* `Serial`: a buffer of three slots and `MaxChars` (6) characters, so that it
  fills, and head and tail wrap.
* `Ata`: three readers with `MaxReads` reads each: one in service, one queued,
  one arriving.
* `BootMemory`: eight bytes in pages of two, maps of three entries, images of
  two sections, all of them. `MaxRegions` (5) suffices for the splits.
* `Frames`: three threads in two processes of two pages over four frames in two
  regions, so that memory runs out in each of load, fault and fork, two threads
  of a process fault on the same page and on different ones, and a third
  thread interferes. A state after a race is checked and not followed
  (`NotRaced`): the free list may then run through frames in use, whose contents
  are arbitrary.
* `KernelHeap`: pages of eight bytes, two pools, six frames of which page tables
  take one for every two pages. `MaxHeld` (4) blocks at a time in `MaxAllocs`
  (6) calls exhaust the frames, refill pools and free and remake page tables.
* `Loader`: sectors of one byte, blocks of two sectors, two pointers to a block
  and one direct block to an inode, so that files of ten bytes reach the second
  doubly indirect block. Inodes lie in three groups, whose descriptors take two
  blocks. The root directory has a hole, an unused entry and a last block that
  is cut short. The files are a program that starts within a page and a block,
  one with a hole and an empty segment, one that is cut short, one whose
  segments share a page, one that has a page of the stack, and one that is no
  program; one name does not exist. Up to two allocations fail, which is what
  it takes to pass one unchecked failure and meet the next. Two threads load
  without failures: their buffers are their own, so what they share is the
  disk's queue. At boot, before the file system is mounted, allocations succeed.
  The disk is a valid ext2 file system, and arbitrary pointers are taken from
  the blocks there are.

* `KernelReturns`: the boot thread stays, so that the pool is never empty, and
  three user threads: a parent, its second thread and its child, or a process of
  three threads, two of which share a mutex.

Symmetry is used only in runs without liveness properties, for processes and
address spaces, and for user threads that run the same code or share a process.

## Fairness

* `Kernel!Fairness`: a thread that stays in the pool gets the CPU (`Served`),
  and a thread inside a system call that gets the CPU again and again takes its
  next step. The first is what `RoundRobin` is shown to implement, from a timer
  that keeps ticking and a `yield()` that is not postponed for ever. The second
  holds because kernel code does not spin. Nothing obliges user code to make a
  call, except in `LockFairSpec`, where a holder of a mutex unlocks it: this is
  an assumption about user code, and `LockReturns` is stated under it.
* `RoundRobin!Spec`: some tick finds a thread that is not in the middle of
  `PROC_block_on`. Without it threads that block and wake each other could keep
  the rest from running.
* `Loader`: each thread that is ready takes its next step, and the disk serves
  the request at the head of its queue. The first is what the scheduler is
  shown to do, the second is `ReadReturns` of `Ata`.
* `Serial`, `Ata`: pending interrupts are delivered, the device works, and a
  thread inside the driver goes on.

## Proofs

The theorems hold for every set of threads, processes, mutexes, address spaces,
readers, characters and blocks, every size of buffer and table and, unless said
otherwise, every program. Assumptions about constants are named in the module
that declares them, and TLC evaluates them on every run: objects that the
code allocates separately are distinct (`MultitaskAssumption`,
`ProcessesAssumption`, `StructuresAssumption`, `AtaAssumption`,
`RoundRobinAssumption`, `SerialAssumption`), buffers and pages have a size
(`KernelAssumption`, `BoundedBufferAssumption`, `BootMemoryAssumption`), and what
GRUB provides are entries whose usable ranges do not overlap
(`MemoryMapAssumption`, `SectionAssumption`). `Threads` is assumed to be finite
in `RoundRobin` only.

### Scheduling and mutual exclusion, for every program (`KernelProofs`, `ProcessProofs`)

| Theorem | States |
|---|---|
| `Invariance` | `Spec => []IInv` |
| `TypeCorrect` | `Spec => []TypeOK` |
| `PoolCorrect` | `Spec => []PoolIsRunnable` |
| `QueueCorrect` | `Spec => []BlockedInOneQueue` |
| `CpuCorrect` | `Spec => []CpuThreadIsRunning` |
| `MutexCorrect` | `Spec => []MutualExclusion` |
| `DeadCorrect` | `Spec => DeadStayDead` |

`IInv` is `SchedInv /\ DataInv`. None of the properties is inductive alone.
`rr_remove` on a ring of one empties it whoever the victim is, so
`PoolIsRunnable` needs the caller to be in the pool, hence RUNNING, hence
`CpuThreadIsRunning`. That in turn needs that nothing but a sleeping thread is
in a queue (`QueuedIsAsleep`) and that it is there once (`QueuedOnce`): a
second wake-up would make a running thread READY. `QueuedIsAsleep` needs that a
blocked thread is at a sleep point or is off the CPU, and `UsedIsOwned` that a
thread in use has a process, since `PROC_unblock_one` reads its flags.
`MutualExclusion` follows from `HolderIsOwner`: whoever has returned from a
lock is the mutex's `owner_thread`, which is one thread. The data part types
the remaining variables and says that what a call in progress refers to is of
the right kind (`ArgFits`) and that thread lists contain threads of their
process (`ListedIsOwned`).

The scheduling part is proved once for the primitives, as lemmas about functions
of `core` (`Admitted`, `BlockedOn`, `UnblockOne`, `UnblockAll`,
`WaitersReleased`, `Killed`, `Dead`, `Reschedule`), and each action composes
them; the data part has one lemma per group of actions. That the first wakeable
thread of a queue exists is the least-number principle (`LeastNumber`), a
premise of the lemmas of `KernelProofs` that `ProcessProofs` proves and
discharges.

### Processes and address spaces, for every program (`ProcessProofs`)

| Theorem | States |
|---|---|
| `LifeInvariance` | `Spec => []LifeSpace`, that is `IInv /\ LifeInv /\ SpaceInv` |
| `LiveThreadsCorrect` | `Spec => []LiveThreadsExact` |
| `SpacesCorrect` | `Spec => []SpacesConserved` |

`LifeInv` adds to `LiveThreadsExact` that the count of a process that has exited
is 0, that the kernel's process never exits (the idle thread is one of its
threads) and that thread lists name threads that were allocated. `SpaceInv` says
which address space belongs to which process or to which exec in progress. It
needs `LifeInv`: an exec loads with interrupts on, and its new image is
not lost because it is its process's only live thread, so nobody can end it.

### Threads, mutexes, readers and queues (`ThreadSteps`, `ThreadProofs`)

| Theorem | States |
|---|---|
| `ListInvariance` | `Spec /\ []SoleManager => [](LifeSpace /\ ListInv)` |
| `ThreadListCorrect` | `Spec /\ []SoleManager => []ThreadListExact` |
| `ExitIsComplete` | `Spec /\ []SoleManager => []NoThreadOutlivesProcess` |
| `ProcessTableCorrect` | `Spec /\ []SoleManager => ImplementsProcessTable` |
| `NobodyOrphaned` | `T!Spec => []T!EveryoneHasParent`: in the process table every process has a parent that can wait for it |
| `FoundCorrect` | `Spec /\ []SoleManager /\ []SoleWaiter => []FoundIsValid` |
| `HandOverCorrect` | `Spec /\ []SoleManager => []HandOver` |
| `CharCorrect` | `Spec /\ []SoleManager /\ []ExitSparesReaders => []CharHasReader` |
| `QueuedCorrect` | `Spec /\ []SoleManager /\ []ExitSparesSleepers => []QueuedIsValid` |

These do not hold for every program; the limits above say why. The premises say which programs they hold for:

| Premise | Says | Without it |
|---|---|---|
| `SoleManager` | in a user process one live thread at most runs code that clones or joins threads | `PROC_unlink_thread` loses a thread |
| `SoleWaiter` | in a user process one live thread at most runs code that waits | two waiters find the same child |
| `ExitSparesReaders` | in a user process no thread exits that may have another thread reading the keyboard | a woken reader is killed and its character stays |
| `ExitSparesSleepers` | the same for another thread that reads or waits, in a process whose parent is not the kernel | the dead thread stays linked in a queue and is freed |

They are premises about behaviours, not about constants, since which threads
share a process is decided at run time. `userspace/init.c` satisfies the first
two: only its main thread clones, joins and waits. The first holds in every
workload of the runs, the third in that of `KernelProcesses`, where
`CharHasReader` is checked, so no premise of a property that is also
model-checked excludes what the runs explore.

* The lists. `ListInv` is `ThreadListExact /\ FreedInv /\ CallInv`. After its
  first sleep `thread_join` searches and changes the list with interrupts on:
  `CallInv` says that what it has found is still in the list, and that the
  predecessor it remembers still is one. `FreedInv` says that what was
  freed is dead, and that a process that has exited has no living thread.
  `ThreadSteps` shows which of seven kinds of step each action is, and that each
  kind keeps the invariant; `ThreadProofs` shows that each is a step of the
  process table or leaves it alone.
* `EveryoneHasParent` needs `TableInv`: the kernel's process, to which the
  children of an exiting process go, always runs, and nobody is their own parent.
* `FoundIsValid` follows from `FoundInv`: the child that `wait` has found is
  still a child of its process.
* `HandOver` needs `LockInv`: a thread asleep in `mutex_lock` is in the queue of
  that mutex and in no other, and who is in that queue is such a thread, so
  an unlock wakes and gives the mutex to the same thread; a release
  on exit leaves nobody behind, as all threads of the process have ended.
* `CharHasReader` needs a count, `CharInv`: while a reader sleeps there are at
  most as many characters as woken readers. With that, a woken reader that
  takes its character, or finds none and sleeps again, leaves enough of them.
  The readers are finitely many since live threads are.
* `QueuedIsValid` needs `ValidInv`: who is in a queue is blocked, or was killed in a
  process that is left to the kernel, which never waits. `QueueInv`, common to
  both, says who may be in which queue.

### Drivers and scheduler (`QueueProofs`)

| Theorem | States |
|---|---|
| `NothingLostCorrect` | `Serial!Spec => [](NothingLost /\ RegisterGuarded)` |
| `ChannelCorrect` | `Serial!Spec => ImplementsChannel`: the ring buffer is a bounded queue |
| `AtaInvariance`, `RightBlockCorrect`, `HeadServedCorrect` | `AtaSpec => []AtaInv`, `[]RightBlock`, `[]HeadIsServed` |
| `RRInvariance`, `OneRingCorrect` | `RRSpec => []RRInv`, `[](TypeOK /\ OneRing)` |
| `SchedulerCorrect` | `RRSpec => SchedulerSpec!Spec`: the ring implements the scheduler, up to fairness |

`NothingLost` needs `RegisterGuarded`: thread and handler both write the UART's
register, and neither may do so while it is full. `AtaInv` says that the linked
requests are the sleeping readers in their order (`QueueIsList`), and that the
drive works for the head or exactly one reader is about to start it
(`HeadHasStarter`). It holds with `DriveMayFail`, too. `RRInv` describes the ring
by the sequence of its threads, in which insertion, removal and the choice of the
next thread are computed; the removals of an exit are a loop, for which
`FoldInduction!SetLoopInvariant` is used.

### Memory (`MemoryProofs`)

| Theorem | States |
|---|---|
| `BootInvariance` | `BootMemory!Spec => []BootInv` |
| `RegionsDisjointCorrect` | `Spec => []RegionsDisjoint` |
| `OnlyUsableCorrect` | `Spec => []OnlyUsable`, however small the table |
| `ExactlyUsableCorrect` | `Spec => []ExactlyUsable`, if the table has room for an entry of the map and a split per section (`EnoughRegions`) |

The code parses the map and the sections in loops, which the model writes as
folds. `FoldInduction!LoopInvariant` is the rule for them: a module whose
parameters are the body of a loop and its invariant, instantiated once per
loop. The invariant of the map's loop is that the table holds the
usable pages of the entries seen, that of the sections' loop that it holds those
without the sections seen; each turn adds at most one region, which is why
`EnoughRegions` suffices.

### Only model-checked

* Everything under fairness (`WaitReturns`, `LockReturns`, `ReadReturns`,
  `AllSent`, `LoadReturns`, the fairness in `ImplementsScheduler`): the prover has
  no support for ENABLED.
* The frame allocator (`SharedOnlyByRace`, `LostOnlyByRace`,
  `HaltsOnlyByRace`), the kernel heap (`BlocksApart`, `FramesBalanced`,
  `ImplementsHeap`) and the loader (`LoadsImage`, `LoadOutcome`, `NoBlockLost`).
  The first two are within reach of the rules of `FoldInduction` and not done;
  for the loader the reference definitions are recursive operators, which
  the prover cannot be used with.

## Not modelled

* Interrupt controller, descriptor tables, timer set-up, boot assembly: written
  once, before there is concurrency.
* VGA, `printk`, klibc, md5: output and pure data; only `printk`'s effect on
  the interrupt flag is modelled.
* The refusal of a disk without a valid MBR, and `fs_register`: they run once, at
  boot, before anybody else uses the disk. `ls_recursive` and the boot
  thread's tests of the disk print what the modelled functions return.
* The flags and upper levels of page tables; exit statuses; stacks and registers.
  `MMU_alloc_at` has no caller.
* The user library (`userspace/lib`): each function is one system call
  instruction. User programs are represented by the calls they make.
* The interrupt flag after a failed `kmalloc`, which returns with interrupts off:
  the models let other threads run there, which allows more than the code does.
* The order of the multiboot tags: the model takes the one GRUB uses, with the
  memory map before the sections.
* Two effects that are known and stated by no document: a thread that leaves
  with a mutex keeps it, and a reader killed after it was woken for a character
  leaves the character to the next key press. `PROJECT.json` lists these and
  other hazards with the line where they bite.

## Plan

1. Done: the core, scheduler, buffers, drivers, memory, the heap, the file system
   and the loader, abstract heap and process table; the theorems above.
2. More theorems: `FramesBalanced` and `BlocksApart` for `KernelHeap`,
   `HaltsOnlyByRace` for `Frames`.
3. `Loader` over `Ata` instead of the queue of requests, once the disk driver
   handles errors.
