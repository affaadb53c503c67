# Verification of the lab kernels

TLA+ models of the uCore-derived kernel under `lab8/kern`, the last and most
complete of the operating systems that the labs of this repository build, and of
what only other labs have: the page and object allocators of lab2, copy on write of
lab5, the stride scheduler of lab6. With TLC runs and TLAPS proofs. The earlier labs
hold earlier stages of the same files otherwise.

## 1. Inventory

| component | state it keeps | operations | hard behaviour | what makes it correct |
|---|---|---|---|---|
| processes (`process/proc.c`) | `proc_struct`: `state`, `wait_state`, `flags`, family links; `nr_process`, `current` | `do_fork`, `do_exit`, `do_wait`, `do_kill`, `do_sleep`, `do_yield`, `init_main`, `user_main`, `cpu_idle` | a child exits while its parent decides to sleep; kill against wakeup; zombies handed to `initproc` | no lost wakeup, no process freed twice or never, every process has someone to reap it |
| pids (`get_pid`) | `last_pid`, `next_safe`, `proc_list` | scan, `set_links`, `remove_links` | a cached window that outlives many forks and reaps; wrap-around | pids are unique; the scan ends |
| scheduler (`schedule/sched.c`, `default_sched.c`) | `rq->run_list`, `time_slice`, `need_resched` | `wakeup_proc`, `schedule`, `RR_*` | both `wakeup_proc` and `schedule` enqueue | the queue is exactly the runnable processes; nobody starves |
| timers (`sched.c`) | `timer_list` of differences | `add_timer`, `del_timer`, `run_timer_list` | several timers expire in the loop that unlinks them; the `timer_t` lies on a kernel stack | each timer fires at its own time; none outlives its frame |
| traps (`trap/trap.c`) | `current->tf`, `ticks` | clock interrupt, system calls, the end of `trap()` | `PF_EXITING` and `need_resched` are tested once | a killed process exits; a spent slice gives up the processor |
| semaphores, wait queues (`sync/sem.c`, `wait.c`) | `value`, `wait_queue`, `wakeup_flags` | `down`, `up`, `try_down` | the unit is handed to a waiter that runs later | units are conserved; no waiter is forgotten |
| monitors (`sync/monitor.c`) | `mutex`, `next`, `next_count`, `count` | `cond_wait`, `cond_signal` | signaller and signalled process are both awake | one process inside; nobody left behind |
| philosophers (`sync/check_sync.c`) | `state_sema`, `state_condvar` | take and put forks | test, leave and sleep are separate steps | neighbours never eat together; all finish |
| stdin (`fs/devs/dev_stdin.c`) | ring buffer, wait queue | write (interrupt), read (blocking) | a full buffer, several readers, killed readers | keys read once, in order; no reader sleeps on input |
| open files (`fs/file.c`, `fs.c`, `sysfile.c`, `vfs/vfsfile.c`, `vfs/inode.c`) | descriptor states, open and reference counts, working directory | open, close, read, write, dup, chdir, fork, exec, exit | others run while a call blocks half-way; error paths | counts equal holders; entries are in the states the assertions allow |
| VFS (`fs/vfs/*`, `fs/devs/*`) | device list, bootfs | lookup, mount | reference counts on error paths | every reference given back |
| SFS inodes (`fs/sfs/sfs_inode.c`, `sfs_fs.c`) | inode list, reference and reclaim counts, dirty flags | load, write, sync, reclaim | an inode is looked up while it is reclaimed | one structure for each disk inode, no use after free, no lost update |
| SFS blocks (`sfs_inode.c`, `bitmap.c`) | block maps, sizes, free map | grow, truncate, read, write | the disk fills up half-way; positions beyond a truncated end | no block used twice or lost, maps without holes |
| address spaces (`mm/vmm.c`, `pmm.c`, `process/proc.c`) | kernel stacks, vma lists, page tables | fork, execve, exit, wait | failures at every step | no page with two uses, none lost |
| copy on write (lab5 `mm/vmm.c`, `pmm.c`, `trap.c`) | page `ref`s, `PTE_W` | fork, fault, store | the last sharer takes a page over | processes cannot see that pages are shared |
| program loading (`load_icode`) | the image, the stack | load segments, push arguments | offsets inside pages; pages that are no neighbours | bytes and arguments are where user code reads them |
| page managers (`mm/default_pmm.c`; lab2 `best_fit_pmm.c`, `buddy_pmm.c`) | free lists, marks in pages | allocate, free, merge | a loop that changes the list it walks; stale marks | free and held pages partition the memory |
| object allocators (`mm/kmalloc.c`; lab2 `slub.c`) | SLOB ring, big blocks; slab lists | kmalloc, kfree | merging at both sides; bounds next to a page | nothing lost or given out twice |
| stride class (lab6 `schedule/default_sched_stride.c`, `skew_heap.h`) | strides, skew heap | enqueue, dequeue, pick | overflow of `uint32_t`; a process that joins with stride 0 or an old one | while strides are close the root is the least; who starves, and when |

Boot code, drivers, the debugger, formatting and user programs are not modelled:
they access hardware, print, or are clients of the system calls, whose every order
the models allow.

**Interactions.** System calls enter by `trap()`, run with interrupts off and leave
by its end. Everything that blocks sets `state` and `wait_state` and calls
`schedule()`; everything that wakes calls `wakeup_proc`. The clock interrupt calls
`run_timer_list`, `sched_class_proc_tick` and, for the keyboard, `dev_stdin_write`.
`do_kill` sets a flag and wakes a process whose wait is interruptible. There is one
processor and kernel code is not preempted, apart from the kernel threads
`init_main`, `user_main` and `cpu_idle`, which run with interrupts on.

## 2. Modules

| module | models | composed from |
|---|---|---|
| `Proc` | processes, scheduler, traps | |
| `Links` | the family lists `cptr`, `optr`, `yptr` | |
| `GetPid` | `get_pid`, `proc_list` | implements `PidSpec` |
| `PidSpec` | what `get_pid` promises: some unused pid | |
| `Timer` | `timer_list` | implements `TimerSpec` |
| `TimerSpec` | one independent countdown for each timer | |
| `Sem` | semaphores on wait queues, as operators | |
| `SemLock` | processes that use `Sem` as locks and counters, with `do_kill` | `Sem` |
| `Monitor` | `cond_wait`, `cond_signal`, as operators | `Sem` |
| `PhilSem`, `PhilMonitor` | the two halves of `check_sync.c` | `Sem`, `Monitor` |
| `CheckSync` | `check_sync`: both tables | `PhilSem`, `PhilMonitor` |
| `Stdin` | `dev_stdin.c` | |
| `Files` | descriptor tables, inode counts, and who changes them | |
| `SfsInode` | the inode cache of SFS | |
| `SfsBlocks` | block maps and the free map of SFS | |
| `FreeList` | first fit and best fit | implements `PageSpec` |
| `PageSpec` | what a page manager promises | |
| `Buddy`, `Slob`, `Slub` | the buddy manager, `kmalloc`, lab2's SLUB | |
| `Mm` | pages and page tables of processes, with every failure | |
| `Load` | what `load_icode` writes where | |
| `Cow` | lab5's copy on write | implements `MemSpec` |
| `MemSpec` | a private memory for each process | |
| `Stride` | lab6's stride class with its skew heap | |
| `MCProc` | constants for TLC | |
| `MCLists` | `GetPid`, `Links`, `Timer`, `SemLock` side by side | |
| `MCStride` | `Stride` with a history of overflows | `Stride` |
| `MCLive` | `CheckSync`, `SfsInode` side by side | |
| `MCFs` | `Files`, `SfsBlocks`, `Stdin` side by side | |
| `MCAlloc` | `FreeList`, `Buddy`, `Slob`, `Slub` side by side | |
| `MCMemory` | `Mm` (twice), `Load`, `Cow` side by side | |
| `ProcProofs`, `ProcListsProofs`, `TimerProofs`, `SemLockProofs`, `FsProofs`, `SfsInodeProofs`, `AllocProofs`, `MemoryProofs` | theorems (section 4) | |

Definitions keep the names of the code. Definitions under a comment `Mutant:` are
wrong variants of the definition after them; they are used by no specification and
serve to show that a property can fail.

*Side by side*: components that share no state are put into one module. The variable
`part` chooses one of them at the start and never changes. The module extends the
components that theorems are about, whose variables rest while another part runs, so
that TLC checks the very definitions that the proofs use; of the others it makes
instances, and `x1`, `x2`, ... stand for the variables of the chosen one. The states
of such a run are the sum of the states of its parts, not their product, and a
property of one part is checked in exactly the behaviours of that part. `MCFs` runs
`Files` in two parts that differ in the names calls are made with: two directories; or
one directory, the device and the flags with which `open` loses a reference, where only
the device is opened for writing.

An assertion of the code that fails is a panic. The models record it (`panic`,
`halt`, `stuck`) and nothing happens afterwards.

### Proc

One variable for each field (`state`, `wait_state`, `exiting` for `PF_EXITING`,
`parent`, `need_resched`, `time_slice`), `rq`, `current`, `nr_process`, and `pc`,
the place where a process executes or will resume. An action is one section of the
code in which control cannot change hands: `WaitSleep` is the part of `do_wait`
that sets the state, `Schedule` the switch, `WaitWoken` what follows it. `irq` is
true inside `run_timer_list`, whose iterations are separate actions, so that the
order of the wakeups is free.

* The kernel's own threads: `idleproc` runs the loop of `cpu_idle` and is
  never queued; `initproc` runs `init_main` with interrupts on; the first child of
  `initproc` runs `user_main` until its `execve`. User programs may make any system
  call, in any order, or stay in user mode for ever.
* A process is named by its `proc_struct` and that name is its pid, which `GetPid`
  justifies: at any time pids are unique. Children are the set of the processes
  with that `parent`, which `Links` justifies.
* The timer list is one countdown for each process, which `Timer` justifies.
* `WaitReap` gives a `proc_struct` back with the field values that `alloc_proc`
  writes when it is allocated again. Nothing reads them in between.
* `do_fork` fails when there are too many processes or when memory runs out, at any
  time (`ForkFail`). What it does to memory is in `Mm`, what it does to files in
  `Files`; so is `do_execve`, which changes nothing else.

### Links

The pointers `parent`, `cptr`, `optr`, `yptr` through `set_links`, `remove_links` and
the loop in which `do_exit` hands its children to `initproc`, one action for each
iteration, with nothing else in between. `do_wait` for a pid looks at `parent`,
`do_wait` for any child takes the first zombie of the list.

### GetPid, Timer

`GetPid` takes one iteration of the loop of `get_pid` as one action, so that the
restarts of the scan are visible; the callers hold interrupts off, hence no process
comes or goes during a scan. `Timer` takes an iteration of `add_timer`'s loop as one
action, an iteration of `run_timer_list` as another. The variable `timer` (the time
left) is a history variable and the refinement mapping to `TimerSpec`.

### Sem, SemLock, Monitor, PhilSem, PhilMonitor

An action is one critical section: `down` up to its `schedule()`, the rest of `down`
after the wakeup, `up`, `try_down`. Between any two of them any other process may
run. That is more than the kernel does with kernel threads, which lose the processor
only when they block or when an interrupt arrives, and is what `check_sync` is
written for. `do_kill` does not end a `down`, whose wait state has no
`WT_INTERRUPTED`. The call of `check_sync` in `init_main` is commented out
(`proc.c:1277`); it is modelled as the kernel's own test of these primitives.

### Stdin

Keys are numbered in the order of typing. When the ring is full, `dev_stdin_write`
overwrites the oldest unread slot and leaves both positions alone, so the new key is
read before older ones; the model does the same, and `KeysInOrder` is stated for
histories in which the ring did not overflow. A reader runs from its entry to its
first block, or from its wakeup to its next block or return, in one action, with
interrupts off. A reader that is killed and then, before it runs, also gets a key has
`WT_KBD` as its flags and tries again, which delays its exit until the next key.

### Files

State: for each process its table (`fd`: status, node, access and open count of an
entry), its working directory `pwd`, and the call it is in (`call`); for each inode
`ref` and `opn` (`ref_count`, `open_count`). Every table has one owner, because no
caller passes `CLONE_FS`. A call that reaches a file system or a device may block
there, so it is a start and an end, and other processes run in between; so are the
references that such a call holds meanwhile. Paths are the inodes they name, or a
name that is not there. `lost` is a history variable that counts references nobody
will give back (`O_CREAT|O_EXCL` of a file that exists); `FilesInv` says that every
count is the number of its holders plus what was lost.

### SfsInode, SfsBlocks

`SfsInode` follows one inode number: the structures in memory (`node`), the lock of
each and of the file system, the version on disk. The disk of this kernel is memory
and never blocks; the model lets it block at each access, as the locks of the code
assume, and so checks the discipline of `sfs_lookup_once`, `sfs_fsync` and
`sfs_reclaim` itself. An address that was freed can be allocated again.

`SfsBlocks` has for each file its size, its number of blocks and its map of direct
and indirect entries, and descriptors with positions of their own, of the same or of
different processes. Its disk neither blocks nor fails, as in the kernel; what can
fail is `sfs_block_alloc`, at every point.

### FreeList, PageSpec, Buddy, Slob, Slub

`FreeList` keeps the `next` and `prev` pointers of `list.h`, because the loop that
links a freed block changes the list it walks. A block freed behind all others is
linked to itself (see the findings). `LeaveTop` restricts the callers to those who
never come to hold the topmost page; under it, the manager implements `PageSpec`.

`Buddy` starts at an unaligned page, as the memory does after the kernel image, and
keeps the marks that merged blocks leave behind. `Slob` counts in units, with its
arena, the search start `slobfree` and the pages of big blocks; pages of small blocks
are never given back, as in the code. `Slub` keeps the lists of slab pages and of
free objects, in the order the code keeps them.

### Mm, Load

`Mm` has kernel stacks, page directories, two levels of tables and pages, through
`do_fork`, `do_execve`, `do_exit` and `do_wait`. Every allocation may fail because
memory is used up, and `Failures` names what else may fail (`kmalloc` of a structure,
copying of files, reading of the file, and `vma_create` as well as `mm_map`, which also
refuses areas that are empty or overlap). There is no shared address space. The loops
over pages, areas and segments are recursive functions of the number of turns taken
(`CopyPages`, `DupMmap`, `AllocPages`, ...), each over an operator for one turn
(`CopyPage`, `DupArea`, ...), which is what the proofs are about.

`Load` is about bytes: it runs the loop over segments and pages with pages of eight
bytes, for every program within its bounds, and then pushes the arguments. Pages of
the stack need not be neighbours in physical memory, and a copy through a kernel
`LoadInv` says
exactly what is loaded: a byte of the file if and only if it is not below the start of
its segment within its page, which is every byte when the segment starts at a page
boundary; and all arguments are right if and only if each lies in one page or in pages
that are physical neighbours. The exceptions concern every program:
`tools/user.ld:9` links the text at 0x800020, which is no page boundary (only the data
behind it starts at one, `user.ld:22`).

In `Mm` a segment is the triple of the first page of its area, the end of the area,
and the end of the pages that the loop of `proc.c:860` maps. The loop starts at the
unaligned `p_va` and stops at `mem_end`, so the last page of the area can stay
unmapped: a segment of 0x1000 bytes at 0x800020 has an area of two pages and gets one.
`MmInv` says of an area that only its last page can be missing, and not if it is the
first (`Required`). The instance with ample memory has such a segment, but
none whose unmapped last page is the first of another page table: there `exit_range`,
which walks an area by whole tables, finds no table and keeps the level 0 directory, so
that a page is lost, which `NoPageLost` leaves out.

### Cow, MemSpec

Shared mappings, `PTE_W` and reference counts of lab5 with fork, store, fault, exec
and exit. The refinement maps the contents that each process sees to `MemSpec`, in
which nothing is shared. Data is followed at one place of each page. `load_icode` of
lab5 does not clear the stack pages (`proc.c:721`, `pmm.c:505`) nor the parts of text
pages before and behind the text; `Cleared` names the pages whose place it writes. At
the others a new program finds whatever the last user of the page left, a process or
the kernel, which `MemSpec` allows (`NewProgram`): what it promises is that a child
starts with what its parent has and that a store is seen by its own process alone,
not that memory is clean.

### Stride

The heap with its three pointers for each node, strides of `W` bits compared by the
sign of their difference. Nothing bounds how far strides are apart: processes are
created with the stride 0 (`Fork`, `Exit` frees a slot), sleep for as long as they
like and are woken, and set any of the given priorities, among them 0, which the code
takes for 1, and one above `BIG_STRIDE`, whose pass is 0. The
history variable `apart` tells whether the runnable strides have ever been on no half
of the circle; from then on the comparison is no order. Until then the root is the
least (`RootLeast`), and only a process that joins the others makes it happen
(`OnlyJoinersApart`). `MCStride` adds the history `wrapped`, so that "minimum" can be
read as a number in `PicksMinimum`, which is refuted.

## 3. Runs

| run | question | bounds | states |
|---|---|---|---|
| `proc_safety` | all safety properties of `Proc` | 3 user processes, all of them and `initproc` killable, slice 1, sleeps up to 2 | 468,854 |
| `proc_live` | starvation, sleep, wait, kill | 2 user processes, slice 2, sleeps up to 2 | 30,346 |
| `proc_killed` | does a killed process exit? (no) | 2 user processes | counterexample |
| `lists` | pids: uniqueness, refinement, termination; family lists; timers: refinement to countdowns; semaphores: units, assertion, entry | up to 4 processes in the list, pids 1 to 7; 5 processes under `initproc`; 3 timers, up to 4 ticks; 3 processes, a lock and a 2-unit semaphore | 316,634 |
| `stride` | stride class: pool, order, what breaks the order, progress | 3 process slots, 3-bit strides, `BIG_STRIDE` 3, priorities 0, 2 and 4 | 631,154 |
| `stride_min` | is the minimum stride picked? (no) | as `stride` | counterexample |
| `live` | discipline and progress of philosophers and inode cache | 4 philosophers with semaphores and 1 meal, 3 with the monitor and 2 meals; 3 processes, 2 structures for one inode, 2 writes | 111,458 |
| `fs` | files, blocks, keyboard | 2 processes, 3 descriptors, 2 entries open; 2 files, 2 descriptors, 3 blocks; 2 readers, 2 slots, 5 keys | 676,363 |
| `fs_exit` | does `do_exit` release the table? (no) | as `fs` | counterexample |
| `alloc` | the four allocators | 6 pages, requests up to 2; 7 pages from number 9, requests up to 4; 4 pages of 6 units, 5 blocks held; 3 pages, 4 objects held | 323,823 |
| `freelist_tail` | is a page given out also unlinked? (no) | 4 pages, callers may hold the topmost one | counterexample |
| `memory` | pages of processes, loading, copy on write | 3 processes with 10 and with 19 pages; all programs of one or two segments in three pages of eight bytes, up to 2 arguments; 3 processes, 4 pages | 317,070 |

Why the bounds are enough. Three user processes make a grandparent, a parent and a
child, the smallest family in which orphans, some of them zombies, move to
`initproc` while a fourth process waits; more are covered by the proofs. A slice of 1
spends it at every tick; a slice of 2 keeps part of it. Sleeps of 1 and 2 make timers
expire together or one after the other. `MAX_PROCESS = 5` is the largest number of
processes the three names allow and makes `do_fork` fail at the limit. Five processes
in `lists` give lists with a head, a middle and an end below a process that
exits while `initproc` has children of its own. In `GetPid`,
`MAX_PID` is a little below the code's `MAX_PROCESS * 2`, and histories of any length
wrap around again and again.

Four philosophers are the fewest with two that are not neighbours, so two eat at
once; two meals make the monitor signal again after it was left. Three processes on an
inode are one that loads, one that reclaims and one that looks up or writes, and two
structures let a stale one meet its successor. Three bits and passes of up to 3 wrap
the strides after three turns and let two processes be half the range apart; with
three, the comparison can go round in a circle. Two slots and five keys
fill the ring and wrap it. Two processes share every inode that a table can name and overtake each other in every
call; with three descriptors a table can be full. Two files of up to four blocks
on a disk of three, with one direct entry, use the indirect block and
run out at each step of an extension. Six pages give blocks on both sides
of a freed one and rows that cannot be merged; seven pages from number 9 give buddies
outside the area and blocks that are not aligned. In `memory`, 10 pages are used up
at every point of a fork, while 19 are just enough for three processes, so that a
page is missing only if some path lost it.

The user processes of `proc_safety` are symmetric: the model distinguishes
`idleproc` and `initproc` only. Liveness runs use no symmetry.

`CHECK_DEADLOCK FALSE` appears where the system may stop: the philosophers return, the
input of `stdin` is bounded, writes of `SfsInode` and lost references are bounded,
all processes may exit, the kernel may panic, a program is loaded once, lab2's
SLUB runs out of the pages it loses.

### Properties

* `TypeOK`, `RunQueueExact`: the queue is the runnable processes other than the
  running one, once each. `wakeup_proc`, `schedule`, ticks, kills and exits all
  disturb it.
* `FamilyInv` (`NoLostChild`, `NoOrphan`), `WaitReturns`: nobody sleeps in `do_wait`
  with a zombie to reap, and every process has somebody who will reap it.
* `WakeupLegal`, `QuitClean`: the assertions of `wakeup_proc` and of the end of
  `init_main`.
* `TimerInv` (`TimerOnStack`, `SleepNotCutShort`, `NoStaleTimer`), `SleeperWakes`: a
  timer is never linked beyond the frame it lies in, sleeps last their time, and end.
* `QueuedRuns`, `KilledSleeperExits`: no starvation, and kill ends a sleep.
* `LinksInv` (`ListsExact`, `WaysBack`, `ParentsAlive`): the list of a process ends and
  holds exactly the processes whose `parent` it is, `yptr` undoes `optr`, and parents
  are alive, also in the middle of `do_exit`'s loop.
* `PidsUnique`, `PidAllocSpec`, `GetPidReturns`: pids in use are never given out
  again, whatever the cached window remembers, and the scan ends.
* `CountdownSpec`: every timer fires at its own time, although the list keeps
  differences.
* `UnitsInv` (`UnitsConserved`, `NoIdleUnit`), `DownAssert`, `WaiterEnters`: a unit is
  in the semaphore or with one process; nobody waits for a unit that is there; the
  assertion of `down`; no waiter is overtaken for ever.
* `SemaTable` (`ForksExclusive`, `NoForgottenHunger`), `CondvarTable` (`OneInside`,
  `CountsExact`, `ForksExclusive`), `AllFinish`: Hoare's discipline and what the
  philosophers need of it.
* `StdinInv` (`KeysInOrder`, `NoSleepWithInput`, `QueueExact`), `ShortOnlyIfKilled`:
  reads return what was typed, in order, and no `wait_t` stays queued behind its frame.
* `FilesInv` (`CountsExact`, `EntriesLegal`): `ref_count` and `open_count` of an inode
  equal the number of descriptors, working directories and calls in progress that
  hold it, and an entry is in a state that the assertions of `file.c` allow.
* `CacheInv` (`OneNode`, `NoUseAfterFree`, `CountsExact`, `NoLostUpdate`),
  `UnusedReclaimed`: two processes never work on two structures of one inode, none is
  freed while somebody uses it, what was written is on disk or in memory, and what
  nobody uses is given back.
* `BlocksInv`: a block is free or in one place of one file, maps have no holes, and
  `unused_blocks` agrees with the free map, also after a failed extension.
* `AssertionsExplained`: two assertions of `sfs_inode.c` can fail (see the deviations),
  but only after a truncation by another open, or after the disk ran out in the middle
  of a change of size; every other call keeps positions inside files and as many blocks
  as the size needs.
* `FreeListInv`, `PageManagerSpec`: the list is a ring of maximal free blocks in
  order; a request is refused only if no row of free pages is long enough.
* `SlobInv`, `Lab2Inv` (`BuddyInv`, `SlubInv`): lists, marks and counters agree; free and held
  memory are disjoint and, but for the losses listed below, all there is.
* `MmInv`, `NoPageLost`: no page has two uses, pages lie in their areas; every failure
  path gives back what it took, and `copy_range` gets the pages it asserts. `NoPageLost`
  is stated for ample memory: when it is used up, a level 0 directory allocated for a page table that then fails stays behind.
* `LoadInv`: which bytes of the file, which zeros and which arguments are where user
  code reads them, exactly.
* `CowInv`, `PrivateMemory`: counts equal mappings, and no process can see that its
  pages are shared.
* `StrideInv` (`PoolExact`, `RootLeast`), `OnlyJoinersApart`, `PicksMinimum` (refuted):
  the heap holds exactly the processes that wait, and its root is the least while the
  strides are less than half the range apart, though counters wrap; only a process that
  joins ends that.
* `PooledRuns`: a process in the pool runs. Its conditions are what the code needs: no
  priority stays above `BIG_STRIDE` (its pass is 0, and nobody else would run again);
  and either no process joins any more, from wherever the strides are, or sleepers
  come and go for ever but strides were never half the range apart.

The loop invariants and counters that only the proofs need (`ControlInv`,
`CountExact`, `WindowFree`, `ScanInv`, `Sorted`, `Differences`, `LinkedCount`,
`AddInv`, `QueueExact` of `SemLock`) are part of the inductive invariants below.

### Fairness

* `Proc`: strong fairness of the kernel's steps and of `init_main`, weak fairness of
  a tick that has begun, strong fairness of the clock. The processor executes the
  code it is in; an interrupt can be postponed by code that runs with interrupts
  off, hence strong fairness. Nothing is assumed of user programs: they may loop.
* `GetPid`: the scan goes on, since nothing interrupts it.
* `SemLock`: a process that was woken runs, and one in its section leaves it.
* `PhilSem`, `PhilMonitor`: each philosopher that is not blocked takes its next step
  at some time, which `QueuedRuns` shows of the scheduler.
* `SfsInode`: weak fairness of the steps that end a call, strong fairness of those
  that take a lock, because semaphores hand over to the longest waiter
  (`WaiterEnters`). Nothing is assumed about new calls.
* `Stride`: weak fairness of preemption, which is the clock: the running process
  gives up the processor when its slice is over. Nothing is assumed of wakeups.
* The other modules have safety properties only and assume no fairness.

### Findings

`proc_killed`: the header of `proc.c` (lines 58-59) says that a kill leads to
`do_exit`. `trap()` tests `PF_EXITING` before its `schedule()` (`trap.c:274`), and
`do_kill` wakes only a process that is in an interruptible wait already. A process
that is killed while it is preempted in that `schedule()` returns to user mode. If it
then waits for a child that lives on, nothing wakes it and a second kill returns
`-E_KILLED`. The run shows such a behaviour under the fairness above.
`KilledSleeperExits` is the part of the statement that does hold.

`fs_exit`: `put_files` is inside `if (mm != NULL)` (`proc.c:608`), and `do_execve` has
cleared `current->mm` before `load_icode` can fail and `do_exit` is called. The table,
its open files and its working directory are never released, against `proc.c:1113`.
The property leaves out `user_main`, which never had an address space. In the run it
executes a program and forks; the child executes another one: the open succeeds, its
address space is given up, `load_icode` fails, and it is a zombie with its table.

`stride_min`: the comment at `default_sched_stride.c:106` promises the process with the
minimum stride. The comparison (`:23`) is an order only while strides are less
than half the range apart. In the run one process gets far ahead and sleeps, another
follows, and a new one joins with stride 0 when the first is back: the root
is not the least, with no overflow yet.

`freelist_tail`: the loop of `default_free_pages` that adds a block at the end of the
list (`default_pmm.c:147`) goes on and adds it once more, after itself. Its `prev`
then points to itself, and when it is allocated `list_del` leaves it in the list,
against `default_pmm.c:44` ("unlink the pages from free_list"). Nothing happens as
long as no caller frees the topmost page of the memory.

### Deviations that the models reproduce

The models contain these behaviours, and no property forbids them: the properties above
hold in spite of them, say when they happen, or end with a panic.

* `open` with `O_CREAT|O_EXCL` of a file that exists loses a reference
  (`vfsfile.c:47`); `O_CREAT` of a missing name fails an assertion, because
  `vop_create` does not exist (`vfsfile.c:44`); `getdirentry` on a file or a device
  fails the assertion of `inode.h:196`.
* `load_icode` returns 0 for a bad magic number (`proc.c:736`) and loses the page
  directory if the search of the symbol table fails (`proc.c:757`).
* `copy_range` returns `-E_NO_MEM` when a page table is missing but asserts that it got
  the page itself (`pmm.c:463`), so a fork that takes the last pages for its stack,
  directory and tables stops the kernel where `do_fork` could have undone it.
* `load_icode` maps whole pages from an address inside a page (`proc.c:860`). In every
  later page the bytes below that offset are left out, and the last page is not mapped
  when the segment reaches less far into it than it starts in the first. `proc.c:920`
  copies an argument that crosses a page into the next physical page. `LoadInv` says
  that this happens exactly then.
* Two assertions of `sfs_inode.c` fail. A write at a position beyond the end, which
  another open has cut off meanwhile, asks for a block behind the one after the last
  (`:356`); and the truncation of a file to the size it has finds more blocks than that
  when an extension ran out of blocks before (`:955`).
* `__kmalloc` and `slob_alloc` both add the header to a size (`kmalloc.c:234`, `:99`), so
  sizes just below a page fail the assertion of `slob_alloc`. `load_icode` asks for a
  string table of any size (`proc.c:777`).
* `exit_range` decides from one area whether a level 0 directory is empty
  (`pmm.c:415`).
* `find_order` returns an order that is too small for some sizes (`kmalloc.c:223`).
* When the buffer of the keyboard is full a new key takes the place of the oldest one
  and is read before older ones (`dev_stdin.c:27`).
* lab2's buddy manager serves orders up to `MAX_ORDER - 1` (`buddy_pmm.c:69`), one
  less than its header says; lab2's SLUB does not free objects that are too large for a slab
  (`slub.c:258`).
* lab6's stride class lets a process starve outside the conditions of `PooledRuns`:
  beside one with a priority above `BIG_STRIDE`, under an endless chain of new
  processes, or among sleepers that come and go when strides have been half the
  range apart.
* lab5 gives a new program stack pages with what their last user left in them
  (`proc.c:721`, `pmm.c:505`).
* lab5 retries a store of the kernel to a shared page for ever (`trap.c:223`).

## 4. Proofs

All theorems hold for every value of the constants that meets the named assumption.

* **`ProcProofs`** (`ProcAssumption`: the special processes are distinct and not
  user processes, finitely many of them, slice at least 1). The inductive invariant
  `IInv` is `TypeOK /\ ControlInv /\ RunQueueExact /\ TimerInv /\ FamilyInv /\
  CountExact`. `ControlInv` is what ties the rest together: for each
  control point, which `state` and `wait_state` a process can have there, and
  whether its timer may be linked. Without it a process that is `SLEEPING` could be
  anywhere, and no property of queue or timers would be inductive. From `IInv`
  (`Invariance`) follow `TypeCorrect`, `QueueCorrect`, `WakeupCorrect`,
  `TimerCorrect`, `FamilyCorrect`, `CountCorrect` and the action property
  `ReapedByParent` (`ReapCorrect`: a zombie is freed by its own parent in `do_wait`,
  which no run checks separately). There is one lemma for each conjunct,
  with one step for each action, over lemmas about sequences without repetitions.
* **`ProcListsProofs`**, pids (`PidAssumption`: `MAX_PROCESS < MAX_PID`). `IInv` is `GetPidTypeOK
  /\ PidsUnique /\ WindowFree /\ ScanInv`; `ScanInv` says that the part of the list
  that the scan has passed holds no pid in the window. Results: `UniqueCorrect`,
  `WindowCorrect`, and `Refinement` to `PidSpec`.
* **`ProcListsProofs`**, families (`LinksAssumption`: finitely many processes, `NULL` is
  none of them). `LinksIInv` is `LinksType`, `ParentsAlive` and `Lists`: for each
  process there is an order of its children that `cptr`, `optr` and `yptr` spell out
  (`Chain`). The existential replaces the walk along pointers, which is not inductive
  by itself: `set_links` and the loop of `do_exit` push to the order (`Push`), the loop
  pops from it (`Pop`), `remove_links` cuts an element out (`Cut`), and every other
  list stays (`Keep`). `WalkIsChain` shows that the recursive function by which
  `do_wait` walks is that order followed by `NULL`. Result: `FamilyListsCorrect`.
* **`TimerProofs`** (`TimerAssumption`: `MaxSleep > 0`). `IInv` adds `LinkedOnce` and
  `AddInv`, the state in the middle of `add_timer`, to the properties. Results:
  `ListCorrect`, `OrderCorrect`, `AssertCorrect`, `Refinement` to `TimerSpec`.
* **`SemLockProofs`** (`LockAssumption`: finitely many processes, units are
  naturals). `IInv` adds `SleepsInDown` (whoever sleeps is in a `down`) to the
  properties, since a wakeup would otherwise concern a process that is elsewhere.
  Results: `UnitsCorrect`, `QueueCorrect`, `AssertCorrect`.

* **`ProcProofs`**, continued: `QuitCorrect` is `QuitClean`, the assertions at the end
  of `init_main`. They do not follow from `IInv`, which says that every process has a
  parent, and a cycle of processes would satisfy that. `Rooted` excludes it: of any
  set of user processes one has its parent outside the set, and that is not
  `idleproc`. So when `do_wait` finds no child of `initproc`, nobody is left.
* **`SemLockProofs`**, continued: `SemaCorrect` and `CondvarCorrect` are `SemaTable` and
  `CondvarTable` of `CheckSync`, which the run `live` checks, for any number of
  philosophers (`PhilAssumption`: more than 2, so that the two neighbours are different). `PhilInv` is `PhilType`, `Door` (one philosopher
  at most has the mutex), `Seat` (where each one sleeps, its `state_sema` at each
  place, and that its semaphore has a unit exactly from the moment it may eat until it
  takes it), `Apart` (neighbours do not eat together) and `Passed` (a hungry
  philosopher who could eat is the right neighbour of one that has still to test it).
  `MonInv` is `MonType`, `Baton` (the right to be inside is one unit: in `mutex`, in
  `next` or with one philosopher), `Place` (what `Seat` is for semaphores), `Between`
  (neighbours) and `Counted` (`next_count` is the number of signallers that stepped
  back).
* **`FsProofs`**, keyboard (`StdinAssumption`: a buffer of at least one slot). `StdinIInv` is
  `TypeOK`, `Positions` (the reader does not overtake the writer, who stays within the
  ring), `Lossless` (as long as no key came when the ring was full, each unread slot
  holds the key of its position), `Waiting` (who waits wants more, and who is awake
  without a key was killed), `NoSleepWithInput` and `QueueExact`. Results:
  `StdinCorrect`, and the action property `ShortReads`.
* **`FsProofs`**, descriptors (`FilesAssumption`: finitely many processes; directories, files,
  devices and missing names are different; at least 3 descriptors). `FilesIInv` is
  `TypeOK`, `Owners` (who has a table, and that a table has a working directory),
  `Found` (a call that truncates or loads has its inode), `EntriesLegal` and
  `CountsExact`. The counts are sums over processes; each action changes the share of
  one process, and a lemma, by induction over finite sets, says what that does to the
  sum. Result: `FilesCorrect`.
* **`FsProofs`**, blocks (`SfsBlocksAssumption`: finitely many blocks, sizes at least
  1, and fewer blocks than an inode has entries, as on the disk image, so that a write
  runs out of blocks and not of entries). `SfsIInv` is `FilesOK` (the map of each
  file is `Dense`: no holes, no block twice, the indirect block there when it is
  needed; and `Sized`: no fewer blocks than bytes), `FreeOK`, `OwnersOK` (each block
  is free or of one file) and `DescOK`. A call repeats `sfs_bmap_load` or
  `sfs_bmap_truncate`; `Good(s, X)`, for a file and free map `s` while others own `X`,
  is kept by one turn, hence by the loop. Result: `BlocksCorrect`.
* **`AllocProofs`**, free list (`FreeListAssumption`, and `LeaveTop`: callers never come to
  hold the last page; without it the finding `freelist_tail` breaks the list).
  `ListInv` is `Near(area, N, N)` (the nodes, taken in the order of their addresses,
  are a ring of blocks marked as such, none touching the next), `GivenOK` (callers hold
  disjoint rows), `Partition` (a page is in a block or held) and `Counted` (`nr_free`).
  The other two arguments of `Near` are the blocks that may touch their neighbour: the
  walk of `free_pages` links the freed block before the least larger one (`LinkPlace`),
  and the two merges take the list from there back to maximal blocks.
  Results: `FreeListCorrect`, and `FreeListImplementsPages`, the refinement to
  `PageSpec`: a request is refused only if no row of free pages is long enough, which
  needs the blocks to be maximal.
* **`AllocProofs`**, `kmalloc` (`SlobAssumption`: positive sizes, a page of more than
  two units). `SlobIInv` is `Shared` (the free blocks are a ring, `RingOK`; every unit
  taken from the page manager is in one of them or in one *piece*, and no two pieces
  meet; a piece is a small block with its header, the descriptor of a big block, or its
  pages), `HeldOK` (a pointer without units is the start of a big block, and there is
  one such pointer for each block) and `BigOK` (the pages of big blocks are not spare).
  The ring goes round: a set of free blocks that contains the next of each is all of
  them (`ClosedIsAll`), so the search, wherever `slobfree` left it, meets every block
  within one round (`RingWalkCovers`) and finds the place of a freed block
  (`PlaceFacts`); filling the gap keeps the ring sorted, with the merge on either side
  (`SlobFreeRing`), and taking the front of a block does (`TakeUnitsRing`). `kfree`
  tells big blocks from small ones by their address, which is right because pieces do
  not meet. Result: `SlobCorrect`.
* **`SfsInodeProofs`** (`SfsInodeAssumption`: finitely many processes). `CacheIInv` is
  `TypeOK`, `Working` (who is inside a call works on a structure), `FsHeld` and
  `SemHeld` (the locks exclude), `ReadAlone` (the disk inode is read only if no
  structure is in memory), `Unique`, `Cleared` (a structure that is not linked is
  free), `Dying` (nobody refers to what a reclaim is writing back) and the properties.
  Result: `CacheCorrect`.
* **`MemoryProofs`**, copy on write (`CowAssumption`: finitely many processes, at least one virtual
  page). `CowIInv` is `TypeOK`, `CowMapped` (exactly the processes with an address space
  map pages, and then all), `OwnPages` (none maps a page twice) and `CowInv`. Results:
  `CowCorrect` and `CowImplementsMemSpec`, the refinement: a step of the shared pages
  is a step of private memories or changes nothing that a process can see. A program
  that is loaded picks for `NewProgram` what was left in the places that are not written.
* **`MemoryProofs`**, pages of processes (`MmAssumption`: sizes at least 1, a stack fits
  into memory, each segment is a `Segment`: not empty, below the end of user memory, and
  with pages up to the end of its area or one less). `MmIInv` is
  `MmTypeOK`; `RowOK` of each process (it has a stack if and only if it exists; an
  address space belongs to a live process and is `Full`: pages at addresses
  of its areas only, and at all those that `Required` names, each below tables of its
  own; no page of it has two places, `Distinct`); and that the pages of two processes, and the free ones, are apart.
  `MmInv` counts uses instead, which no step can be shown to keep; `MmSafe` leads from
  one to the other by the bijection from uses to pages. `Good(s, X)`, of an unfinished
  address space with the free pages while others own `X`, is what every turn of every
  loop keeps: a page taken from the free ones gets one place (`Takes`), and what is
  given up is set free (`Released`). `Whole` adds what a fork or load that has
  come this far has mapped, and that a failure can be undone from there (`UndoneBuilt`).
  Result: `MmCorrect`, for every combination of failures at once.

How loops are proved. A loop is a recursive function of the number of its turns.
Induction over the naturals takes an operator as a parameter and cannot be cited, so the
proofs go over a set instead: the turns after which the claim holds are a set `B`;
if it is not all of them, the others have a least element (well-foundedness of `<`, a
library theorem about sets), and one turn contradicts it (`UpTo`). That the
recursive function exists is shown in the same way, for `[k \in i .. m |-> ...]` with
growing `m`, since the function is defined by a `CHOOSE`.

Only model-checked:

* every liveness property (`QueuedRuns`, `SleeperWakes`, `WaitReturns`,
  `KilledSleeperExits`, `GetPidReturns`, `WaiterEnters`, `AllFinish`, `UnusedReclaimed`,
  `PooledRuns`): fairness and `ENABLED` are outside the prover's reach;
* `StrideInv`, `OnlyJoinersApart`: the merge of skew heaps is a recursive operator over
  the heap, whose termination is an induction over trees;
* `Lab2Inv`: its two parts would each take an argument as long as those of
  `AllocProofs`, over the chains of slab pages and the orders of buddies;
* `NoPageLost`: it holds only as long as memory suffices (a level 0 directory whose
  page table cannot be allocated stays behind) and without the loss in the search of
  the symbol table, and whether memory suffices depends on the sizes of all programs;
* `LoadInv`: arithmetic on addresses in a loop over bytes, with division and products
  of variables.

## 5. Not modelled

The modules state their assumptions as definitions (`CowAssumption`, ...), which a
theorem takes as a hypothesis and the MC modules assume of their instances. What could
be added with most profit is a proof for `Buddy`, and the exception dispatch of
`trap.c`.

Left out, and why:

* Boot, interrupt controller, console, clock and disk drivers, page table set-up of
  the kernel, debugger, `printfmt`, strings, ELF definitions, `riscv.h`: hardware
  access, formatting, constants. There is no state that a property is about.
* Path parsing, the search of a directory, `sfs_do_mount`, device registration, the
  copying of data between buffers: sequential, done once at boot or without state of
  their own. The code never writes a directory entry.
* User programs: the models let processes make every system call in every order.
* FIFO and SJF of lab6: not selected, and one list each.
* The labs before lab8 as a whole: the same files at an earlier stage. Each is
  modelled once, in its last form; what only an earlier lab has (lab2's allocators,
  lab5's copy on write, lab6's stride class) is modelled from that lab. The repository
  holds eight such copies, which is why the mapped lines are a small part of all its
  lines although they are most of the kernel's own state-changing code.
