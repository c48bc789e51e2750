# Verification of the xv6 projects (MLFQ/stride scheduler, threads, file system)

TLA+ models, TLC runs and TLAPS proofs for the kernels of this repository.
`src/` holds four xv6 trees: `project1` adds a combined MLFQ and stride
scheduler, `project2` adds threads to it, `project3` keeps the scheduler and
extends the file system (triple indirection, `pread`/`pwrite`, a larger log);
`Reference_code` is another implementation of the scheduler. The project 3
kernel is the final one, and the models follow its source; the threads, which
exist in project 2 only, are not modelled. The only documentation is the comments
and the tests; `src/README.md` names the three projects.

## The system

| Component | State | Operations | Interacts with | Correct when |
|---|---|---|---|---|
| Write-ahead log (`log.c`) | in-memory header `log.lh`, `outstanding`, `committing`; header and data blocks on the disk | `begin_op`, `log_write`, `end_op`, `commit`, `recover_from_log` | every file-system call; pins buffers of `bio.c`; sleeps on `&log` | a crash at any write leaves every system call entirely on the disk or not at all; no update is lost to recycling; the log never overflows; no lost wakeup |
| Scheduler (`proc.c`, `trap.c`) | three queues, the stride table `stable`, `min_pass`, `MLFQ_ticks`; per process `lev`, `time_allotment`, `share`, `pass`, `from_trap` | `scheduler`, `yield`, `boost`, `set_cpu_share`, timer interrupt | life cycle (`allocproc`, `exit`, `sleep`, `wakeup1`) edits the same tables | no process is lost from the queues; demotion happens exactly when the allotment is used up; shares add up to 100; nobody is locked out |
| Process life cycle (`proc.c`) | `state`, `parent`, `chan`, `killed` | `fork`, `exit`, `wait`, `kill`, `sleep`, `wakeup` | scheduler, files, inodes | each zombie is reaped once, no wakeup is lost, orphans go to init |
| Threads (project 2 `proc.c`) | `threads[]`, `num_thread`, `tid`, `ret_val[]` | `thread_create`, `thread_exit`, `thread_join` | scheduler, address space | a join returns the value of its thread and leaves a consistent table |
| Block map and allocator (`fs.c`) | `addrs[]`, indirect blocks, bitmap | `bmap`, `itrunc`, `balloc`, `bfree` | log, buffer cache | distinct offsets have distinct blocks; truncation frees every block exactly once |
| Inode cache (`fs.c`) | `ref`, `valid`, sleep lock, `nlink` | `iget`, `idup`, `ilock`, `iunlock`, `iput`, `ialloc` | block map, log | one cached copy per inode; freed only without links and references |
| Files (`file.c`, `sysfile.c`) | `ref`, `off`, the table of open files | `fileread`, `filewrite`, `pread`, `pwrite`, `filedup`, `fileclose` | inode locks, log | every path releases the inode; chunks of a write use the shared offset in order |
| Buffer cache and disk (`bio.c`, `ide.c`) | LRU list, `refcnt`, `B_VALID`, `B_DIRTY`, `idequeue` | `bread`, `bwrite`, `brelse`, `iderw`, `ideintr` | log, disk interrupt | one buffer per block, requests complete in order |
| Pipes (`pipe.c`) | ring buffer, `readopen`, `writeopen` | `piperead`, `pipewrite`, `pipeclose` | `sleep`, `wakeup`, file table | bytes arrive once and in order, nobody sleeps for ever |
| Console input (`console.c`) | ring buffer with read, write and edit indices | `consoleintr`, `consoleread` | keyboard interrupt, `sleep`, `wakeup` | characters are read once, in order and edited; ^D ends one read; no unread character is overwritten |
| Memory (`kalloc.c`, `vm.c`, `exec.c`) | list of free pages, page directories, kernel stacks, `sz` | `kalloc`, `kfree`, `copyuvm`, `allocuvm`, `deallocuvm`, `freevm`, `growproc`, `exec` | `fork`, `wait` | no page is lost or given back twice, also when a call fails half way |

What is hard in this code: power failures between any two sector writes; group
commit, in which several system calls share one transaction; checks made before
the lock they depend on (`log_write`, `set_cpu_share`); a timer interrupt inside
a system call; queue entries that no longer agree with the level of their
process; tables of fixed size; sleeping on channels without losing wakeups; counts
(`ref`, `nlink`, `refcnt`) that several locks guard; and calls that fail when part of
their work is done.
`PROJECT.json` lists these under "hazards", each at its line, with the
properties that answer it or the reason why none does yet.

## Modules

| Module | Models | Notes |
|---|---|---|
| `TxnDisk` | what the log promises | abstract: a disk that changes by whole transactions |
| `Log` | `log.c`, and `bget`'s recycling | implements `TxnDisk` (`CrashAtomic`) |
| `MCLog` | | instances of `Log` for TLC, symmetry |
| `LogProofs` | | theorems about `Log` |
| `Scheduler` | `scheduler`, `yield`, `boost`, `set_cpu_share`, timer; the life-cycle calls as far as they edit the scheduler's tables | one processor |
| `MCScheduler` | | tables of quanta and allotments for TLC |
| `SchedulerProofs` | | theorems about `Scheduler` |
| `FileIO` | `fileread`, `filewrite`, `pread`, `pwrite`, `readi`, `writei`, the inode's sleep lock | one regular file behind one shared `struct file` |
| `MCFileIO` | | the requests that the instances make |
| `BlockStore` | what the buffer cache promises | abstract: one copy of every block, read and written by the holder of its lock |
| `Bcache` | `bio.c`, `ide.c`, the buffers' sleep locks | implements `BlockStore` (`CacheIsStore`) |
| `BcacheProofs` | | theorems about `Bcache` |
| `MCStorage` | | `Log` and `Bcache` for TLC |
| `FlatFile` | what the block map promises | abstract: a file is a sequence of blocks of its own |
| `BlockMap` | `balloc`, `bfree`, `bmap`, `itrunc` | implements `FlatFile` (`MapIsFlat`) |
| `BlockMapProofs` | | theorems about `BlockMap` |
| `Inode` | inode cache, one directory, file table, `open`, `link`, `unlink`, `dup`, `close` | |
| `InodeProofs` | | theorems about `Inode` |
| `MCFiles` | | `FileIO`, `BlockMap` and `Inode` for TLC and the theorems |
| `FilesProofs` | | theorems about `FileIO` and `MCFiles` |
| `Process` | `fork`, `exit`, `wait`, `kill`, `sleep`, `wakeup` | a component; the next three compose it |
| `Fifo` | what a pipe promises | abstract: a bounded queue of bytes with two ends |
| `Pipe` | `pipe.c`, the counts of its two struct files, with `Process` | implements `Fifo` (`PipeIsFifo`) |
| `PipeProofs` | | theorems about `Pipe`, and what every action of `Process` preserves |
| `Tty` | what console input promises | abstract: a line being edited and the characters committed |
| `Console` | input side of `console.c`, with `Process` | implements `Tty` (`ConsoleIsTty`) |
| `Memory` | `kalloc.c`, `vm.c`, `growproc`, `exec`, with `Process` | |
| `MCKernel` | | `Pipe`, `Console` and `Memory` over one `Process`, for TLC and the theorems |
| `KernelProofs` | | theorems about `Console`, `Memory` and `MCKernel` |

The MC modules put several components into one run. A behaviour has one `workload`,
chosen in its initial state; the steps of a component need its workload and leave the
variables of the others alone. This is a union of models, not an interleaving of them:
`MCStorage` has the workloads `log` and `buffers`, `MCFiles` has `io`, `blocks` and
`names`, `MCKernel` has `pipe`, `console` and `memory`, each of which is an interleaving
with the actions of `Process`; `memory` has no `Kill`: nothing that `fork`, `exec`, `sbrk` and `exit` do with pages tests the flag.

### Log

`lh`, `outstanding`, `committing` are the fields of `struct log`; `dhead`, `dlog`
and `disk` are the on-disk header, the log's data blocks and the home blocks;
`cache` is what `bread` returns for a home block and `dirty` the set of buffers
that carry `B_DIRTY`. A thread is `idle`, `asleep` in `begin_op`, woken (`begin`),
`active` between `begin_op` and `end_op`, `logging` between the unlocked and the
locked half of `log_write`, or the committer. `phase` and `tail` are the program
counter and the loop variable of `commit()` or of `recover_from_log()`. One
action is one section under `log.lock`, or one disk write of a commit; so every
interleaving of the commit with the other threads, and a crash between any two
writes, is a behaviour. A sector write is atomic (the header fits one block, which
`initlog` checks, and `BSIZE` is the sector size). `Recycle` is the second loop of
`bget`: any clean buffer nobody holds may be dropped at any time. Left out: the
reads that do not change anything, the limit `NBUF` (see `Bcache`), and
`get_log_num` and `sync`, which change nothing.

### Scheduler

A process is its slot. Entity 0 is the record `mlfq` on the stack of
`scheduler()`, the first entry of the stride table, which stands for all
processes without a share. `cur` is the process on the processor (0: the
scheduler loop), and `call[p]` says inside which system call a preempted process
is: `set_cpu_share` between its test and its lock, `sys_yield` between
`from_trap = 0` and `yield()`, `allocproc` between its two locked sections, `fork`
between `allocproc` and the child's `RUNNABLE`. The arrays and their sizes are
sequences; the model's guard `Len < NPROC` marks the place where the code writes
past the array, which sets `broken`, as a division by zero does, and ends the
behaviour. The dequeue loop of `yield` runs over all entries and steps over the
one that moves into a gap; `DequeueAll` is its effect. `set_cpu_share` and `exit`
stop at the first entry (`RemoveFirst`). The division of
`MULTSTRIDESHARE` by the share rounds towards zero as in C (`Stride`): the race of
two `set_cpu_share` can make the share of the MLFQ negative. Passes are only compared and copied, so
the model subtracts the smallest one at every charge; `time_allotment` at the last
level is only tested modulo the quantum and kept so; `MLFQ_ticks` is kept modulo
`PERIOD_BOOSTING`. What is coarser than the code: `exit`, `wait` and `sleep` have no
parents, channels or kill flag (any process may reap any zombie, any sleeper may
be woken), which allows more behaviours than the code has; `Process` has them.

This and all other models are of one processor. The Makefile's default is `CPUS := 2`, but the
comments of `trap.c` (147) and `ide.c` (169) speak of `CPUS=1`, and with two
processors each `scheduler()` puts a record of its own into the same stride
table while the first is still in `userinit`; that is listed as a hazard.

### FileIO

`size`, `off` and `holder` are `ip->size`, `f->off` and the owner of `ip->lock`; `req`,
`done` and `r` are the arguments and locals of a call (`done` is `i`), and `pc` says where
it is: at `begin_op`, at `ilock`, asleep in `acquiresleep`, before the `readi` or
`writei`, before `f->off += r`, at `iunlock`, at `end_op`. `begin_op` admits `LogRoom`
operations at a time; the log behind it is `Log`. Contents are left out: `taken` counts
for each position how often it went through `f->off`. Offsets are `int`s that the code
compares as unsigned (`Unsigned`). The inode is valid and a regular file; devices and
pipes take other paths.

### Bcache

`blockno`, `refcnt`, `bvalid`, `bdirty`, `bytes` are the fields of the buffers and `lru`
the list from `head.next`; `idequeue` is the queue of requests, whose head the disk works
on. A thread reads, changes, writes or pins one buffer at a time; `at` is where it is, and
`slept` the threads asleep on their buffer's lock or request. `DiskAfterStart` is what
`idestart` makes the disk do: a write takes the bytes when it starts, a read delivers them
with the interrupt. `LogPin` is `log_write`'s `B_DIRTY`, which keeps a buffer from being
recycled until `bwrite`, and `MaxPinned` how many blocks the log may pin, log.size - 1 in the code. A miss
that finds no buffer to recycle stops the thread where the code panics (`BuffersLeft`). `KillWakes` is a `kill()` that wakes a thread from either sleep:
the code sleeps in loops, and the model tests again as the loops do. The refinement of
`BlockStore` maps a block to the bytes of its buffer when one is valid, else to its sectors.

### BlockMap

`addrs` is `ip->addrs`, `entry` the numbers in each block, `used` the bitmap, `len` the blocks
that `size` covers. `job` is the call of the inode's holder. `bmap` is one step with the part of `writei` that
fills the block: of what other inodes' holders work on it shares only the bitmap, from which it takes
up to four blocks, so where their steps fall between its levels makes no difference but which numbers it gets.
`itrunc` is a stack of frames (the nested loops
of the code), entry by entry, and frees an indirect block when its entries are done. Free
blocks hold junk, so a block that is not cleared shows. `FlatFile` is refined by
following `addrs` and entries from the inode (`Lookup`); it requires that a file only grows at
its end, by a block that no file has, or is discarded as a whole, and that nothing else moves.

### Inode

`slot` is the inode cache, `dinode` the disk's inodes, `dir` the root directory, `file` and
`fds` the file table and descriptors. A call's steps end where it gives up a lock that another
step could take: `iput` has four (the test of `valid` and `nlink` under the sleep lock with the test
of `ref` under `icache.lock`; the truncation with `iupdate`; clearing `valid` with the release of the
sleep lock; the decrement), since between any two of them another process may look the inode
up, count a link or free it. The directory's own inode is always cached and linked, so `iput(dp)`
only locks and unlocks it once more. That matters in `create` and `unlink`, which have an inode
locked meanwhile (`CreatePut`, `UnlinkPut`: steps that wait for the directory); elsewhere the caller
has no lock and the step is left out. The cache has an entry for every inode (`NSLOT >= NINODES`), where
`param.h` has 50 entries for the 200 inodes of `mkfs`: all this removes is the panic of
`iget` when every entry is in use. The log has always room here, and contents are left to
`BlockMap`.

### Process, with Pipe, Console and Memory

`Process` has the table: `state`, `parent`, `killed`, `chan`, `pc`, and `np`, the child that
`fork` is making. Its actions constrain only these variables; `Pipe`, `Console` and `Memory`
conjoin them with what the same calls do to their own state, so that, for example, `exit`
closes the pipe's ends one by one before it becomes a ZOMBIE, and a failed `copyuvm` gives the slot back.
RUNNING and RUNNABLE are one state: every interleaving of runnable processes is allowed.
`pid` is kept as 0 or not, which is all `kill` tells apart: `kill(0)` marks an unused
slot. init is not killed and its `fork` is tried again when it fails.

`Pipe`: `ofile` and `ref` are who has which end and the counts of the two struct
files, `opened` is `readopen` and `writeopen`; `nread` and `nwrite` wrap at `Word`. `todo` is what a
writer still has to write. A section under `p->lock`, up to the next sleep, is one action.

`Console`: `input` is the struct with `r`, `w`, `e`, which wrap at `Uints`; every call of
`consoleintr` with one character is one action, editing keys included. A `^D` after
other characters is put back (`EofKept`).

`Memory`: pages are interchangeable, so the model counts the free ones and records, for each
pointer to a page, whether it is set: `space` is an address space (directory, page tables, pages, `sz`), `build` the one
that `fork` or `exec` is making, `mem` who has a page in hand that is not mapped yet. One action takes
one page; pages are given back in one step (`freevm`), because nobody waits for memory.

| Run | Instance | Shows |
|---|---|---|
| `log_crash` | `log`: 2 threads, 3 blocks, 2 values, LOGSIZE 8, MAXOPBLOCKS 4, 2 writes per operation, crashes. `buffers`: 2 threads, 3 buffers, 4 blocks, at most 1 pinned | safety of the log, with the refinement of `TxnDisk`, over all crash points; the cache implements `BlockStore`, has one buffer per block, nobody sleeps unserved or uses an unread buffer |
| `log_live` | 3 threads, 2 of which fit, 4 blocks, LOGSIZE = NLOG = 4, MAXOPBLOCKS 2, 1 write per operation, crashes | the log is nearly full and `begin_op` refuses threads; it never overflows, threads asleep in `begin_op` are woken, commits end |
| `log_full` (violation) | operations that use MAXOPBLOCKS blocks each | `log_write` panics one block short of LOGSIZE |
| `sched_mlfq` | 2 slots, queues of 3, period 3, fork failures, exits, sleeps, voluntary yields | no process missing from the queues, no allotment past zero |
| `sched_stride` | 3 slots, shares 2, 3 and 4 of 12, of which the MLFQ keeps 4 | shares conserved, stride table exact, passes within one stride; each stride process and the MLFQ as a whole get their turns |
| `sched_race` (violation) | 3 slots, share 5 of 12, 4 to be left | two concurrent `set_cpu_share` take too much |
| `sched_nproc` (violation) | 3 slots, NPROC 3 | a queue overruns with NPROC processes |
| `fileio` | `io`: 3 processes, 1 call each, chunks of 2, file of at most 4, room for 2 in the log. `blocks`: 1 direct block, 2 numbers per block, files of up to 10 and 2 blocks, 24 blocks, a truncation. `names`: 2 processes, 2 names, 2 inodes, 2 files, 1 descriptor each | a shared offset moves exactly once over each byte, no panic, every call returns; the block map implements `FlatFile`, blocks have one owner; links and references are counted, cached copies are current, processes wait in a circle only as in `inode_circle` |
| `inode_leak` (violation) | `names` of `fileio` | a close and an unlink leave an inode without links or references allocated |
| `inode_circle` (violation) | `names` of `fileio` | a `create` and an `unlink` wait for each other's lock |
| `kernel` | 3 slots, one of which is killed. `pipe`: 2 bytes, counters modulo 4, writes of 1 and 3 bytes. `console`: 2 characters, indices modulo 4. `memory`: 16 pages, 2 per page table, sizes that are no multiple of a page | no lost exit, wakeup or kill; orphans are reaped; the pipe implements `Fifo` and is freed with its last user; the console implements `Tty`; no page is lost |
| `fileio_pread` (violation) | 2 processes, `pread` at and beyond the end | the inode stays locked |

Bounds, and why they are enough. In the log two threads make every pair of sections
meet, three blocks and two values let an operation absorb, share and overwrite
another's block, and three threads are needed for one to wait while two run. The
scheduler's 64 slots, levels of 5 and 10 ticks and a period of 200 become 2 or 3
slots, allotments of 2 and a period of 1 to 7: a boost then meets a process at
every level and in the middle of a quantum. `MaxPass` bounds the distance of two
passes: it never stops a behaviour of `sched_stride`, whose
passes stay within 6 of 12, because nobody blocks there; in `sched_mlfq` the MLFQ
is alone in the table. The runs of the stride table use period 1, so that every MLFQ tick
boosts: queues stay short, and the tables under test do not depend on levels.
`CHECK_DEADLOCK` is off in the scheduler's runs other than `sched_stride`, where a
behaviour stops when `broken` is set; in those of files, where it stops when all calls have
been made, when both inodes are leaked, or in the deadlock of `inode_circle`; and in `kernel`, where a process that keeps a write
end of the pipe it reads from sleeps for ever, as in any Unix.

In `FileIO` a file of four bytes and chunks of two let a write take two
transactions, hit the limit in its first and in its second chunk, and meet other
writers between them; the word of 16 makes a negative offset a large one. The
requests of `fileio` contain no `pread` that touches the end of the file, because
that path is the one `fileio_pread` shows to be wrong.

One direct block and two numbers per block give a file all four areas of `bmap` within 15
blocks; a file of 10 reaches into the triple indirect one, past its first double indirect
block, while the other file takes blocks in between and is truncated. Three
buffers and four blocks make every miss recycle. Two names and two inodes let a name be unlinked,
reused and linked again while another process is inside `iput`. Three slots are init, a parent and
a child, so that an exit meets orphans and a wait, and two readers or two writers
meet at one pipe; an orphan that is a ZOMBIE already when its parent exits happens too. A
pipe of two bytes is filled, emptied and wrapped by writes of three.
Sixteen pages are enough for two address spaces and not for a third of full size, so that every
`kalloc` of fork, exec and sbrk fails in some behaviour.

Fairness. `log_live` assumes that the committer, a woken thread and a thread that
has changed a buffer keep running, which the scheduler gives, and that a system
call comes to its `end_op` (strong fairness, because `log_write` may come between;
a call writes finitely many blocks). No fairness is assumed of crashes,
recycling or new system calls. The scheduler's runs with fairness assume that its loop does not stop and
that the timer interrupts whoever runs; that a sleeper is woken is assumed too but
used by no pass run (`Sleepers` is empty there).

`fileio` assumes only that a process which can move does (weak fairness of its
steps), and bounds the calls: sleep locks are not queues, and against others that
call without end a sleeper might lose every race.

`kernel` assumes that a process that can go on inside the kernel does (weak fairness per
process, which the round of the scheduler gives), and that init comes back to `wait` however often it is found
elsewhere (strong fairness: `init.c` calls `wait` between any two forks). Nothing is
assumed of what user code calls, of the keyboard, or of who is killed.

Disagreements found, listed under "findings": the log is one block smaller than
the reservation assumes; `set_cpu_share`
tests before it locks; the queues overrun; `pread` keeps the
inode locked at the end of the file; `iput` tests for the last reference before it drops
it, so that two processes can each leave the freeing of an inode to the other; `create` and `unlink` lock the directory
a second time, in `iput(dp)`, with an inode locked, and deadlock with an `unlink` or `link` that
has the directory and waits for the inode. In addition, the model shows that a stale
entry in queue 1 of a process at level 2 starves processes waiting in queue 2;
nothing in the repository claims the opposite, so it is a hazard and no run.

Met while modelling, and without a run of their own: `boost()` also resets the level of stride processes, against the comments at `proc.c:455` and `proc.c:672`;
the log may pin all buffers but one, so that a process that holds the last one makes
the next `bget` panic; a writer killed in the middle of its bytes on a full pipe returns
without waking readers (the exception in `ReadersWoken`); a slot marked by `kill(0)` is born
killed; `init.c` exits when a fork fails, and `exit` then panics; a console reader
killed after part of a line drops the characters it took; a file that is open and
unlinked at a crash keeps its inode and blocks for ever; `ideintr` marks a buffer valid after a disk error;
`sbrk` to exactly 0 bytes frees the memory and keeps `sz` (`Sizes` leaves 0 out); a stride
process that has slept comes back with its old pass and runs alone until it has caught
up; `pread` tests `offset + n < offset` in signed arithmetic.

## Proofs

`LogProofs` proves, for any finite sets of threads and blocks, any set of values
and any sizes:

* `TypeCorrect`, `CommitsAlone`, `NoUpdateLost`, `Durable`, `WritesAhead`: the
  properties of `log_crash`;
* `NeverPanics`: the safety property of `log_live` (no panic, no slot written outside the log), under `QuotaSlack`. This condition says
  what the sizes must satisfy: an operation writes fewer than MAXOPBLOCKS blocks, and the missing
  block of the log is covered by what operations leave unused. With the values
  of `param.h` and `mkfs.c` an operation may write 38 blocks, not 40. The
  condition is sufficient: `log_live` does not satisfy it, and still does not overflow;
* `CrashAtomicity`: `Log` implements `TxnDisk`.

The assumptions are the named ASSUMEs of `Log`: positive sizes, finite sets, a quota
of at most MAXOPBLOCKS, and a value `NoBlock` outside `Blocks`.

None of the properties is inductive. `CommitAlone` needs that `outstanding` counts
the threads inside an operation (`ThreadInv`); `UpdatesPinned` at the end of a commit
needs that what is installed equals the cache, hence what every phase has already
put on the disk (`DiskInv`); the absence of overflow needs the reservation that
`begin_op` tested to survive the writes of others. For that `SpaceInv` counts
`Reserved`, the blocks each thread may still add: a `log_write` adds one to the header
and uses one of its own reservation up, unless it is absorbed. `IInv` is the
conjunction; `NextInv` has one lemma per action. The refinement maps the durable
contents to `Replay`, what recovery would make of the disk; only `WriteHead` and
nothing before or after it changes `Replay`, which is the lemma `WriteHeadCommits`
together with `ReplayInstall`, `ReplayInstalled` and `ReplayEmpty`.

`FilesProofs` proves `TypeCorrect`, `SharedOffset` and `NeverPanics` of `FileIO` for any number of
processes, any requests whose lengths fit into a word, any chunk and file size. It
includes the `pread` that leaks the lock: the leak stops everyone, but breaks none of
the three. The invariant adds to them that only the holder is between `ilock` and
`iunlock` (`LockInv`), and what `r` and `i` hold at each point (`FrameInv`). The
arithmetic is in `WrapAround`: the wrap of `off + n` is caught by `off + n < off`.

`PipeProofs` proves, for any NPROC, any capacity, any bytes and any
width of the counters that is a multiple of the capacity and larger than it:

* `PipeTyped`, `ParentsLive`, `PipeSleepersWait` and `PipePageHeld`: the slot of a fork is
  nobody else's, everybody has a living parent, nobody sleeps in `wait` or
  `pipewrite` although what it waits for has happened, and the pipe's page lives as
  long as an end of it;
* `SleepingReadersWoken`: the action property `ReadersWoken`;
* `PipeImplementsFifo`: `Pipe` implements `Fifo`.

`Process` has no specification of its own, so `PipeProofs` begins with one lemma per
action; an action of a composing module that only moves `pc` is `CallOf`. `ProcInv`
adds to the properties on which channel a sleeper sleeps (`ChanInv`), that the slot of a
fork is EMBRYO and nobody else's (`SlotInv`), that only a process inside `fork` has one and
that it does not sleep there (`ForkInv`), and that init never exits and has no parent, nobody is its own
parent, and UNUSED and EMBRYO slots have none (`FamilyInv`). Without the last,
`ParentAlive` is not inductive: an exit has to find each of its children. `PipeInv` adds that
`nwrite - nread` taken modulo the word stays within PIPESIZE (`Counters`), that the
counts of the two files are those of the descriptors (`PipeHeld`, `HoldInv`), and who may be
inside which call. For the refinement the queue is `data` from `nread` on;
`QueueForm` and `ContentsSeq` are the arithmetic of two nested moduli that a push and a pop need.

`BcacheProofs` proves, for any number of threads, blocks and buffers and any MaxPinned:
`CacheTyped`, which includes that a block has at most
one buffer, `SleepersAreServed`, `HoldersValid`, and `CacheImplementsStore` (`Bcache`
implements `BlockStore`). `BuffersSufficient` adds that `bget` never panics under `BuffersSuffice`, MaxPinned plus the
threads fit into NBUF. It says what size would do: with NBUF = LOGSIZE, MaxPinned = LOGSIZE - 1 and 64 processes
the condition is false, and so is `BuffersLeft`: no run checks it. (In the model a thread uses one buffer at a time;
`itrunc` uses three.) `BcacheInv` says that `lru` lists every buffer once (`ListInv`), that `refcnt`
counts the threads that use a buffer (`UseInv`), who has which lock (`LockInv`),
that the queue of the disk holds the requests of exactly the threads that wait for one (`QueueInv`, `SleepInv`), that
a valid buffer that is not dirty equals its sectors (`DiskInv`), and that no more than MaxPinned buffers
are dirty outside a write (`PinInv`): under `BuffersSuffice`, the pigeonhole principle leaves
a buffer to recycle. A buffer is recycled only where its block's contents are on the disk,
which is what makes a miss, an eviction and a request steps that the abstract store does not see.

`InodeProofs` proves, for any number of processes, names, inodes and files, and
at least as many cache slots as inodes: `ReferencesCounted` (`ref` counts the files and the calls
that use a slot, and never drops below them), `LinkCountsRight`, `CopiesCurrent` and `CirclesKnown`. The last
says that whenever processes wait for each other's locks in a circle, one of them is in the `iput(dp)` of
`create` or `unlink` and waits for the directory, whose holder is in the circle and waits for that one's inode: who has an inode locked
waits for no lock, except there. So the deadlock of `inode_circle` is the only one that these calls have. The hard part
is that a call counts, tests and writes under different locks. `RefInv` and `LinkInv` therefore count what is
in flight: the references of a call between `iget` and `iput`, and the link that `create`, `link` or
`unlink` has written into the inode or the directory but not into the other one yet.
`FreeInv` says what stays true between the steps of `iput` of what its test found, `DirInv`
what stays true between the two locks of `create` and `unlink`; `InodeLockInv`, `CopyInv`
and `PlaceInv` say what a call holds and what its cached copy is at each of its steps. The
counts are sums of cardinalities, which each action changes at one
or two places; `CountMoves` and its relatives do this once for all actions.

`BlockMapProofs` proves, for any number of direct blocks, any number of entries in a block, any
finite set of disk blocks, any inodes and any sizes: `BlockMapTyped` (no holes), `BlocksOwnedAlways` (every block in
use has one owner, and `itrunc` frees and reads only what is in use) and `MapImplementsFlat` (`BlockMap` implements
`FlatFile`). The difficulty is that the disk is a tree only as long as nobody truncates it: `itrunc`
frees a block and leaves its number in the indirect block above, which it frees last, while
another file may get the block and fill it with anything. The invariant is therefore about `Left(entry)`, the
entries with those that an `itrunc` has passed counted as 0 (`DoneBy`):

* `Owned`: a path from an inode through what is left ends in 0 or in a block in use; two
  paths with the same end are the same, so nothing is shared; and every block in use is at
  the end of one. This contains that no block is its own ancestor, and that a block of data is not a block of numbers too.
* `FramesAt`, `FrameDepths`: the blocks that an `itrunc` has read are those on one path (`FramePath`),
  each one entry before where the frame above has got to, at the depth that the address gives them.
* `Covered`, `NoHoles`: what a file owns is on the way to a block that its size covers, and those
  blocks are all there, unless an `itrunc` is at work.

`PathInduct` is the induction over paths, which have at most four levels, written out. What a step does is one
statement about `LookIn`: a level of `bmap` adds one path (`Reach`, with how many free blocks are left) and changes no
other; `itrunc` takes away one path, that of the entry it passes, and only where nothing is left below it.
That the paths of two block numbers differ is `ThreeDigits`, the arithmetic of two nested
divisions; for the refinement it gives that filling one block moves no other.
The last free blocks are no case: `WriteBlock` asks for four of them, since `balloc` panics on a full disk.

`FilesProofs` proves in addition, of `MCFiles`, the composition of `FileIO`, `BlockMap` and `Inode` that the run
`fileio` checks: `FilesInvariant` and `FilesTyped`. No step of a part changes the state of
another, so `FilesInv`, the conjunction of the three invariants, is inductive.

The named ASSUMEs of these modules say no more than the above, and that the value for
an unlocked lock (`"nobody"`) is not a thread or a caller.

`SchedulerProofs` proves, for any slots, any table sizes, any quanta, allotments and
boosting period, and any shares: `TablesTyped`, `NobodyLost`, `AllotmentsHold`, `SharesSumUp`,
`StrideTableExact` and `ShareProportional`. All are under `ProperShares`: nobody asks for a
share of 0, and no process calls `set_cpu_share` twice. The code tests neither, and both
break it (a division by zero, and a second entry in the stride table); they are in the list of hazards. The race of two processes in `set_cpu_share` is
included: it may take the MLFQ below its 20 points, but no point is lost or made. `SchedInv` adds to the
properties where a process may be and with what allotment (`PlaceInv`), and that the child
of a fork is an EMBRYO in nobody else's hands and already queued (`CallInv`, `Newborn`). The
first is what makes `AllotmentLeft` inductive under `boost`, which resets the levels of everybody and moves
nobody, the second what makes `NoLostProcess` inductive where `fork` fails after
`allocproc` has queued the slot. The dequeue loop of `yield` has no break and skips entries;
that it takes nobody but the caller off the queue is `DequeueAllLeaves`, on the ranking
function of `Ranks`. Where the code asks for one entry, `RemoveFirstOnce` shows that of an injective table
exactly it is gone. The sum of the shares is the cardinality of a set of points, one pair of a process
and a number for each point it holds (`SharesMove`). `ShareProportional` is about runs in which no process
blocks (`Sleepers = {}`) and the MLFQ keeps its 20 points (`[]MlfqKeepsShare`, which the run
`sched_race` shows the code not to guarantee): in them the entity picked has the smallest pass of all
entries, and is charged at most the stride of the smallest share.

`KernelProofs` proves the safety properties of the run `kernel` under its specification
`KernelSpec`, for any number of processes, any sizes of the rings that divide the range of their
indices, any number of pages, any page size and any number of page tables, of which userinit
needs `KTABS + 4` pages: `KernelTyped`, `KernelSleepersWait`,
`KernelParentsLive`, `KernelPipeHeld`, `KernelMemorySound`, `KernelReadersWoken`, and the refinements
`KernelPipeIsFifo` and `ConsoleImplementsTty`. `KernelInv` is the conjunction of three invariants, and a
step of one component keeps those of the others: such a step is `NotOfPipe`, it puts nobody to sleep on
a channel of the pipe and takes nobody in or out of a call of the pipe (`NotOfConsole` likewise).

* `ConsoleInv`. `RingInv` says that `r`, `w` and `e` stand in this order within INPUT_BUF places of each
  other, and that the line being typed holds no newline and no ^D (`LineInv`), since these commit it at once;
  without it `^U`, which stops at a newline, would not be an erasure of the whole line.
  `SpansInRing` reads the ring as two sequences, so that each handler is one statement about
  them: `TypedStep`, `CutStep`, `ReadMoves`. A reader sleeps only where everything committed is read
  (`ReadersSleepEmpty`).
* `MemInv`. `PagesConserved` counts pages as pairs of a process and a pointer (`Held`), so
  that an exchange of one page table changes the sum by the difference of its pointers (`HeldMoves`), and
  an action is a balance of five terms (`PagesBalance`). It is inductive only with what a call has
  under way: outside of fork and exec nothing is being built, a page in hand waits for its page table
  and for nothing else (`CallPages`), a slot that a failed fork gives back has no address space yet
  (`SlotPages`), and no call has mapped a page above the size that it was asked for, so that with no page missing
  the pages are exactly those of the new size (`Mapped`, which is `SizeMapped` of one process).

Only model-checked. Liveness (`SleepersWoken`, `CommitEnds`, `EntityTurn`, `CallsReturn`,
`KilledDies`, `OrphansReaped`) is out of the proof system's reach. Every safety property and every
refinement that a passing run checks has its theorem.

## Plan

The components that carry the kernel's own logic are modelled, and what the runs check of
their safety is proved. What would add most:

* `FileIO`, `BlockMap` and `Log` in one model, so that the chunk of `filewrite` can be
  compared with the blocks that a write through three levels logs (a hazard without a property);
* a second processor in `Scheduler`;
* liveness, which stays with TLC.

## Not modelled

* Threads (project 2). `thread_create` copies the arguments through a trap frame whose stack
  pointer `allocproc` has not set, and `thread_join` calls `sleep` with a null lock, where
  `sleep` panics: the code has no behaviour after these points, and a model would be
  one of what it was meant to do.
* `Reference_code`, another student's scheduler for project 1, and the three older copies of the
  files that project 3 has in their final form. `src/` holds xv6 four times, so that a complete
  model of one kernel covers less than a quarter of the lines.
* Two processors: see above.
* A tree of directories (`mkdir`, `chdir`, `.` and `..`), and the splitting of paths.
* Output to screen and serial line, scan codes, `memide.c`, disk errors.
* Boot code, interrupt controllers, descriptor tables and assembly, which set up hardware and keep no state the
  properties speak of; argument checks of system calls.
* `mkfs` enters through NLOG; user programs are the environment, `init.c` through the
  fairness of `wait`. `usertests.c` and the projects' test programs are tests of the
  kernel, not parts of it.
* Spinlocks by themselves: a section under one is one action.
