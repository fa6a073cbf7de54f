# TLA+ models of the COM S 352 xv6 projects

The repository holds three course projects: `project1.a` (a broadcast program),
`project1.b` (an xv6-riscv kernel with `getppid`, `ps` and `getschedhistory`) and
`project1c` (the same kernel with an MLFQ scheduler next to round robin). The
kernels differ in `proc.c`, `proc.h` and the system call tables only; where this
project cites `kernel/...` it means `src/project1c/xv6-riscv/kernel/...`. `fs.c`,
`file.c`, `sysfile.c`, `log.c`, `bio.c`, `virtio_disk.c`, `console.c`, `uart.c` and `umalloc.c`
are the same in both kernels, line by line; `PROJECT.json` names one copy for each
definition.

## Inventory

| Component | State | Operations | Interacts with | What makes it correct |
|---|---|---|---|---|
| Schedulers (`proc.c` 491-860) | `mlfqFlag`, `mlfqParams`, `mlfqQueues`, `p->mlfqInfo`, locals `p`, `rr_index`, candidates | `scheduler`, `RR_scheduler`, `MLFQ_scheduler`, `startMLFQ`, `stopMLFQ`, `mlfq_enque`, `mlfq_delete` | processes through `swtch`, interrupts through `intr_on`, `kalloc` for queue elements | one element per admitted process, in the queue of its priority; quanta and boosts exact; nobody starves; sleepers and zombies are not run |
| Process life cycle (`proc.c`) | `p->state`, `parent`, `killed`, `pid`, `chan`, `p->lock`, `wait_lock`, `c->proc` | `fork`, `exit`, `wait`, `kill`, `yield`, `sleep`, `wakeup` | scheduler, traps, every sleeping subsystem | a process is on one CPU; not freed while on one; no lost wake-up; no orphan; exits complete |
| Log (`log.c`) | header and log blocks on disk, `lh`, `outstanding`, `committing` | `begin_op`, `log_write`, `end_op`, `commit`, `recover_from_log` | buffer cache, every file system call | commits are atomic across crashes; space is reserved; sleepers are woken |
| Buffer cache (`bio.c`, `sleeplock.c`) | buffers, `refcnt`, `valid`, LRU list, sleep locks | `bget`, `bread`, `bwrite`, `brelse`, `bpin` | disk driver, log, inodes | one buffer per block, never recycled in use |
| Files and inodes (`file.c`, `fs.c`, `sysfile.c`) | `ftable`, `itable`, reference and link counts, bitmap, directories | `filealloc/dup/close/read/write`, `iget/ilock/iput`, `bmap`, `itrunc`, `dirlink`, `namex`, `sys_*` | log, buffer cache, pipes | counts match the references; a freed inode is in no directory; blocks belong to one file |
| Pipes (`pipe.c`) | ring, `nread`, `nwrite`, `readopen`, `writeopen` | `pipewrite`, `piperead`, `pipeclose` | `fileclose`, `kill`, `sleep`/`wakeup` | bounded FIFO; no sleep without a reason; freed once, by the last |
| Disk driver (`virtio_disk.c`) | descriptors, available and used rings, `b->disk` | `virtio_disk_rw`, `virtio_disk_intr` | device, buffer cache | descriptors in one request each; each request wakes its own waiter |
| Console, UART (`console.c`, `uart.c`) | input ring `r/w/e`, transmit ring | `consoleread`, `consoleintr`, `uartputc`, `uartstart`, `uartintr` | interrupts, readers and writers | lines in order, nothing overwritten, writers woken |
| Spin locks (`spinlock.c`) | `locked`, `cpu`, `noff`, `intena` | `acquire`, `release`, `push_off`, `pop_off` | everything | mutual exclusion; interrupts restored |
| Memory (`kalloc.c`, `vm.c`, `exec.c`) | free list, page tables | `kalloc`, `kfree`, `uvmalloc`, `uvmcopy`, `exec` | fork, exec, queues, pipes | pages in one place; failures give back |
| Traps, system calls (`trap.c`, `syscall.c`, `sysproc.c`) | `ticks`, per-process counters | `usertrap`, `kerneltrap`, `devintr`, `clockintr`, `sys_sleep`, `sys_ps` | scheduler, devices | killed processes leave; interrupts reach their handler |
| Programs (`broadcast.c`, `unicast.c`) | two pipes, the flags of a message | fork, read, pass on, acknowledge | pipes | all (or the named) receivers get the message, then the parent hears |
| Library (`umalloc.c`, `ulib.c`, `printf.c`) | the free list, `freep` | `malloc`, `free`, `morecore` | `sbrk` | blocks never overlap, none is lost |
| Shell, utilities, tests (`user/*.c`) | descriptors, current directory, variables | system calls in the order the C program makes them | every system call | the results the programs expect, in every interleaving; nothing is left behind |
| Boot, board drivers | | | | not modelled, see below |

Hard behaviours: the MLFQ scheduler keeps a process in a local variable over any
number of context switches; `exit` and `wait` on two CPUs hand over a kernel
stack that one of them still uses; a transaction is shared by concurrent system
calls and cut short by a crash at any block write; pipes are closed, killed and
copied from by several processes at once; inodes are looked up, unlinked, freed
and claimed again between the lock operations of concurrent calls; a call that
runs out of pages, blocks, inodes or table slots half-way must give back what it
took.

## Modules

| Module | Models | State and actions |
|---|---|---|
| `MLFQ` | `scheduler()` and both policies, queues, `startMLFQ`/`stopMLFQ`, one CPU | `pc` says where the scheduler function is; an iteration of `MLFQ_scheduler` is the steps `Charge` (639-686), `BoostVisit`/`BoostDone` (688-721), `AdmitVisit`/`AdmitDone` (723-733), `Pick`/`Resume` (734-792). `queue[l]` is the linked list of level `l`, `cur` the local `p`, `slots` the left-overs in the candidates array, `intr` whether interrupts are on. `startMLFQ()` is a step per statement (`StartTest`, `StartFlag`, `StartM`, `StartN`, and `StartReset` for each queue); `call`, `args` and `level` are where a process is in it, `starts` counts the calls that found the flag clear, and `torn` remembers that one was preempted after it had set the flag. Processes yield, sleep, wake, fork, exit, wait and fault while they run |
| `MLFQ_proofs` | theorems about `MLFQ` | types and priorities; lemmas on lists; the calls of `startMLFQ()`; the invariant of queues, marks and ticks; the bounds under the first start |
| `Proc` | processes on several CPUs, RR dispatch | `mode[c]`/`cpu[c]` follow a hart through `swtch`, `plock` and `waitLock` are the locks that stay held between steps, `kpc` is the position of a process in `fork`, `exit` and `wait` |
| `ProcLifecycle` | the abstract life cycle | `Proc` implements it (`Lifecycle`), by the identity on `state` and `cpu` |
| `Log` | `log.c` with crashes | the three disk areas `home`, `logblk`, `hdr`; the readers' view `cache` with `pinned`; one step per block write and per section under `log.lock` |
| `AtomicFS` | the abstract crash-atomic file system | `Log` implements it (`CrashAtomic`): `durable` is what recovery would make of the disk, `visible` the cache |
| `BufCache` | `bio.c`, `sleeplock.c` | the fields of each buffer, `lru` from the head of the list, `pc`/`buf` where a process is in `bread` or `brelse`, `held` the buffers it has, `pinned` the blocks in the log's list |
| `BlockStore` | the abstract store: one value and at most one holder per block | `BufCache` implements it (`OneCopy`): the value is the valid buffer's, or the disk's |
| `Pipe` | `pipe.c`, with `filedup`, `fileclose`, `kill` | `lock` is held over a copy loop, one byte per step; `holds` are the ends of each process |
| `PipeFIFO` | the abstract bounded FIFO | `Pipe` implements it (`IsFIFO`): `q` is the ring from `nread` to `nwrite` |
| `Pipe_proofs` | theorems about `Pipe` | the inductive invariant, then the refinement of `PipeFIFO` |
| `Log_proofs` | theorems about `Log` | the inductive invariant, the refinement of `AtomicFS`, then the reservation of `begin_op()` |
| `DiskIO_proofs` | theorems about `BufCache` and `VirtioDisk` | the inductive invariant of each, the refinement of `BlockStore`, the lemmas on rings |
| `Inodes_proofs`, `InodesWrites_proofs` | theorems about `Inodes` | the inductive invariant, the lemmas on references and links, and the steps that only look up and drop; then the steps that write, free and claim, the crash, and the theorems |
| `Proc_proofs` | theorems about `Proc` | the inductive invariant, then the refinement of `ProcLifecycle` |
| `Messages` | `project1.a/broadcast.c`, `project1.b/.../unicast.c` | one step per fork, read and write of the parent and of each child; `receiverId` is `All` in broadcast |
| `Kernel` | every system call on files, directories, links, descriptors, pipes, memory and processes, one call at a time | an operator per C function maps a record `k` to the record the function leaves, return value in `k.r`: tables `file`, `inode`, `pipe`, `proc`, counts of free pages and blocks. Sizes are in units (a token of a file, an entry of a directory) |
| `UserProcs` | user processes that run scripts on `Kernel` | `user[p]` is the rest of the program of `p` and its variables; `Step(p)` is one system call, a transaction of a longer `write()`, a wait, a fault or the death of a killed process |
| `Programs` | `sh.c` (parser and `runcmd`), `init.c`, the utilities, `forktest.c`, `stressfs.c` | one script per program, from its `main()` |
| `UserTests` | the tests of `usertests.c` | one script per test, with the results the test demands |
| `Grind` | `grind.c` | `iter()` and a round of each case of `go()` |
| `Inodes` | `fs.c` and `sysfile.c` with their locks, and crashes | one step per stretch under a sleep lock, `iput()` in four (`iput`, `iput_free`, `iput_unlock`, `iput_drop`); `disk` is what the cache shows, `home` what a crash leaves, `itab` the table of inodes in memory |
| `VirtioDisk` | `virtio_disk.c` and the device | `dfree`, `info` as in `disk`; `avail`, `seen` and `used` are the heads on their way to the device, in it and back; the handler acknowledges first and takes one used entry per step |
| `Tty` | `console.c` and `uart.c` | `r`, `w`, `e`, `ring` as in `cons`, `txq` the transmit buffer, `idle` the transmitter; the handler takes a character per step |
| `UserSide_proofs` | theorems about `Tty`, `Messages` and `Umalloc` | lemmas on remainders and on what the ring holds between two counters, a lemma per step, the refinement of `LineEditor`; the sum of the flags, where the message is; pieces of memory, the free list and what each assignment to a header does to them |
| `LineEditor` | the abstract console input | `Tty` implements it (`IsLineEditor`): `lines` is the ring from `r` to `w`, `line` from `w` to `e` |
| `Umalloc` | `umalloc.c` | `heap` maps the addresses of headers to `ptr` and `size`; a step is one turn of the loop of `malloc` or `free` (`call` has its variables), `morecore`, or the program's own `sbrk` |
| `MC...` | | instances for TLC: sets of model values, symmetry, parameter sets, the scenarios of `calls` and the jobs of `files`. `MCParts` extends `BufCache`, `VirtioDisk`, `Tty`, `Messages` and `Umalloc` and runs one of the five in each behaviour |

`Kernel` and its scripts on one side and `Proc`, `Inodes`, `Pipe`, `BufCache` and `Log` on the
other look at the same functions twice: the former has every call, its data and
its failures, and treats a call as one step unless it waits; the latter have the
steps between lock operations and little data.

A section of code that no other modelled code can observe half-way, or whose
intermediate states make no difference to it, is one step: a section under one lock,
for example, or `stopMLFQ()`, which tests a flag and clears it (a clear that comes
after another call's changes nothing). `startMLFQ()` holds no lock and a timer
interrupt in the kernel yields (trap.c:162-167), so the scheduler sees what is written so
far; it is not one step. Where the code tests something that another lock
protects (`killed(p)` in `wait`, `pipewrite`, `piperead`), the test is a step
of its own. Definitions named `Bug_...` are deliberate slips next to the
definition they alter; `PROJECT.json` ("mutants") says which property notices
each of them.

## Runs, bounds and what they show

| Run | Module | Properties | Shows |
|---|---|---|---|
| `mlfq_fair` | `MCMLFQ` | `NoStarvation`, `BottomBoosted` | With m=3 and a boost period n=9, no computing process starves and every process at the bottom level is boosted in the end, also when startMLFQ() is preempted half-way, but for those whose queue element it then throws away. |
| `rr` | `MCMLFQ` | `DeviceAnswers`, `SleeperRunsAfterWakeup`, `ZombieStays` | Under round robin alone the promises of sleep(), exit() and of the scheduler's intr_on() hold, also for processes that die in a trap. |
| `mlfq_zombie` (violation) | `MCMLFQ` | `ZombieStays` | A process that exits while MLFQ is on is resumed and panics. |
| `proc_two` | `MCProc` | `TableSound`, `NoLostChildWakeup`, `BornAlive`, `Lifecycle` | Two CPUs, three slots, four forks with slot reuse, kills by pid (0 too): proc.c refines the life cycle (no process on two CPUs, none freed under a CPU), no wake-up of wait() is lost, no orphan. |
| `proc_fair` | `MCProc` | `ExitCompletes`, `OrphansReaped` | Two fair CPUs, three processes: the locks of exit(), wait() and the scheduler block nobody for ever, and zombies of the first process are reaped. |
| `log` | `MCLog` | `LogSound`, `NeverTooBig`, `SleepersHaveAWaker`, `CrashAtomic` | Three concurrent system calls compete for a log with room for two, with two crashes at any disk write (in recovery too): the log implements the crash-atomic file system, its reservations suffice and nobody sleeps unwatched. |
| `pipe` | `MCPipe` | `PipeSound`, `NoIdleSleeper`, `IsFIFO` | Two processes that fork, share and close the ends and are killed at any point, counters that wrap: a bounded FIFO, freed exactly when nobody can use it, in which nobody sleeps without a reason. |
| `calls` | `MCCalls` | `TestsPass`, `RefsExact`, `NothingLost` | usertests' 65 tests that runtests() calls, six shell sessions and rounds of grind on the whole system-call layer with small tables, few pages, blocks and inodes: in every interleaving of the calls no test finds a wrong result, the kernel does not panic, references and links are counted exactly, nothing is lost when all is quiet, and everything comes to its end (no deadlock). |
| `files` | `MCInodes` | `TreeSound`, `PutNeverBlocks`, `CopiesFresh`, `NoneStranded` | Three processes create, link, unlink, open, write and close the same names and remove and remake directories, interleaved between their lock operations, with a power failure: what a crash leaves is consistent, iput() neither blocks under itable.lock nor frees what others use, and inodes are stranded only in the ways the code leaves open. |
| `files_lost` (violation) | `MCInodes` | `LastPutFrees` | ialloc() may hand out an inode that iput() has just freed on disk but still counts; the new owner's iput() then sees two references and frees nothing. |
| `parts` | `MCParts` | `CacheSound`, `AnswersRight`, `Completes`, `DiskSound`, `IOGoesOn`, `HeapSound`, `OneCopy`, `IsLineEditor` | Five components with small state spaces, each on its own: the buffer cache (three processes, two buffers, three blocks), broadcast and unicast (five children), the disk driver (four processes, two chains at a time), the console and UART (two processes, an input ring of two characters) and malloc() (a heap of 13 units, loop by loop). |
| `mlfq` | `MCMLFQ` | `TypeOK`, `QueuesRight`, `StayBound`, `RunningIsCurrent`, `QuantumBound`, `DispatchesUsedSlot`, `MovesByTheRules` | Three process slots that fork, exit and wait; MLFQ is started with m = 2 and n = 2, stopped and started again, by any process and with a timer interrupt between any two statements of startMLFQ(): in all interleavings with exits, slot reuse, stops and the second start, the queues, ticks and bottom counters follow the rules and the dispatcher runs no free slot. |

Why the bounds are enough. *MLFQ*: three slots let one process be in each of
two levels while a third comes and goes; with m = 2 every level rule occurs
(top, bottom, boost), and `mlfq_fair` has the middle level of m = 3; that m = 1 makes
the top the bottom is in the theorems only, which hold for every m. Two starts show
what a restart inherits, and are enough for two processes to pass the test of the flag
before either sets it; `Params` gives the arguments of each start, its length the number of
starts. The `mlfq` run leaves out sleeps on disks and pipes and faults, which are in `rr`:
their effect is on the interrupt state and on who is runnable. *Proc*: three
slots give a parent, a child that is a parent, and a grandchild to adopt; four
forks reuse slots; two CPUs are what the races need; `kill` gets every pid
but that of the first process, and 0, which no process has. *Log*: three calls of two blocks compete for
a log of four, so one always has to wait, and two calls fill it; two crashes
put one crash into a recovery. The ratio of `LOGSIZE` to `MAXOPBLOCKS` is 3 in
the code and 2 here. *Pipe*: two bytes of buffer against calls of three; the
counters wrap after four bytes; the second process can be forked again after it
has closed both ends. *calls*: the sizes of all tables are given in `calls.cfg`; they are
the smallest with which each test can do what it does (fork until it fails, fill a
file to `MAXFILE`, fill the disk, run out of inodes), and the counts in the tests
(loops of 5, 50 or 1000 rounds) are cut to the round in which the outcome changes.
*files*: two processes run two or three calls each from all pairs of eight
sequences, and three processes one call each from all triples of five, on the names
`a`, `d`, `d/a`; with four inode numbers and three blocks numbers are reused at once and
both `ialloc` and `balloc` fail; the power fails once, at any point. *parts*: in the
buffer cache three processes make two sleepers on one lock, two buffers for three
blocks force recycling, one block can be pinned and a call holds two buffers
(`MaxHeld`) as in `install_trans`; five children of a broadcast, and a unicast to the first, to one in the middle
and to nobody; eight descriptors (`NUM`) are two chains and two to spare, for four
processes; the input ring of two characters and the transmit buffer of one fill at
once, the ring's counters wrap after four, reads ask for up to two characters (a line, `^D`
after a character) and writes for up to two, so that a writer can fall asleep in the middle
of a call; malloc() has a heap of 13 units, requests of
2, 3 and 5 and takes 4 at a time from `sbrk` (4096 in the code). CPUs, system
calls, blocks, bytes and processes are symmetric where `SYMMETRY` is used (safety
runs only).

`CHECK_DEADLOCK FALSE` is set where a system may really stop: the kernel panics
(`zombie exit`, or a fault on `mlfqQueues[-1]` in `mlfq` and `mlfq_fair`), processes that hold both ends of a pipe and all read from it
wait for ever, and the last process closes its ends. `calls`, `files` and `parts` check
deadlock: a step that changes nothing is possible only when every program has ended
(`Finished`, `Done`, `Stopped`), so that any other state without a step is an error, a
shell that waits for a pipe nobody closes, for example.

### Fairness

The scheduler loop never stops and the timer interrupts user code, so `MLFQ`
assumes weak fairness of both, and strong fairness of device interrupts, which
stay pending while interrupts are off. Of the statements of `startMLFQ()` no fairness is
assumed: a call may be preempted and stay half-way. `Proc` assumes strong fairness of the
scheduler of each CPU, of the system call of each process (a spin lock that is
free again and again is obtained in the end) and of the pending timer
interrupt. The other modules are checked for safety only, without fairness; that
somebody is left to wake each sleeper is stated as an invariant
(`SleepersHaveAWaker`, `NoIdleSleeper`, `NoneForgotten`, `IOGoesOn`). In `Messages` every
behaviour ends, and `Completes` says what has then happened. Nothing is
assumed about the making of calls: programs owe nothing, except `init`, which
waits in a loop (`user/init.c`), and a killed process, which exits.

### Where the code departs from what it says

Two runs stop at a counterexample.

* `mlfq_zombie`: the MLFQ loop keeps `p` until its quantum ends and makes it
  RUNNING whatever happened to it. A process that exits is resumed and panics
  the kernel ("zombie exit"). For the same reason one that sleeps returns from
  `sleep()` without a wake-up; sleep loops re-test and sleep again, so the CPU
  polls instead of running others. `SleeperRunsAfterWakeup` and `ZombieStays`
  are therefore checked under round robin only.
* `files_lost`: `iput()` frees an inode on disk and drops `itable.lock` before it
  drops its own reference (fs.c:350-360). `ialloc()` may claim the number in
  between, `iget()` then counts two references, and a file that is unlinked and
  closed in this window is not freed: an allocated inode with no links and no
  references remains. `NoneStranded` (in `files`) shows that this and a crash with open unlinked
  files are the only ways to strand one.

Other departures met while modelling, most of them conditions of the properties that hold:

* `rr_index` counts modulo the size of an earlier candidate set (proc.c:769): when
  fewer processes share the highest priority now, the element it selects is a left-over and
  may be of a lower priority, against proc.c:765. What the left-over can be is bounded by `DispatchesUsedSlot`.
* `broadcast` sets the flags of existing receivers only and adds up all of them
  (broadcast.c:78-81, 103-105): stack contents can make the sum zero too early, or never.
  `AnswersRight` and `Completes` assume zeros (`Garbage`), which is what `exec()` leaves on the
  stack that `main()` starts with (vm.c:241); compiled for another system the flags may hold anything.
* A file created in, or linked into, a directory that has been removed meanwhile
  goes with the directory and keeps a link count of one: `create()` and `link()` do not test
  `dp->nlink` after locking it. One process alone can do it (`mkdir d; cd d; rm ../d; echo > x`).
  `TreeSound` counts these links as `lost`; fs.h:36 calls nlink the "Number of links to inode in file system".
* The parent of a removed directory may be freed while the directory is still
  somebody's current one; a lookup of `..` then panics ("ilock: no type"). `Inodes`
  has absolute paths without `..`; the scripts of `calls` do not do it.
* The shell's `>>` opens like `>` without truncation and overwrites from the
  beginning (sh.c:392-394), and after `cd` the programs of `/` are not found by their names;
  the sessions of `calls` have both.
* `alloc3_desc()` gives descriptors back when there are fewer than three, which wakes the
  others that wait for some: with one or two free two processes wake each other until a request ends.
* The echo of the console writes to the UART without `uart_tx_lock`; `Tty` is the
  machine of the Makefile (`CPUS := 1`), where nothing runs in between.

* `mlfq_delete` never frees the element it unlinks (proc.c:547), so each demotion
  and each boost loses a page, and `mlfq_enque` gives up silently without one:
  `QueuesRight` is checked with enough memory (`BoundedMemory` FALSE).
* `writei` releases a buffer that a bad user address left changed in part
  without logging it (fs.c:521-524): `BufCache` leaves that path out.
* A second `startMLFQ` empties the queues but keeps `addedToMLFQ` (proc.c:821),
  so processes admitted before are in no queue: `QueueComplete` and `StayBound`
  speak of the first start.
* `startMLFQ` sets the flag first, then `m` and `n`, and empties the queues last
  (proc.c:815-824), without a lock. When it is preempted in between, `MLFQ_scheduler` runs:
  - in the first start after the flag, with m = 0: the bottom queue is `&mlfqQueues[-1]`. The
    model lets the word there be a null pointer, so that Rule 5 finds nothing, or one that
    the kernel faults on (`Charge`); a word that is a list by chance is left out.
  - after `m` and before `n`, with n = 0: a process at the bottom is boosted at once, and with
    m = 1 Rule 5 appends the element it has just moved again and again, until `kalloc()` fails.
  - before the queues are emptied, it admits processes and demotes them; the call then goes on
    and throws their elements away. They are marked and in no queue: Rule 5 never counts them, so
    one at the bottom is never boosted, and may wait for ever while others are.
  - in a second start, with the old queues: elements of processes that have moved, or of slots
    that were freed.
  Two processes may also both find the flag clear and both go through; the second then
  counts as a second start, though the flag was never reset.
  What holds nevertheless is in the properties. Nothing in the queues is wrong under the first start,
  at any moment (`QueueSound`), and the counts at the bottom stay right (`StayBound`). Under a later start
  the queues are right once it has returned without having been preempted, and so
  are the marks under the first (`QueueComplete`). A process waits for ever, or at the bottom for ever,
  only after a preempted start that threw an element away (`NoStarvation`: anybody's, because who
  waits may wait for the others; `BottomBoosted`: its own). Without these
  conditions TLC finds the wrong and the lost elements, the process that waits for ever and
  the one that is never boosted.
* Interrupts can stay off for ever in the MLFQ loop, which never turns them on
  (proc.c:635); `DeviceAnswers` is checked under round robin.
* `kill(0)` marks the first free slot (proc.c:982), and the next process in it
  is born killed: `BornAlive` excludes what follows such a call.
* A writer killed half-way returns without waking readers (pipe.c:86), so a
  reader on another CPU goes on sleeping on data: `NoIdleSleeper` excludes
  what follows (`abandoned`).
* `log_write` panics on a full list before it looks for the block in it
  (log.c:220): logging a listed block again is only possible below `LOGSIZE`.

`NoStarvation` depends on the parameters. It holds for m = 3 with n = 9 (the run) or 12
and for m = 2 with n = 6; it fails for m = 2 with n = 2 and for m = 3 with n = 7: all
processes at the bottom, waiting ones too, count every scheduler iteration, so
with a small n they come back to the top faster than the upper levels empty,
and processes of the middle level are not selected. The code does not say which
n to use; the run checks one that works.

## What is proved

`MLFQ_proofs` proves for every process table size, number of levels, set of
parameters with 1 <= m <= `MLFQ_MAX_LEVEL`, workload and memory size:

* `TypeCorrect`: `Spec => []TypeOK`. `TypeOK` is inductive; the lemmas say that
  `Enque` and `Delete` keep lists of slots, that `rr_index` stays below the
  number of candidates, and that the levels reached are valid array indices
  because a demotion happens only above level m-1.
* `RunningIsTheCurrentProcess`: `Spec => []RunningIsCurrent`, inductive together
  with `TypeOK`; the scheduler runs only when no process is current.
* `QuantumNeverExceeded`: `Spec => []QuantumBound`. The bound is inductive with
  `TypeOK`: a level change zeroes the level that is left, and the level that is
  entered has no ticks because no level but the current one ever has.
* `PrioritiesMoveByTheRules`: `Spec => MovesByTheRules`. `QuantumBound` makes a
  demotion happen after exactly a full quantum; that a free slot has priority 0
  (`FreeAtTop`) makes `fork()` change none.

It goes on with the queues:

* `QueuesNeverLie`: `Spec => []QueueSound`, also with bounded memory, at every moment of the
  first start and after every later one that was not preempted. It takes two invariants. `StartInv`
  is about the calls of `startMLFQ()`: under the first start only one process is in it
  (`OneCall`); one that has not been preempted is still on the CPU, and the queues it has passed are empty
  (`TornRight`); until the first call sets the flag the queues are empty and the round robin goes on
  (`FirstRight`), and until it sets `n` nothing has been counted (`StayRight`). `QueueSound`
  is not inductive: a demotion appends the current process to a queue, which is
  right only if that process was admitted. The invariant `QueueInv`, for the moments in which
  the queues can be trusted (`Settled`), adds who may
  be in a queue (`ListsRight`: nobody twice, at his own level, not freed, and a
  zombie only if the scheduler is about to resume it and panic), what Rule 5 has
  still to visit (`WalkRight`), that the queues are empty while the round robin
  goes on after `startMLFQ()` (`EmptyRight`), that a process on the CPU is the
  scheduler's current one (`CurRight`), and that ticks are spent by admitted
  processes, or by one that this iteration will admit (`TicksRight`, `NewAtTop`).
  It rests on lemmas about lists: what `RemoveFirst`, `Append` and both at once
  leave in a queue (`MovedIs`, `EnqueIs`, `ToTheTail` for m = 1).
* `QueuesAgree`: `ASSUME ~BoundedMemory PROVE Spec => []QueuesRight`. The assumption is
  needed: a failed `mlfq_enque()` leaves an admitted process in no queue. So is `~torn` in
  `QueueComplete`; `MarksRight` says that nobody is admitted before the first call has returned,
  if it is not preempted.
* `StayBounded`: `Spec => []StayBound`, with any memory, preempted calls included: until `n` is
  set, Rule 5 runs with n = 0 and boosts instead of counting (`StayRight`).
* `DispatchIsOfUsedSlot`: `Spec => DispatchesUsedSlot`. `SlotsRight`: whoever is in the
  candidates array or in `p` uses his slot, and a zombie among them is the one
  that is resumed, and panics, next.
* `ZombieStaysUnderRR` and `SleeperWaitsUnderRR`: without `startMLFQ()`, what the
  comments on `exit()` and `sleep()` say holds (run `rr`); run `mlfq_zombie` shows
  that MLFQ breaks the first.

`Pipe_proofs` proves for every set of processes and bytes, every capacity and every
counter width that is a multiple of it:

* `PipeIsSound` and `NobodySleepsIdly`, from the invariant `IInv`. The properties
  are not inductive: they speak of moments when `lock` is free, and a sleeper's
  reason may be gone while the process that ended it is still in its critical
  section. `IInv` adds who has which end open (`EndsRight`), that exactly the
  process inside a critical section has the lock (`LockRight`), that what was
  tested there still holds (`TestsHold`), and that a sleeper without a reason
  is about to be woken by the holder of the lock, or its writer was killed
  (`SleepersRight`).
* `PipeImplementsFIFO`: `Spec => IsFIFO`. `IInv` and `NeverOver` (no more than
  `PIPESIZE` bytes between the counters) make every step a step of `PipeFIFO`
  or a stutter. It rests on lemmas about remainders: fewer than `PIPESIZE`
  successive positions fall on different slots (`Apart`), and a counter that
  wraps goes on at the next slot, which needs `PIPESIZE` to divide 2^32
  (`WrapSlot`).

`Log_proofs` proves for every finite set of processes, every set of blocks and
values, every size of the log and any number of crashes:

* `LogIsSound` and `SleepersAreWoken`, from the invariant `IInv`, which says
  where the system is in a transaction: `outstanding` is the number of running
  calls (`CountRight`); whoever commits is alone, and so is recovery
  (`ControlRight`); what the loops have copied so far, from the cache to the log
  and from the log home (`CommitRight`, `BootRight`); the header on disk is empty
  except between the commit and its end (`HeaderRight`); pinned is what is listed
  and not yet installed (`PinsRight`).
* `LogImplementsAtomicFS`: `Spec => CrashAtomic`. Only `write_head()` changes what
  recovery would make of the disk, to what readers see (`HeaderCommits`).
  Installing keeps it, whether done once or again after a crash
  (`InstallKeeps`), and clearing a header whose blocks are all installed keeps it
  too (`AllInstalled`); so recovery is a stutter, and a crash at any point loses
  whole transactions only.
* `ReservedIsEnough`: `Spec => []NeverTooBig`. The invariant `RoomRight` counts one
  reservation for each block that a running call may still write; the blocks
  listed and the reservations together never exceed `LOGSIZE`.

`Proc_proofs` proves for every size of the process table, every set of CPUs,
every bound on pids and every set of arguments to `kill()`:

* `NoOrphans`, `WakeupsReachWait` and `NobodyIsBornKilled`, from the invariant
  `IInv`. A CPU is on the stack of one process, whose lock it holds while it
  comes to it or leaves it (`CpuRight`, `LockRight`); a process in a system call
  is alive, or a zombie that still has to leave its stack (`CallRight`); `fork()`
  has its slot for itself (`KidRight`); the holder of `wait_lock` runs
  (`WaitRight`); after `reparent()` a process has no children and gets none
  (`FamilyRight`); and nobody sleeps who has a zombie child, or one about to
  become a zombie, but for the first process in the moment before `exit()` wakes it
  (`SleepRight`).
* `ProcImplementsLifecycle`: `Spec => Lifecycle`. The step that needs the invariant
  is a state change of a process whose lock is free: no CPU is on its stack
  (`OnNoCpu`), so `scheduler()` may run it and `freeproc()` may free it.

`DiskIO_proofs` proves for every set of processes, blocks and buffers and every
bound on the buffers held:

* `CacheIsSound`: `CacheSpec => []CacheSound`, from an invariant with four parts
  more. A process that is in `bread()` or `brelse()` works on one buffer, which has a
  block and is none of those it has (`ProcsRight`); a sleep lock is held from
  `acquiresleep()` to `releasesleep()` and by nobody else (`LocksRight`); a block has
  at most one buffer, and a pinned one has exactly one (`BlocksRight`); what is
  not pinned is as on the disk (`CopiesRight`). That `bget()` finds a buffer with no
  count behind the others is a fact about the list (`RecycledIs`).
* `CacheImplementsStore`: `CacheSpec => OneCopy`. A block has at most one buffer, so
  that recycling one, or reading a block in, leaves what the store shows unchanged.

It proves for every set of requests and processes and every `NUM`:

* `DiskIsSound`: `DiskSpec => []DiskSound`. `DiskSound` is not inductive: it does not say
  what is on the rings. The invariant has, next to the types, that a request under
  way has three descriptors and its `info` at the head (`RequestsRight`); that a
  descriptor is in one chain or free (`ChainsRight`); that the rings and the device
  hold each chain the driver waits for once and no other, and that a used chain has
  moved its block (`RingsRight`); and that who waits for descriptors lacks them, and
  a used chain has its interrupt (`WakeupsRight`). It rests on lemmas about sequences
  without repetitions (`AppendOnce`, `TailOnce`) and on the count of the descriptors
  that `alloc3_desc()` finds (`ThreeFree`).

`Inodes_proofs` and `InodesWrites_proofs` prove for every finite set of processes,
inode numbers and names, every set of blocks, every sequence of calls of each process
and any number of crashes:

* `CrashLeavesTree`: `Spec => []TreeSound`, the consistency of what a crash leaves.
* `LastReferenceUnlocked`: `Spec => []PutNeverBlocks`, the comment in `iput()`.
* `CopiesAreCurrent`: `Spec => []CopiesFresh`: copies in memory agree with the disk, and
  `ilock()` meets no freed inode.
* `NothingIsStranded`: `Spec => []NoneStranded`.

None of the four is inductive. The invariant `IInv` counts the references of each process:
`Uses(q, i)` is how many he has to inode `i` in his local variables, his descriptor and
his pending `iput()`s, and `ref` is their sum (`RefsRight`, as the number of
pairs of a process and a number up to his `Uses`, so that a step adds or removes one
element). A sleep lock is held by who is at a place where the code holds it
(`LocksRight`). On the disk, a link count is the number of entries, of subdirectories
and of lost links, plus the links that a `link()` or `unlink()` has counted and not yet
made or unmade (`Owed`, in `TreesRight`); what is committed owes nothing, because a group
commits when no call is under way. The hard part is the window of `iput()` between
freeing the inode on disk and dropping the last reference, while `ialloc()` may claim the
number again: the reference that is being dropped counts in `ref` but its owner may not
use it any more, so that `Live(q, i)` excludes it. Who has a live reference has an
allocated inode (`AllocatedRight`), valid once he has locked it (`ReadRight`); a valid copy
agrees with the disk unless it is in that window (`CopiesRight`, `Unlocking`), in which
only a `create()` that has just claimed the number has a live reference (`FreeingRight`); and that
`create()` is alone with its inode until it links it (`MadeRight`).

`UserSide_proofs` proves for every set of processes, any sizes of the input ring and of the
transmit buffer, every counter width that is a larger multiple of the ring's size and
any sizes of the calls (`TtyAssumption`):

* `NobodyWaitsInVain`: `TtySpec => []IOGoesOn`. The invariant `IInv` adds the types, that
  `r`, `w` and `e` follow each other on the circle of the counters, at most a buffer
  apart (`RingRight`), and that who is writing has something left to write
  (`AsksRight`). That a reader who goes to sleep has read all there was is a fact about
  `consoleread()`'s loop (`ReadIs`); that nothing comes in before he sleeps is `cons.lock`.
* `ConsoleIsLineEditor`: `TtySpec => IsLineEditor`. A character stored at `e` is appended to
  the line and changes nothing that is held (`StoreIs`, from `NthStays`: fewer than
  `INPUT_BUF_SIZE` successive places are different slots); what is erased or read is the
  end of the line (`EraseIs`) or the beginning of what can be read (`TakeIs`), no
  further than the first character that ends a line.

It proves for every number of children and of flags, and every set of values of the flags
that `main()` never assigns (`MessagesAssumption`):

* `UnicastAnswersAreGenuine`: `MessagesSpec => []AnswerIsGenuine`, whatever the flags hold.
* `AnswersAreRight`: `ASSUME GarbageCounts PROVE MessagesSpec => []AnswersRight`. `GarbageCounts`
  says that there are no flags but those of the children, or that the others are not
  negative: a negative one could cancel the flag of a child that has not read yet.
* `MessagesComplete`: `ASSUME NoGarbage PROVE MessagesSpec => []Completes`. `NoGarbage` says that
  there are no others or that they are zero: with any other value the sum may never be
  zero, nobody answers, and `main()` waits for ever.

The invariant `MessagesInv` says that the message is in one place (not sent, in the pipe, in
the hands of one child, or answered) and that its flags tell who has not read it.
A child that finds the sum zero concludes that all flags are (`ZeroSum`), which is
true of numbers that are not negative, however many there are.

It proves for every end of the heap, every least amount of `morecore()` and every set of
sizes of requests (`HeapAssumption`):

* `HeapIsSound`: `HeapSpec => []HeapSound`. The invariant `HeapInv` says that memory is laid out
  in pieces from `base` to the break (`Laid`), that the free list holds the blocks that are
  nobody's, in the order of their addresses and with no two touching (`Listed`), that
  blocks have the sizes `malloc()` gave them (`Remembered`), and where `prevp`, `p`, `bp` and
  `freep` are in each loop (`CallRight`). In `free()` there is a place to stop because the
  last free block below `bp` is one (`PlaceFor`), and there is only one such place, from which the
  list goes on above `bp` (`Spot`); two pieces that touch become one and the rest stays
  (`TilesJoin`), and in `malloc()` one becomes two. In between, `Hangs` describes the list
  after the first and before the second assignment to a link.
* `LoopsDoAdvance`: `HeapSpec => LoopsAdvance`, which is stated next to its proof and in no run. The blocks still to pass before a loop stops
  become fewer with every turn (`NextIsNearer`), which with `HeapSound` and a bounded heap is why
  `malloc()` and `free()` return.

Assumed are `ConstantsAssumption`, `PipeAssumption`, `LogAssumption`,
`ProcAssumption`, `BufCacheAssumption`, `VirtioDiskAssumption`, `InodesAssumption`,
`TtyAssumption`, `MessagesAssumption` and `HeapAssumption` alone, which TLC evaluates in the runs of `MCMLFQ`, `MCPipe`, `MCLog`, `MCProc`,
`MCParts` and `MCInodes`. But for the
two hypotheses on flags, on `BoundedMemory` and on `startMLFQ()` named above, no theorem has
others. Only model-checked are the calls (`TestsPass`, `RefsExact`, `NothingLost`) and all
liveness properties, which the prover cannot handle (nor ENABLED). That a loop of the code
ends, or what it computes, is stated of each of its turns; where a fact about a bounded index
needs induction (`UpTo`), it is proved by its least counterexample.

`Kernel`, `UserProcs` and `Programs` define recursive operators (a path is walked, a command
line parsed), and `UserTests` and `Grind` extend them, which rules out proofs about them.

## What is left to do

* `Log` and `BufCache` composed, to bound the buffers a commit needs.
* A model of `MLFQ` on two CPUs, whose queues have no lock.
* `RefsExact` as a theorem about `Kernel`, which needs `Walk` and `WriteBlocks` as functions of an
  index and an invariant of the kernel state `k` between two calls.

## Not modelled

Boot code and board drivers are straight-line register writes. String, printf
and ELF code are sequential conversions. Page tables and the list of free pages
appear as sizes and counts; spin locks as the atomicity of what they protect; ticks
and `sys_sleep()` not at all, since the programs that sleep only wait for others. The counters
of project1.b and `getschedhistory` are statistics nothing depends on. `grep`'s matcher, the output of `ls` and `wc`
and the printing of the tests are left out, as are `usertests`' own driver, its
slow comparison of free pages (`countfree`, stated as `NothingLost` instead) and
`fsfull`, which nobody calls. A console read whose buffer is bad loses the character it has taken
(console.c:112); `Tty` leaves bad buffers out. `mkfs` is
referenced by the Makefile but is not in the tree: `Log` takes from it that the
log on disk is larger than `LOGSIZE` blocks. `m` and `n` outside the arrays are
excluded by assumption, because `startMLFQ` does not check them and the C
program has no defined behaviour there. Nor do `broadcast` and `unicast` check the number of
receivers they are given (broadcast.c:50): `Messages` has it between 1 and the size of `flags`.
`VirtioDisk` has no failing request (virtio_disk.c:316 panics on one), and `Kernel` no argument list
longer than `MAXARG` (sysfile.c:447).
