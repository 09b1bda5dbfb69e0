# A TLA+ development for the SVR4 kernel

This directory models parts of the kernel under `uts/i386` in TLA+, checks them
with TLC on small instances, and proves with TLAPS, for any number of processes,
the main safety properties of the futex calls, the callout table, semaphores,
process and thread lifetime, record locks, messages and the buffer cache. Paths below are relative to
`uts/i386` unless they start with `extras/` or `docs/`.

The kernel is UNIX System V Release 4 for the i386, compiled by a modern
compiler, plus new code: user threads and futexes (`os/thread.c`), `/dev/ws`,
a few drivers and system calls. It is uniprocessor. A process in the kernel is
not preempted: it gives up the processor in `sleep()` (`os/slp.c`), at an
explicit `PREEMPT()`, or when it returns to user mode. Interrupts come between
any two instructions unless the priority level (`splhi()`, `spl7()`) keeps them
out. Nearly every concurrency question in this code is therefore one of two:
what can an interrupt do between two `spl` sections, and what can other
processes do during a sleep.

## 1. Inventory

| Component | State | Operations | Interacts with |
|---|---|---|---|
| futex calls, `os/thread.c` | `futex_waiters` list, one `futex_waiter` per wait | `futex_wait`, `futex_wake`, `futex_timeout` | callout table, `sleep`/`wakeprocs`, signals, user memory |
| callout table, `os/clock.c` | `callout[]` heap, `calllimit`, `timeid`, `lbolt`, `dotimein` | `timeout`, `ttimeout`, `untimeout`, `clock`, `timein` | every user of timeouts; `ml/ttrap.s` runs `timein()` at ipl 0 |
| semaphores, `os/sem.c` | `sema[]` headers, `sem[]` values and wait counts, `sem_undo[]`, the chain `semunp`, the buffer `semtmp` | `semop`, `semctl`, `semget`, `semexit` | `sleep`/`wakeprocs`, `copyin`, exit, fork failure |
| processes and threads, `os/fork.c`, `os/exit.c`, `os/thread.c`, `vm/seg_u.c` | `proc_t` entries: state, parent, next of kin, `STHREAD`, `SVFORK`, `SVFDONE`, `SNOWAIT`, `p_as`; `oldproc` | `newproc`, `vfork`, `thread_create`, `relvm`, `vfwait`, `exit`, `thread_exit_current`, `segu_release`, `freeproc`, `waitid` | exec, signals, address spaces |
| sleep and wakeup, `os/slp.c` | hashed sleep queues, `p_wchan` | `sleep`, `wakeprocs`, `unsleep`, `setrun` | everything |
| signals, `os/sig.c` | `p_sig`, `p_hold`, queues | `psignal`, `issig`, `psig`, `sigcld` | sleep, exit, job control |
| clock, `os/clock.c`, `os/todc.c` | `lbolt`, `time`, `hrestime`, `one_sec`, accounting | `clock`, `adjtime` | callout table, dispatcher |
| dispatcher and classes, `disp/` | run queues, priorities, `runrun`, `curpri` | `swtch`, `setbackdq`, `ts_*`, `rt_*` | sleep and wakeup |
| record locks, `os/flock.c` | ordered lock list per vnode with `wakeflg`, the chain `sleeplcks`, `flckinfo.reccnt` | `reclock`, `chklock`, `cleanlocks`, `flckadj`, `deadflck` | file systems, NFS lock manager, RFS recovery |
| buffer cache, `os/bio.c` | hash chains, `bfreelist` with its memory and `B_WANTED`, flags per buffer | `getblk`, `bread`, `breada`, `brelse`, `bwrite`, `bawrite`, `bdwrite`, `blkflush`, `biowait`, `biodone` | drivers, file systems, `fsflush` |
| STREAMS, `os/streamio.c`, `os/strsubr.c`, `io/stream.c` | queues and bands with counts, `QFULL`, `QWANTW`, `QENAB`; `qhead`, `qrunflag`, `queueflag`; `WSLEEP` | `putq`, `putbq`, `getq`, `flushq`, `flushband`, `bcanput`, `qenable`, `runqueues`, `strwrite`, `qattach`, `qdetach` | terminals, pipes, TCP/IP |
| messages, `os/msg.c`, with maps, `os/malloc.c` | `msgque[]` with a lock byte each, headers `msgh[]`, free list `msgfp`, text map `msgmap` | `msgget`, `msgsnd`, `msgrcv`, `msgctl`, `rmalloc`, `rmfree` | sleep, copies that fault |
| shared memory, `os/shm.c`, allocator, `os/kma.c` | segment table, pools | `shmat`, `shmdt`, `kmem_alloc` | virtual memory |
| FIFOs, `fs/fifofs` | reader and writer counts | open rendezvous, close | STREAMS |
| virtual memory, `vm/` | address spaces, segments, pages, hat | `as_dup`, `as_fault`, pageout | everything |
| name cache and vnodes, `fs/dnlc.c`, `fs/vnode.c` | cache entries, hold counts | `dnlc_enter`, `dnlc_lookup`, `dnlc_purge` | file systems |
| file systems, `fs/*` | inodes, directories | vnode operations | buffer cache, VM |
| TCP/IP, RPC, NFS, RFS | connections, timers | protocol input and output | STREAMS, callouts |
| drivers, window system, boot, machine layer | device registers | | |
| host tools, build recipes, user programs | files | | not kernel code |

What is hard: the interrupt-level race of futexes with their timeout; a heap
changed from interrupt level; wait counts that wakers clear and interrupted
sleepers decrement; rollback of a half-done `semop()`; one kernel buffer used
across a `copyin()` that may sleep; process entries freed by the *next* process
to run; four different sleeps on `proc_t` addresses; address spaces shared by
threads and lent by `vfork()`; lock records that are split, shrunk and freed under
sleepers; buffers looked up before a sleep and entered after it; one wanted flag
for three kinds of sleeper; flow control whose two ends are joined only by flags
in a queue that may be flushed, popped or pushed in between. `PROJECT.json` lists each at its line under
`hazards`, with the properties that would catch it.

What makes the modelled components correct:

* futex: no wakeup is lost, none is given to the wrong wait, a wait ends when it
  should, no freed block is reachable from the list or from a timer;
* callouts: what is armed is called once, in order, not early, unless cancelled;
* semaphores: `semop()` is atomic although it works in place and rolls back; a
  sleeper whose operation can be done is awake; exit gives back what was taken;
* record locks: the list says exactly which bytes each owner has, a sleeper is
  behind a lock that is there, and sleepers never wait in a ring;
* messages: every header and every unit of text is in one place, the lock byte is
  set only while a call is inside, and nobody sleeps for what is available;
* buffers: a block has one buffer, what was written is what is read, and a
  process holding one buffer does not wait for ever for another;
* STREAMS: order within a priority, exact counts, no queue or writer that nobody
  will run or wake;
* processes: kin pointers lead to live entries, no address space is freed while
  somebody uses it or kept when nobody does, `exit()` and `waitid()` do not hang.

## 2. Modules

| Module | Models | Extends / instantiates |
|---|---|---|
| `Futex` | `os/thread.c` futexes with the sleep, callout and signal code they use | |
| `FutexProofs` | theorems about `Futex` | `Futex` |
| `Timers` | what the callout table promises (abstract) | |
| `Callout` | the callout heap of `os/clock.c` | instantiates `Timers` |
| `CalloutProofs` | theorems about `Callout`, the refinement of `Timers` among them | `Callout` |
| `SemAtomic` | what semaphores promise (abstract) | |
| `Sem` | `os/sem.c` | instantiates `SemAtomic` |
| `SemProofs` | theorems about `Sem` | `Sem` |
| `Threads` | process and thread lifetime | |
| `ThreadsProofs` | theorems about `Threads` | `Threads` |
| `Flock` | `os/flock.c` on one file | |
| `FlockProofs` | theorems about `Flock` | `Flock` |
| `Rmap` | `os/malloc.c`, the maps, as operators | |
| `Msg` | `os/msg.c` | `Rmap` |
| `MsgTables` | lemmas about the maps of `Rmap` and the tables of `Msg` | `Msg` |
| `MsgProofs` | theorems about `Msg` | `MsgTables` |
| `Bio` | `os/bio.c` with `fsflush` and the last close, on one device | |
| `BioProofs` | theorems about `Bio` | `Bio` |
| `Strq` | the message queues of `io/stream.c`, as operators | |
| `Streams` | stream head, module, driver and scheduler | `Strq` |
| `MCFutex`, `MCCallout`, `MCSem`, `MCThreads`, `MCFlock`, `MCMsg`, `MCBio`, `MCStreams` | the instances for TLC | the module they are named for |

Definitions whose comment begins with "Mutant" are faulty variants of the
definition that follows. They take part in no specification; each shows that a
property can fail, when it takes the place of its original.

### Futex

`cpu` is the process executing in the kernel outside a sleep, `pc[p]` its place
in `do_futex_wait()`: `alloc` (before the first `splhi()` section, where
`kmem_zalloc(KM_SLEEP)` may sleep), `check` and `sleep` (the loop), `SSLEEP`,
`SRUN`, `finish` and `eintr` (the second `splhi()` section, without and with
`EINTR`). An `splhi()` section is one step. `FutexTimeout` is the clock
interrupt and may come between any two steps; `FutexWake` and `UserWrite` are
steps of other processes, possible when no process is inside the kernel.
`callout` is the set of armed entries, which is what module `Callout` shows the
heap to implement. `Interruptible` is computed from the priority the code passes
to `sleep()`; it comes out false. `dirty` is a history variable: the word was
written and no wake-all followed yet. A call refused by its argument checks
(`EINVAL`, `EFAULT` on the timespec, no ticks) changes nothing and has no
action.

### Callout and Timers

`callout` is the table on `0 .. calllimit`. `heap_up` and `heap_down` move
entries along a path and say where the new one belongs, as in C. `Clock` is the
first statement of `clock()` and the tick; `TimeinEnter`, `TimeinCall` and
`TimeinLeave` are `timein()`, with `Timeout` and `Untimeout` possible between
rounds because the functions it calls use them. `timein()` runs at `splhi()`, so
`Clock` does not interrupt it. `due`, `now`, `called` and `cancelled` are
history. `timeout()` reads `lbolt` before `spl7()`, and a tick may come in
between; the model takes both in one step, so an entry may in the code be due
one tick earlier than modelled.

### Sem and SemAtomic

One header and one set that owns all the semaphores: a removed set is always
reused by the next one, the hardest case for stale identifiers. `pc[p]` is the
place in `semop()`; the operation loop takes one step per operation, `semundo`
one step per operation taken back. `copyin()` either fetches the list in one
step or sleeps after some operations (`CopyinFault`), with the rest stored into
`semtmp` later. `SemAtomic` has values, adjustments and pending lists, and
performs a list at once. The refinement mapping hides the work of the one
process inside its loop. A call whose `copyin()` slept is only promised to do
*some* list of its length atomically, because the code promises no more (see
finding 2). `SETALL` fetches its values into `semtmp` as well, and may sleep there
(`SetAllFault`): meanwhile others run, the values may be overwritten and the set
removed and replaced; afterwards it stores whatever values are in the buffer,
with the identifier it was called with (`SetAllResume`), or refuses one that is too
large (`SetAllRange`). `SemAtomic` promises nothing about a `SETALL` that slept but
that its values are in range (`Late`); one that did not sleep is atomic. What
`SETALL` leaves in `semtmp` is a union's other member; read as operations by a
`semop()` that sleeps half way it can be any operations of the instance (`Scribble`;
numbers outside the set, which `semop()` after its copy-in does not look at again,
are not modelled). Undo entries are kept as a function from (identifier, number);
their order in the table is not modelled. `sempid`, times and permissions are
left out. `IPC_SET` and `IPC_O_SET`, which copy into `semtmp` too, and
`IPC_O_STAT`, which builds its answer there, are left out: to a sleeping `semop()`
they do what a refused `SETALL` does, and to their own fields (owner, mode) nothing
here refers.

### Threads

A `proc_t` is a record; the code between two sleeps is one step. Freed entries
are reused at once. `oldproc` holds the process that exited last; until the next
process to run has released its u-block nothing else happens. `newproc()` is one
step although `as_dup()` may sleep: the child cannot run before it is complete,
and the parent is the one sleeping. `waitid()` is `P_ALL` with `WEXITED`; job
control stops and a signal that ends `waitid()` are left out (it could only
remove sleepers). A failed fork is in `Sem` (`ForkFail`), where it has an effect.

A thread may sleep in `do_futex_wait()` (`FutexWait`), where `SIGKILL` does not
reach it; to the process table only a wake or the timeout ends that (`FutexWake`,
which nobody is obliged to take). So `exit()` may wait for such a thread for ever,
and `ExitCompletes` says that this is the only way in which it does not complete.

`Spec` has all programs; `DisciplinedSpec` those in which threads create no threads
or processes and do not exec, and a process execs only when its threads are gone.
The kernel enforces none of this. The runs and the theorems other than `Typed` are
about `DisciplinedSpec`. Under `Spec`, `SpaceSound` fails by an exec under live
threads (finding 7), and `KinSound` because the children of a thread keep a parent
pointer to its freed entry.

### Flock

The list `v_filocks` of one file, in order; an entry carries its region, its
`wakeflg` and `slp`, the processes asleep on its address. `flckadj` walks the
list from the place `blocked()` chose and is built from what one entry can mean
to the new region (`regflck`): it is deleted (`Del`), cut at one side (`Cut`),
split (`Split`) or joined, and each of these wakes who sleeps on it. A pass
through the loop of `reclock()` is one step (`Pass`); it sleeps, or takes the
lock, or fails. `mem` is the outcome of `kmem_zalloc(KM_NOSLEEP)`; a region that
is empty or overflows is refused before. `ReclockTry` is `F_SETLK`, and
`ReclockWait` is `F_SETLKW` or the mandatory-locking check of `read()` and
`write()` (`keep` false). The lock manager's calls return at once and are
repeated, or given up by an unlock of the region (`RemoteWait`,
`RemoteUnlock`); `F_RSETLK` for a lock, which is not repeated, is `RemoteTry`, and its
grant takes nothing off `sleeplcks`. `deadflck()` has three outcomes: it meets the
requester (`deadflck`), comes to an owner that has no entry (`ChainEnds`), or goes
round a ring that the requester is not in. Its loop has no bound, so the third
outcome is a kernel that hangs: `hung` is set (`Hang`), and no call is made or
answered any more, only interrupts still come (finding 12). `Close` and `Recover` are `cleanlocks()` of a closing process
and of a dead remote file sharing client. `F_GETLK` and the XENIX answers change
no lock. A sleeping process cannot close the file: it is one thread of control;
two threads sharing a pid are not modelled.

### Rmap and Msg

A map is the sequence of its extents; `mapsize()` counts table entries, and
`rmfree()` into a full table loses the units, as the code does. `Msg` works on
queues linked by header pointers. Every `copyin()` or `copyout()` under the lock
byte is a sleep; a copy that finds its page is the behaviour in which nobody
runs meanwhile, and `CopyFault` is the one that fails. `pc` says on which of the
five channels a call sleeps, and for which reason it is about to call
`msgconv()` again. Two facts of the code that the model keeps: `IPC_RMID` wakes
readers and writers of the queue but not senders that wait for a header or for
space, who find out when they are woken for those; the sleep on the lock byte
ignores signals. `IPC_SET` that raises `msg_qbytes` wakes nobody, so
`SleepersMustWait` makes an exception there, with the auxiliary variable
`raised`. `IPC_STAT` and permissions are left out.

### Bio

One block device. `buf[b].blk` says which hash chain a buffer is on, `free` is
the free list in order, `room` the memory left of `v.v_bufhwm`, `io` what the
driver has. `onproc` is the process inside a call; no other runs until it sleeps
or returns, while `Iodone` and `IodoneError` come between any two steps.
`kmem_zalloc(KM_SLEEP)` of a new buffer is a place of its own (`alloc`), during
which others run. `cur` and `disk` are auxiliary: whether a buffer, or the disk,
has the last data written to a block. A failed write makes what is on disk the
last data, since nobody is told (see the hazard list). Assumed of the driver:
transfers of one block complete in the order they were started (`Next_`).
`B_READ` is kept only during a transfer, and there are as many headers as can be
used. `AsyncMin` is 4 in the code and 1 in the run, so that both kinds of
`bawrite()` happen. `LastClose` writes and invalidates all buffers as
`device_close()` does; writes may still be under way when it returns. Page and
raw I/O do not pass through the cache and are left out.

### Strq and Streams

`Strq` has the queue routines as operators on a record of all queues and the run
list: `putq` and `putbq` with priority classes and bands, `getq`, `rmvq`,
`flushq`, `flushband`, `bcanput` with what it leaves behind, `qenable`. `Streams`
puts three queues in a row. `head` belongs to the stream head: its service
procedure wakes writers. `mod` is `timod`'s, which passes messages on or puts
them back. When `putq()` has no memory for the bands of a message, `timodput()` loses
it (`WriteLost`). Over a connectionless transport (`clts`) `timod` puts the address
of the peer in front of data: the message grows by `AddrLen` and goes on in band 0
(`tim_filladdr` copies no band), and without memory for that it is put back and
nothing enables the queue again (`ModStarve`, finding 13); `starved` remembers that
this has happened since the queue was last run. The other failures of `timodwsrv()`
(`T_CONN_REQ`, the ioctls) arm a `bufcall()` or a `timeout()` and are left out, as are
primitives that bring their own address. `drv` and the device are external: the driver sends one message at a
time and is interrupted when it is sent. A writer looks for room, builds its
message (where it may sleep for memory), puts it, or sleeps on `sd_wrq` with the
shared flag `WSLEEP`. The scheduler runs in the context of a writer, on the
return to user mode, or when idle; `queueflag` = `end` is the window between the
last `splx()` of `queuerun()` and the clearing of the flag. Flushes come at any
time from the device or a user. `Init` allows a device that is busy with an
older message, and a stream with and without the module. Left out: the read
side, hangup and error states, `ioctl()`, `strhold` (off in this build,
`os/streamio.c:85`; with it on, held messages would use the link of the run
list), `QNOENAB`, and `QBACK`/`QB_BACK`, which nothing here reads.
`flushband()` as `timod` calls it is modelled with the arguments as they
are (finding 8). `I_PUSH` is in `PushSpec` only, because it breaks `Drains`
(finding 3).

## 3. Runs

| Run | Instance | Shows |
|---|---|---|
| `futex` | 3 processes in 2 address spaces, 1 address, words 0 and -1, 1 timed wait | safety of the futex calls; a woken waiter returns |
| `futex_timed_wait` | 2 threads | finding 1 |
| `callout` | table of 6, 6 ids, delays 0 and 2, 2 ticks | heap order, refinement of `Timers`, due calls are served |
| `sem` | 2 processes (one a thread), 2 semaphores, 4 lists, `copyin()` that sleeps | counters, wakeups, undo chain, refinement of `SemAtomic` |
| `sem_own_ops` | same | finding 2 |
| `threads` | init and 3 entries, 3 spaces, disciplined programs, deadlock checked | kin, spaces, vfork, exit and wait |
| `threads_live` | init and 2 entries, 4 spaces, disciplined programs | `exit()` completes, or waits for a thread in `futex_wait()` |
| `flock` | 2 processes, 1 remote owner, 3 bytes, 5 records, deadlock checked | list, adjustment, sleepers, deadlock detection |
| `msg` | 3 processes, 1 queue, 2 headers, 3 units of text, deadlock checked | chains, pool, wakeups |
| `bio` | 2 processes, 2 blocks, memory 3, deadlock checked | one buffer per block, coherence, wakeups, no deadlock |
| `streams` | 2 writers, 4 messages of 3 kinds, module popped and flushed, transport with and without connections | queue order and counts, no stall, the stream drains |
| `streams_push` | 2 writers, 3 messages, module pushed | finding 3 |

What the properties of the newer runs say. `AdjustExact` compares `flckadj()`
with the obvious definition (the bytes of the region get the new type, all
others keep theirs) for every owner and region in every reachable list.
`NoDeadlock` of `flock` is the completeness of `deadflck()` where it comes to an
end, although a sleeper is recorded behind one of several locks in its way; lock
manager clients are not counted, since they only repeat. It says nothing about the
search that does not end: that is in the model, and reached in this run, by the first
request of a process (with three owners a ring takes two and leaves one). `PoolSound` says that free extents,
messages and senders in the middle of a call make up the text pool exactly.
`Coherent` is what a file system relies on. `NoDeadlock` of `bio` holds because
`breada()` asks for the second buffer only when two are free, and in this run two
free buffers are memory enough. It is not so for all sizes: `breada()` counts
buffers, not memory. With blocks of 3, an empty buffer of 1 and memory for 5, two
free empty buffers do not make up a block, and `breada()` sleeps for memory while
it holds the only other buffer itself. In practice `v_bufhwm` is far larger than a
few blocks. `Drains` is
liveness without any help from the writers: even if those that were woken never
run again, the queues empty and nobody stays asleep. The one exception is a message
that `timod` has put back for want of memory (`starved`): `drv` still empties, but
the message stays on `mod` until something else has the queue run, and `NoStall`
makes the same exception. `ExitCompletes` excepts the thread in `futex_wait()`.

Bounds. `MaxTimeid` bounds the timeouts of a behaviour, `MaxNow` the ticks,
`MaxSeq` the sets or queues removed, `MaxMsgs` the writes; ids and sequence
numbers do not wrap inside a run. Three futex processes give a waiter, a waker
and a stranger with the same address; one timed wait and two blocks are few, but
the safety properties are proved for any number (section 5). A callout table of
six has three levels, the smallest in which `untimeout()` has to move the last
entry *up*. Two semaphores and lists of two are the least for a rollback;
`semvmx` = 2 and `semaem` = `semume` = 1 make every limit reachable; two
sleepers of different kinds and an interrupted sleeper fit in two processes.
With three address spaces the four entries cannot all have one of their own; with
four spaces the run passes as well, over 2.8 million states, but takes long. Four entries in `Threads` hold init, a process, and two of its threads or
children, or a grandchild to be handed over. Three bytes are the least in which
a lock splits in two; the regions asked for let the three owners wait in a ring,
and five records make the table full in the middle of a split. Three processes
on one queue are two sleepers and a waker, with fewer headers and less text than
they ask for. Memory for three small buffers, or a large and a small one, makes
both processes of `bio` take buffers from each other and wait for memory. With
`hiwat` = 2 one normal message or two banded ones fill a queue, and four messages
fill both queues. Symmetry is used in safety runs only, over sets whose members
are interchangeable: process entries other than init
(`threads`), processes, headers, buffers and blocks (`msg`, `bio`).
`CHECK_DEADLOCK FALSE` is set where behaviours end at such a bound, or where
processes may rightly sleep for ever.

Fairness. `Futex`: a process that has the processor goes on (weak), a runnable
one is picked in the end (strong, since the processor is taken again and again;
the time-sharing class raises the priority of processes that wait), and an armed
timeout fires (weak, `DueIsServed`). `Callout`: interrupts return to ipl 0 and
`timein()` goes on. `Threads`: some process runs and releases the u-block
(weak), and what a dying process does next is done (strong, because it is
interrupted by others' exits); nothing obliges a process to exit, fork or wait, or
anybody to end a sleep in `futex_wait()`.
`Streams`: the scheduler runs when it has something to do, because every clock
tick returns to user mode or to the idle loop and both call it; `qdetach()` goes
on; the device answers. Writers need no fairness.

## 4. Findings

With a run:

1. `futex_timed_wait`: the flags are tested outside `splhi()` before `sleep()`
   (`os/thread.c:169`); a timeout between the two is lost. `delay()`
   (`os/clock.c:654`) shows the idiom that avoids it.
   `extras/threadtests/svr4_thread_tests.c` expects its timed mutex test to fail.
2. `sem_own_ops`: `copyin()` into the global `semtmp` may sleep half way
   (`os/sem.c:633`), and a call then performs another call's operations.
3. `streams_push`: a module with a write service procedure is pushed while a
   writer sleeps for room on the queue below. Back-enabling stops at the new
   queue, and the writer is never woken (`os/streamio.c:2538-2549` repairs the
   read side only).

Without a run of their own; each definition is in its module, and TLC shows it
violated when it takes the place of the properties in the `.cfg` named here:

4. `OneTerminalReason` (`MCFutex.cfg`, as an invariant): `futex_wake()` marks and
   counts a waiter that has already timed out and has not run yet
   (`os/thread.c:210`), against the comment at line 95.
5. `SignalEndsWait` (`MCFutex.cfg`): the sleep priority `PZERO | PCATCH` is
   uninterruptible, so signals, `SIGKILL` from `exit_threads()` included, do not
   end a wait. In `Threads` the consequence shows: `exit()` with a thread in such a
   sleep hangs (`ExitCompletes` without its second alternative is violated in
   `MCThreadsLive.cfg`).
6. `FreshSlotClean` (`MCSem.cfg`): `thread_exit_current()` does not call
   `semexit()`; the next owner of the slot inherits the thread's adjustments.
7. `SpaceSound` (`MCThreads.cfg` with `SPECIFICATION Spec`): exec frees the
   address space under live threads (`os/exec.c:1163`).
8. `io/timod.c:291` and 293 call `flushband()` with its last two arguments
   exchanged: band 0 is flushed whatever band was named. Seen while translating;
   modelled as it is.
9. `NoOldRequests` (`MCFlock.cfg`): a repeated lock manager request that is
   refused leaves its entry on `sleeplcks`.
10. `DeadlockReal` (`MCFlock.cfg`): `deadflck()` follows the entry of a process
    that has been woken and has not run, and answers `EDEADLK` for a cycle that is
    about to resolve itself.
11. `OutsideKept` (`MCFlock.cfg`): a `flckadj()` that fails with `ENOLCK` has
    already taken regions from its caller outside the one it was called for.
12. `SearchEnds` (`MCFlock.cfg`): `deadflck()` loops for ever (`os/flock.c:683`). A
    refused request of the lock manager has left an entry (finding 9); when newer
    entries of that owner are taken off, it comes to the front and may close a ring
    with the entry of a process that went to sleep meanwhile. The next request that
    one of the ring is in the way of never comes back.
13. `Drains` and `NoStall` (`MCStreams.cfg`, without the exception for `starved`):
    `timodwsrv()` over a connectionless transport puts a message back when
    `tim_filladdr()` fails (`io/timod.c:703`, 875) and arms neither `bufcall()` nor
    `timeout()`, as its other failures do.
14. `io/timod.c:281` does not look at the result of `putq()`: a message for whose
    bands there is no memory is neither queued nor freed. Modelled as it is
    (`WriteLost`).

## 5. Proofs

### Futex

`FutexProofs` proves, for any sets of processes, address spaces, addresses,
words and blocks and any `MaxTimeid`, under `ConstantsAssumption` only, every
safety property the `futex` run checks and two more (`TimedWaitArmed`,
`WokenNotAsleep`): `TypeCorrect`, `ListCorrect`,
`TimersCorrect`, `ArmedCorrect`, `NoLostWake`, `NoWindow` and the action property
`KeysProcessLocal`. All rest on `Inductive`, `Spec => []IInv`, where `IInv` is

* `ListInv`: `TypeOK`, `WaiterListSound`, and `CpuOwner`: `cpu` is exactly the
  process at a place where it executes in the kernel. `CpuOwner` is what makes
  the test outside `splhi()` harmless against `futex_wake()`: no other process
  runs between the test and `sleep()`.
* `TimerInv`: `NoStaleTimer` and `TimedWaitArmed`, strengthened by `TimerIds`
  (ids in blocks are at most `timeid`, and no two linked blocks share one), which
  is why an `untimeout()` with an old id cannot cancel another wait.
* `WakeInv`: `NoMissedWake` in the form `Missed`, and `SleepInv`: a process
  about to sleep or asleep is not woken.

The order matters: types need the list (a process inside owns a block), the list
needs the types, timers need the list (a block reused is a block unlinked), and
wakeups need `CpuOwner`. The step lemmas have one step per action. Lemmas about
`futex_remove`, about linking at the head, and about what a wake or a timeout
changes in a block carry the sequence and record reasoning.

### Threads

`ThreadsProofs` proves `TypeOK` of any program (`Spec`), and `KinSound`,
`SpaceSound`, `VforkExclusive` and `WaitNotStuck` of disciplined ones
(`DisciplinedSpec`, section 2). Of other programs the first two are false, and
nothing is claimed. All but `TypeOK` rest on `ThreadsInv`:

* `RootedKin`: no set of processes without init is closed under "parent of" or
  "next of kin of". It says, without recursion over the tree, that following
  either pointer ends at init; an `exit()` that hands its children over, and
  itself is handed over later, keeps it.
* `KinIsProcess`: parents and kin are live entries and not threads, which is why
  a thread's entry may be freed by the next process to run;
* `ThreadSound`, `VforkSound`, `PlaceSound`, `OwnersApart`: who runs on whose
  address space at each place of `relvm()`, `vfwait()` and exec.

The hard step is the last user of a space: `SoleUser` shows by an argument over
the set of vfork borrowers that an owner which runs and has no threads is alone
on its space, whatever chain of `vfork()` children was there.

### Sem

`SemProofs` proves `TypeOK`, `SleeperCounted` and `UndoChainSound` for any lists,
and `SleepersMustWait` when no list names a semaphore twice (`OneEach`). The
rollback needs memory: `Trace` says that the values now are the end of a history
of values, each legal and each one operation of `semtmp` after the other, and
`semundo()` walks it back. `WaitInv` asks more of the history: none of its values
gives a sleeper what it waits for (`Patient`), so that a rollback, which wakes
nobody, has nobody to wake.

`OneEach` is needed. A list that takes one from a semaphore and then waits for
zero sleeps on `semzcnt` with the value 2; when another process takes one the
value is 1, the list could be done, and nobody is woken, because the value is not
zero. This is how `semop()` is defined (a value that "becomes zero"), so it is
not listed as a finding, but such a list may wait for ever. `slept` excepts calls
whose `copyin()` slept (finding 2). A `SETALL` that sleeps is one of the steps: what it
stores later is a change of values like any other, with the wakeups for it, and it
holds nothing meanwhile that the invariant refers to; adjustments in the name of a
set that was removed stay harmless because `semexit()` looks at the identifier.

### Callout

`CalloutProofs` proves `TypeOK`, `HeapOrder` and, as long as no time wraps
(`NoWrap`), the refinement of `Timers`, `ImplementsTimers`, for any size of the
table. `CalloutInv` is types, heap order and one entry for each id. `heap_up()`
and `heap_down()` are recursive functions; `UpPath` and `DownPath` show by
complete induction that each moves the entries of one path by one place, and
heap order and "nothing came or went but this entry" follow from the shape of
the path. `untimeout()` of an entry in the middle needs both directions.
`HeapOrder` holds even if `lbolt` wraps; the order of the calls does not, which
is the hazard at `os/clock.c:430` that no property covers, and the reason for
`NoWrap`. `CalloutAssumption` says `2^IntBits > 0`, which is arithmetic that no
prover here has.

### Bio

`BioProofs` proves `TypeOK`, `BuffersSound`, `SleepersMustWait` and `Coherent` for any
processes, buffers, blocks and sizes. The assumptions are that sizes are
positive and that there are as many headers as can be used (`HeadersSuffice`;
the code allocates more when it runs out, `os/bio.c:353`). `BioInv` is

* `CacheSound`: for each buffer, what its flags, block and memory may be while it
  is free, with the driver, or in the hands of a process (`BufferSound`); a block
  is in one buffer that is not stale; the sizes and `room` add up to `v_bufhwm`;
* `PlaceSound` for each process: its locals, what it knows of the buffers in its
  hands (a buffer taken by `getfreeblk()` is in no hash chain, a transfer
  that `biowait()` waits for was started), and that what it sleeps for has not
  happened;
* `Apart`: no buffer is in the hands of two processes;
* `CohSound`, where the last data of a block are. `LastKept`: what is valid in the
  cache, and what waits to be written unless it is stale, are the last data.
  `InOrder`: of several transfers of a block all but the newest are those of stale
  buffers, and none that writes comes after one with newer data. `DirtyOnly`: while
  a buffer of a block is dirty the disk has old data, and a dirty buffer with the
  last data is the only buffer that has them. `Covered`: what the disk lacks, a
  dirty buffer has.

Each routine (`notavail`, `brelse`, `biodone`, `bwrite`, ...) has a lemma that says
what it does to its one buffer (`Does`), and whom it must wake for that (`Wakes`)
or that it cannot matter to a sleeper (`Keeps`); an action is a chain of these.
The loops of `getfreeblk()` and `bflush()` go by induction over the number of
rounds. That a header is left when memory is follows from the sum of the sizes:
were all headers in use, their sizes would be more than `v_bufhwm`.

`Coherent` by itself does not say what a transfer may overwrite, and that is where
the difficulty is: `binval()` leaves stale buffers with writes under way, and the
block may be entered again, read and written, before these are over. `InOrder`
is kept because the driver serves the transfers of one block in the order in which
it got them (`Next_`), an assumption about code outside `os/bio.c`; with it
`EndCoherent` shows that the data that reach the disk last are the last data. A
write that fails gives up its data: from then on the old data on the disk count as
the last (see the hazard at `os/bio.c:226`).

### Flock

`FlockProofs` proves every property the `flock` run checks, `TypeOK`,
`ListSound`, `AdjustExact`, `SleeperBlocked` and `NoDeadlock`, for any owners,
file size, limit on records and requests. The assumptions are that the owners are
finitely many and distinct, that requests name a region that is not empty, and
that `NULL` is no owner, lock or request. `Inv` is `Good` of the five variables:

* `GoodList`: the list is in order, each owner's locks are apart, and apart from
  the others' where one of the two is a write lock (`Sound`); who sleeps on a
  lock sleeps on no other, and the lock's `wakeflg` is set (`Sleeps`);
* the count of records is that of the list and of `sleeplcks`, and within
  `flckinfo`'s limit;
* `GoodChain`: a process inside `reclock()` has exactly one entry on `sleeplcks`,
  one outside has none;
* `GoodCalls`: who is inside has a request that could be put on a list;
* `GoodSleep`: a sleeper is on a lock that is in its way, its entry names the
  owner of *that* lock, and no set of sleepers holds all the locks its members
  sleep on (`Free`).

The first half of `FlockProofs` is about `flckadj()`. One walk changes the list while it reads it,
grows the region it was asked for, and may end early; `Walking` says what holds
when it has come to entry `i`, of the list as it would be if it stopped there
(`Joins`). Its parts are what `AdjustExact` and `SleeperBlocked` need and what
these need in turn: the region only grows (`WRange`); the list is sound, and the
piece cut off at the end of a split fits behind it (`WLists`); what the owner has
behind the walk is apart from the region (`WApart`); where the new lock will go
keeps the order (`WPlace`); each byte is held as it should be, if the region
counts as held (`WHeld`); sleepers of an entry that is touched are awake, the
others' entries are untouched (`WSleep`); the records are counted (`WCount`).
Each of the rows of the case table has one lemma for each part. The walk is a
recursive function over the list, and `Walking` carries to its end by induction on
the entries. `AdjustedIs` is the result, and the only thing the second half
takes from the first about the walk.

`NoDeadlock` is the completeness of `deadflck()`, which follows the chain of entries
from the owner of *one* lock in the way and stops at the first that has none. That
it stops is not proved, and false (finding 12): a process goes to sleep only where
the search has come to its end without meeting it, and where it has no end there are
no further steps of calls, so that the invariant stays as it was. Suppose that a process about to sleep closed a ring, a set of sleepers and itself
that holds all the locks these sleep on, and `deadflck()` did not find it. Then the
chain goes on from member to member and never comes to the new one; as there are
only so many owners it comes twice to the same one (the pigeonhole principle), and
the members in between are a ring of those who slept before, which `Free` excludes
(`NoCycle`). This needs that an entry names the owner of the lock slept on: were it
another lock in the way, the chain would not say who sleeps on whom.

### Msg

`MsgProofs` proves every property the `msg` run checks, `TypeOK`, `QueuesSound`,
`PoolSound` and `SleepersMustWait`, for any numbers of processes, queues, headers
and units of text and any sizes. The assumptions are those `Msg` and `Rmap` declare:
finitely many headers, at least one, sizes that are natural numbers, and a map of
more than two entries. `PoolSound` has a hypothesis besides, `MapSuffices`: the table
of the map has at least two entries more than there are headers. Without it the property is
false, since `rmfree()` gives up what it cannot enter in a full table
(`os/malloc.c:136`). The tuned values satisfy it, 100 against 40
(`master.d/mtune:98,103`), and so do the values of the run; a system tuned to its
minimum of 10 entries would not.

Two things that the state does not have as such carry the proof: `chain`, the
sequence of headers on each queue and on the free list, and `text`, the span of the
pool each header has. `Inv` says that there are such and that all agree with them:

* `Inside`: whoever is in a copy has the lock byte of his queue, he alone, and the
  queue still exists; a lock byte that is set is somebody's;
* `Books`: no header is on two lists; the pointers lead along the lists, and end
  there; `msg_qnum` and `msg_last` are right; queued messages have the text their
  header says, free headers none; the map is in order, no unit of text is shared, and
  none is missing if the map suffices (`Pool`);
* `Bytes`: `msg_cbytes` is the sum of the sizes on the queue;
* `Hands`: a sender that copies has a header and its text for itself, and a header
  on no list is such a sender's;
* `OutAt`: a reader that copies a text out still has the right place on the queue in
  mind, and the message before it, although he has slept since he looked it up;
* `Asleep`: whoever sleeps has to, and has left the mark (`MSG_RWAIT`, `MSG_WWAIT`,
  `mapwant()`) by which his waker knows; but for the writers beside whom `IPC_SET`
  raised `msg_qbytes` (`raised`), of whom it is not claimed that they have to sleep,
  since the code wakes nobody for that room.

`MsgTables` is about the tables alone. `rmalloc()` and `rmfree()` come first: each
branch keeps the map in order and adds or takes exactly the units it should, and the
table of a map that suffices is not full when text comes back that touches no
free extent (`Gaps`), because there is a unit of some other message between any two
free extents (a counting argument, with an injection from extents to headers). Then
the lists: walking them, taking one header off anywhere (`Unlink` mends `msg_last`),
putting one on the end; the bytes as sums along a list. A change of the tables is
then described by what it does to `chain` and `text` and by `Told`, which
says that whatever might have become true for a sleeper has been announced on his
channel, or that it has not become true; two changes in a row compose (`ToldTwice`), and the loop of
`IPC_RMID` over the messages is by induction. `MsgProofs` joins this with the
processes: a handler runs from one sleep to the next, changes the tables of one
queue whose lock nobody else has (`StepKeeps`), and each action of `Next` is one case.

### What stays with TLC

Liveness (`WokenReturns`, `DueIsServed`, `ExitCompletes`, `Drains`) needs fairness
and `ENABLED`, which the prover does not have. Of the safety properties,
`ImplementsAtomic` of `Sem`, `NoDeadlock` of `Bio` and all of
`Streams` are only model-checked so far; `NoDeadlock` of `Bio`
depends on the sizes (section 3) and could only be proved under an assumption on
them that the code does not make. Induction is no
obstacle in itself: the library's induction theorems, which take an operator,
cannot be used, but the well-foundedness of the natural numbers gives induction
over sets of numbers (`Least`, `Complete`, `Induction`) and over finite sets
(`SetInduction`), and the same induction shows that a function which satisfies a
recursive definition exists (`TakeLoopIs`, `SumIs`, `UpEquation`).

## 6. Plan

Done: models of futexes, callouts, semaphores, process and thread lifetime (with the
futex sleep), record locks, messages and maps, the buffer cache and the write side of STREAMS; proofs
about all but STREAMS. Next, most important first:

1. `StreamsProofs`: the scheduler's part of `NoStall`, and `WriterTold`.
2. `ImplementsAtomic` of `Sem`.
3. The read side of a stream; FIFO open rendezvous; `dnlc`.

## 7. Not modelled

The repository has some 380,000 lines, most of them drivers, file systems,
networking and the machine layer; the models cover a small share of them and
there is no intention to cover most. What is left out, and why:

* virtual memory: page tables and paging depend on hardware state; an instance
  large enough to be interesting is out of TLC's reach;
* file systems beyond the buffer cache: on-disk layout, data handling; their
  locking is a sleep lock per inode;
* drivers, boot, floating point, the machine layer, the debugger: hardware;
* TCP/IP, RPC, NFS, RFS: protocols with peers outside the kernel;
* clock time keeping, the dispatcher's queues and priorities: sequential
  arithmetic, represented by fairness where it matters;
* kernel memory allocator, shared memory: rest on virtual memory;
* host tools, ports and user programs: not kernel code.
