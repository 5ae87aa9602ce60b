# A TLA+ model of the xv6 kernel in this repository

The repository is xv6 for RISC-V (`xv6-labs-2022/`), with the two system calls
of the system-call lab, `trace` and `sysinfo`. This directory holds TLA+ modules
for the parts of the kernel where concurrency and crashes make the code hard to
test, the TLC configurations that check them on small instances, and proofs
that TLAPS checks for every value of the constants.

## 1. The system

| Part | Source (`kernel/`) | Module | State |
|---|---|---|---|
| Write-ahead log | `log.c` | `Log`, `GroupCommit` | modelled, proved |
| sleep/wakeup, scheduler, sleep-locks, spin-locks | `proc.c`, `sleeplock.c`, `spinlock.c` | `SleepLock` | partly: all but `holding()` and `holdingsleep()`, which appear in the panics; proved |
| Process life cycle, `trace` mask | `proc.c`, `sysproc.c` | `Proc` | partly: all but `growproc()` and page tables; proved |
| Pipes | `pipe.c` | `Pipe`, `Fifo` | partly: all but failures of `pipealloc()`; wakeups proved |
| Buffer cache | `bio.c` | in `Log` | partly: contents, holder, pins |
| Traps | `trap.c` | in `SleepLock`, `Proc` | partly: timer, `killed()` test, `setkilled()` on a fault |
| `sysinfo`, `sleep`, physical memory | `sysproc.c`, `kalloc.c` | | planned |
| Inodes, directories, path names | `fs.c` | | planned |
| Files and descriptors | `file.c`, `sysfile.c` | | planned |
| Disk driver | `virtio_disk.c` | | planned |
| Console, UART | `console.c`, `uart.c` | | planned |
| Virtual memory, `exec` | `vm.c`, `exec.c` | | planned (failure paths) |
| Boot, printing, strings | `main.c`, `start.c`, `printf.c`, `string.c` | | not modelled: straight-line set-up, formatting |
| User programs, `mkfs` | `user/`, `mkfs/` | | not modelled: clients; `umalloc.c` planned |

How the parts interact. Everything that blocks goes through `sleep()` and
`wakeup()`. `SleepLock` models these two down to the single lock operation and
proves that no wakeup is lost. The other modules rely on that result: there,
releasing the condition lock and going to sleep is one action. `Proc` relies on
the same protocol for `exit()`'s switch into the scheduler, and keeps the
interval in which `p->lock` is held across that switch. `Log` relies on sleep-locks for
buffers (its variable `holder`).

## 2. Modules

Each component `X` has a specification `X.tla`, an instance `MCX.tla` for TLC,
and a module of proofs `XProofs.tla` (the log has three). In the specifications,
definitions named `mut_*` are faulty versions of the definition that follows
them. No specification uses them; each shows that a property would notice the
fault.

### Log

State: the disk (`home`, `logged`, `head`), the cached home blocks (`buf`,
`holder`, `pin`), `struct log` (`lh`, `outstanding`, `committing`), and for each
process where it is (`pc`), the `tail` of its commit and the blocks its call
`wrote`. `lh` and `head` are the sequences `block[0 .. n-1]`.

| Action | Code |
|---|---|
| `read_head`, `install_recover`, `clear_log` | `recover_from_log()`, one disk write per action |
| `begin_op` | one turn of its loop: admit, or sleep |
| `modify`, `log_write`, `brelse` | the pattern of the comment at `log.c:209` |
| `end_op`, `end_commit` | `end_op()` before and after `commit()` |
| `write_log`, `write_head`, `install_trans`, `erase` | `commit()`, one disk write per action |
| `read`, `bget_recycle` | a reader fills a buffer; the cache drops an unreferenced one |
| `crash` | memory is lost, the disk stays; possible in every state |

The abstract specification `GroupCommit` has one view of the blocks, a durable
copy, and a `Commit` that is possible only when no call is active. `Log` implements
it (`CrashAtomic`) under the mapping: the view is what `bread()` returns, the
durable copy is what recovery would produce from the present disk.

Data abstraction: a block's contents are one of a few values, and a call
overwrites a whole block. The log's own blocks and the header are written
through, so only their disk copies are kept. Block writes are atomic, which the
code assumes too.

### SleepLock

State: who owns each spin-lock (`owner`), per CPU `noff`, `intena`, whether
interrupts are on (`intr`), which process runs (`run`) and where its scheduler
is (`spc`, `sp`); per process `state`, `chan`, `pc`, the label to return to after
an interrupt (`ret`), the `intena` that `sched()` has saved (`saved`), and the
index of its `wakeup()` loop (`wk`); and the sleep-lock (`locked`, `pid`).

Threads acquire and release one sleep-lock for ever, on CPUs that take timer
interrupts whenever interrupts are on. Each action is at most one spin-lock
operation, with the assignments up to the next one. Acquiring a spin-lock waits
until it is free; its `push_off()` is taken together with the swap that wins,
which commutes with everything other CPUs do while this one spins. `forkret()`
leaves out the call of `fsinit()` by the first process.

### Proc

State: `state`, `parent`, `pid`, `killed`, `mask` of each slot, `nextpid`,
`wait_lock`, per slot a `pc` and `fork()`'s local `np`. `inherit` and `doomed` are
history variables that only properties read. `fork()` is four actions, split
where it gives a lock up; `exit()` is five; `wait()` is split at its locks and
between the `killed()` test and the sleep. `RUNNABLE` stands for `RUNNABLE` and
`RUNNING`. The only sleep is the one in `wait()`.

`fault` is `usertrap()` on an exception: it sets `killed` itself and exits. If the
first process exits, faults or has been killed, `exit()` panics with "init
exiting"; that hart loops for ever (`panic`) and the others go on. `exit()`'s
closing of files and of the current directory is left out: it touches none of
this state.

### Pipe

State: `struct pipe` (`nread` and `nwrite` modulo `WRAP`, which stands for 2^32),
and per process `pc`, the length `n` of its call, its local `i` and `killed`.
Three history variables: `ch` is the byte that `piperead()` took last, `silent`
says that bytes were stored since the last wakeup of readers, and `abandoned`
that a call has left them so. Loops are one action per byte, with `pi->lock` held. `copyin()`
and `copyout()` may fail at any byte. The abstract specification `Fifo` is a
bounded queue whose reader gets the head; `IsFifo` is the refinement, with the
circular buffer mapped to the sequence it stands for.

## 3. Runs

| Run | Instance | Shows |
|---|---|---|
| `LogAtomic` | 2 processes, 4 blocks, 2 values, log of 3 data blocks, two reservations of 2 | `CrashAtomic`, and the invariants behind it |
| `LogLive` | 3 processes, 2 blocks | sleepers in `begin_op()` wake; once crashes stop, recoveries and commits end |
| `LogTooBig` | as the image of `mkfs`, full reservations | **violation** of `LogNeverPanics` |
| `SleepLock` | 3 processes, 2 CPUs | mutual exclusion, no lost wakeup, no shared stack, no panic, `intena` |
| `SleepLockLive` | 2 processes, 2 CPUs | sleepers wake, runnable processes run |
| `Proc` | 4 slots, pids up to 4 | live parents, no missed exit, no freed stack, fork isolation, kill |
| `ProcLive` | 4 slots | the first process reaps all its zombies, or panics |
| `ProcTrace` | 2 slots | **violation** of `ChildInheritsMask` |
| `ProcKillZero` | 2 slots | **violation** of `KilledOnRequest` |
| `Pipe` | 2 readers, 2 writers, 2 byte values | the buffer is a FIFO queue; nobody sleeps on room, data or a closed end |
| `PipeClose` | 1 reader, 2 writers | closing an end lets blocked calls return |
| `PipeAbandoned` | 1 reader, 1 writer | **violation** of `ReaderNeverSleepsOnData` |

Run one with `tlc -workers 2 -config LogAtomic.cfg MCLog`.

### Bounds

- Log: two processes are enough for a call to overlap another call, a commit and
  a wait. `MAXOPBLOCKS` = 2 and `LOGSIZE` = 4 admit exactly two calls at once;
  the log area holds three data blocks and there are four blocks, so that it
  could overflow: each call may use one block of its reservation, and without the
  reservation in `begin_op()` the panic is reached. There is no bound on the
  number of crashes or transactions. That the reservation suffices for larger
  logs is proved (`ReservationSuffices`).
- SleepLock: two CPUs give true concurrency, three processes a sleeper, a holder
  and a third that runs in between. There is no bound on time. Liveness with
  three processes on two CPUs is too large for TLC, so it is checked with two.
- Proc: four slots give the first process, a parent and two children, or
  a chain of three. `MaxPid` = 4 bounds the number of forks, failed ones
  included, to three per behaviour. A slot can be freed and taken again. The bound
  matters to `OrphansReaped`: `wait()` scans from the start of the table, so with
  zombies appearing for ever in lower slots one in a higher slot could be passed
  over for ever. `Faulty` and `Victims` are the pids whose processes fault or are killed.
- Pipe: `PIPESIZE` = 2 and `WRAP` = 4 make the buffer wrap and the counters
  overflow within one call of length 3. There is no bound on the number of calls.

Symmetry is used for processes, blocks, data, CPUs and slots (never for the
first process) in the runs without liveness; the specifications treat the members
of these sets alike. In `SleepLock` processes are numbered, because
`scheduler()` and `wakeup()` visit them in order, and only the CPUs are symmetric.

### Fairness

- `LogLive`: a process that is in the log runs on (weak fairness). `end_op()` has strong
  fairness: a call makes finitely many updates. New calls and crashes are never
  forced. `CommitEnds` is about behaviours in which crashes stop.
- `SleepLockLive`: each CPU makes progress, under strong
  fairness because a spin-lock is not a fair lock: `acquire()` spins until its
  atomic swap wins, and the claim is that a CPU does not lose for ever. The holder of the
  sleep-lock releases it, and the timer interrupts a thread that could run on.
- `ProcLive`: a process in the kernel runs on and gets `wait_lock`, as above; the
  first process calls `wait()` for ever, as `user/init.c` does, with a null
  address, so that its `copyout()` does not fail.
- `PipeClose`: every process in a call runs on and gets `pi->lock`, as above.

## 4. Where the code and its documentation differ

- `LogTooBig`. `param.h` calls `LOGSIZE` the "max data blocks in on-disk log" and
  `begin_op()` admits calls up to that number, but `mkfs` counts the header among
  the `LOGSIZE` blocks. Calls that use their full `MAXOPBLOCKS` reservation can
  panic. The calls of this kernel stay below it (`filewrite()` keeps two blocks of
  slop). The theorem `ReservationSuffices` shows that this is enough: with
  `MAXOPBLOCKS` = 10, `LOGSIZE` = 30 and 30 log blocks its condition `Slack` asks
  that a call writes at most 8 blocks.
- `ProcKillZero`. `kill(0)` matches a free slot, whose pid is 0; the next process
  in that slot starts out killed.
- `ProcTrace`. `fork()` copies the trace mask after the child has become runnable,
  so a child can run for a while with the wrong mask.
- `PipeAbandoned`. A writer that is killed in the middle of a write returns
  without waking the readers; one that slept before the write sleeps on although the pipe holds
  data, until the next writer or the last close.

## 5. Proofs

All proofs are by an inductive invariant `IInv`, with one lemma per action, and in
it one step per conjunct. TLC has checked each `IInv` on the instances above
before it was proved.

- `LogProofs`. The constants are arbitrary, with `Procs` finite (assumption
  `LogConstants`). The invariant says: headers fit the log and name no block twice (part of `TypeOK`);
  during recovery the first `rtail` blocks are at home; `outstanding`
  counts the active calls, and a commit excludes them (`Control`); a cached block differs
  from its home copy only while it is being modified or is pinned (`Buffers`);
  each phase of a commit knows which blocks are in the log and at home
  (`Committing`). Theorems `TypeCorrect`, `CommitsAlone`, `UpdatesPinned`,
  `IdleDurable`. The phases are needed because "what recovery would
  produce" depends on how far the commit has come.
- `LogRefinement`. From that invariant, every step of `Log` is a step of
  `GroupCommit` or leaves its variables alone: `Refinement` (`Spec => CrashAtomic`).
- `LogSpace`. Counts what admitted calls may still write as a set of pairs of a call and a
  reserved block. `ReservationSuffices`: no panic, if each call leaves so much of
  its reservation unused as the log area is short (`Slack`).
- `SleepLockProofs`. Any number of processes and CPUs. The invariant ties a
  CPU's locks, `noff` and interrupt state to the label of the thread it runs
  (`ThreadOK`, `SchedulerOK`), and a process's `state` to its label (`ProcOK`).
  Theorems `TypeCorrect`, `Exclusive`, `WakeupsReach`, `StacksDisjoint`, `PanicFree`,
  `IntenaRestored`.
- `ProcProofs`. A table of any size. The invariant adds who holds `wait_lock`,
  that a parent has not yet given its children away, and that the parent of a
  process about to become a zombie has been woken. Theorems `TypeCorrect`,
  `ParentsLive`, `ExitsNotMissed`, `StacksLeft`, `ForksDisjoint`, and
  `KillsHitTheirTarget`, which assumes that nobody calls `kill(0)`: the flag is set
  only in a process that `kill()` was asked for or that faulted.
- `PipeProofs`. Any number of readers and writers, any size and width of the
  counters. The invariant says why each sleeper sleeps, or who is about to wake
  it; a writer that goes to sleep has just woken every reader. Theorems `TypeCorrect`,
  `WritersWoken`, `ReadersWoken`, `NoDeadlock`.

Only model-checked: all liveness properties, which are out of the prover's
reach, and `IsFifo`, whose proof needs arithmetic of remainders.

## 6. Plan

1. Done: `Log`, `SleepLock`, `Proc`, `Pipe`.
2. `Bio` (LRU list, reference counts, `NBUF`) and `Virtio` (descriptors, used ring,
   interrupt), with the disk that `Log` assumes as the abstract specification.
3. `Inode` (cache, `iget()`, `iput()`, `ialloc()`, `itrunc()`), `Dir` (create, link and
   unlink against each other), `File` (reference counts, error paths of `open()`
   and `pipe()`).
4. `Kalloc` with `sysinfo`, `Clock` (`sys_sleep()` and tick wraparound), `Console`,
   `Uart`.
5. Pure algorithms: `skipelem()`, `bmap()`, `malloc()` and `free()`, against reference
   definitions.
6. Proofs: `IsFifo`, the invariants of the inode cache and of the file table.
