# bizcocho_OS: verification project

bizcocho_OS is a small x86-64 kernel (processes, priorities, semaphores, pipes,
two memory managers, a shell and test programs). This directory holds TLA+
modules translated from its C and assembly sources, TLC configurations that
check them on small instances, and TLAPS proofs. Paths below are relative to
`src/`. The only design document of the repository is
`Informe TP2 Grupo 5.pdf` (the report); there are no automated tests: the user
programs `test_*.c` are run by hand from the shell.

## 1. Inventory

### Components, state and operations

| Component | Sources | State | Operations |
| --- | --- | --- | --- |
| Scheduler and processes | `Kernel/c/main/scheduler.c`, `Kernel/include/scheduler.h` | PCBs and their nodes, one doubly linked list per priority, sibling lists, one list per block reason, death list, `nowRunning`, `pidToGive` | start a parent or child process, exit, kill, waitchild, block, nice, yield, dispatch, ESC kill, descriptors (`openFile`, `closeFile`, `dup2`, `revertFdReplacements`) |
| Interrupts and context switch | `Kernel/asm/interrupts.asm`, `Kernel/asm/libasm.asm`, `Kernel/c/main/irqDispatcher.c`, `registers.c`, `exceptions.c` | interrupt flag, saved stacks | timer (int 20h), keyboard, system calls, exceptions |
| Boot | `Kernel/c/kernel_load/*` | - | load modules, initialise, start the shell |
| Semaphores | `Kernel/c/ipc/semaphore.c` | list of semaphores: value, lock, list of waiting pids | initialise, wait, post, close, info |
| Pipes and shared memory | `Kernel/c/ipc/files.c` | list of pipes: ring buffer, indices, open counts; 20 shared blocks | mkpipe, open, close, read, write, info, openSharedMem |
| Keyboard | `Kernel/c/ipc/keyboard.c` | ring of scan codes, shift and caps state | interrupt handler, readPrintables, cleanBuffer |
| Lists | `Kernel/c/lib/ddlADT.c` | nodes, cursor, node to remove | add, toBegin, next, remove, find, freeList |
| Memory managers | `Kernel/c/mem/krheap.c`, `buddy.c` | free lists | memalloc, memfree, getMemInfo |
| Clock | `Kernel/c/main/time.c` | tick counter, time zone | timer_handler, sleep, date and time |
| Screen | `Kernel/c/ipc/printing.c`, `naiveConsole.c` | cursor, video memory | print, scroll, backspace |
| Shell and user programs | `Userland/SampleCodeModule/c/*` | command line, jobs | foreground, background and pipeline start; philosophers; tests |
| Boot loader, module packer | `Bootloader/*`, `Toolchain/*` | - | third-party Pure64 and BMFS; build tool |

### How they interact

* **System calls** enter through one handler that disables interrupts, so a
  call runs to its end in one step unless it calls `_int20()`, which enters
  the timer handler and may give the CPU away. A call suspended there keeps its
  local variables (a child, a pipe, a semaphore) and goes on when its process
  is dispatched again, still with interrupts disabled.
* **The timer interrupt** reaches user code, and the loop of init. It runs
  `scheduler()`.
* **The keyboard interrupt** reaches the same code; ESC runs
  `killAllInDeathList()` *without* a dispatch, so the process that had the CPU
  goes on although it is FINISHED, until the next timer tick.
* **init** is a kernel process: it calls `waitchild` directly, with interrupts
  enabled, and is the one process that can be preempted inside a list update.
* Semaphores, pipes and the keyboard block and wake processes through
  `blockProcessWithReason`, `unblockProcessWithReason` and
  `unblockAllProcessesBecauseReason`; killing a process closes its pipe ends.
* Every list node, PCB, pipe and semaphore comes from the memory manager; an
  allocation can fail in the middle of an operation.

### What is hard, and what makes each part correct

* **Scheduler.** Wake-ups against deaths, adoption of orphans, a death list of
  pointers, a scan that must end, priorities that change in the middle of a turn.
  Correct when no parent sleeps for a dead child, only the dead are freed, lists
  and tree match the PCBs, and every READY process runs.
* **Semaphores.** The list of waiters and the scheduler's state are two views
  of the same thing; a kill changes only one. Correct when tokens are conserved,
  the first to wait is the first to be woken, and no token lies idle while a
  process waits.
* **Pipes.** Readers and writers block inside loops that use the pipe after they
  wake up; open counts are updated by open, close, dup2, process creation and
  kills. Correct when the counts are the open descriptors, no character is lost
  or overwritten, and a blocked reader or writer is woken when it can go on.
* **Memory managers.** Correct when live blocks are disjoint, within the
  arena, and everything freed can be allocated again.
* **Keyboard, clock, screen.** Rings, counters and cursors at their limits. Correct
  when no key is left waiting beside a sleeping reader, the date is a date, and the
  screen shows the line that the shell will run.
* **Shell.** It lends its own descriptors to the programs it starts, one system call at
  a time, while they run and die. Correct when every program gets its own ends of the
  pipe and no other, and the prompt comes back with the standard files.
* **Philosophers.** The table changes size under processes that hold forks. Correct
  when neighbours never eat together and everybody eats again and again.

The file `PROJECT.json` lists the hazards with the line where each one bites.

## 2. Plan

| Order | Module | What | State |
| --- | --- | --- | --- |
| 1 | `ProcessFamily` | what the kernel promises about parents and children | done |
| 2 | `Scheduler`, `MCScheduler` | `scheduler.c`, shown to implement `ProcessFamily` | done |
| 3 | `SchedulerProofs` | types, the inductive invariant, safety theorems | done |
| 4 | `Processes` | the processes as the rest of the kernel sees them: states, block reasons, any READY process may be dispatched | done |
| 5 | `FifoSemaphore` | what a semaphore promises: tokens and a first-come, first-served queue | done |
| 6 | `Semaphores`, `MCSemaphores` | `semaphore.c` over `Processes`, shown to implement `FifoSemaphore` | done |
| 7 | `SemaphoresProofs` | the inductive invariant and `NoIdleToken`; tokens are not made up | done |
| 8 | `PipeQueue` | what a pipe promises: a bounded queue with an end | done |
| 9 | `Pipes`, `MCPipes` | pipes and descriptors over `Processes`, shown to implement `PipeQueue` | done |
| 10 | `Memory`, `Allocator`, `KrHeap`, `Buddy` | what a memory manager promises, and the two that implement it | done |
| 11 | `List`, `DdlList` | a sequence with a cursor, and the doubly linked list that implements it | done |
| 12 | `Clock`; `Keyboard`, `Screen`, `Terminal` | ticks and date; the two drivers and the shell's line between them | done |
| 13 | `KernelServices`, `MCKernelServices` | 10 to 12 together, for one run | done |
| 14 | `Bizcocho`, `MCBizcocho` | the shell's jobs over `Pipes` | done |
| 15 | `Phylo`, `MCPhylo` | the philosophers over semaphores | done |
| 16 | `PipesProofs` | types, exact counts, no pipe freed in use | done |
| 17 | `SchedulerProofs`, `NaturalMinMax` | further: `Scheduler` implements `ProcessFamily`, the scan ends, the death list is live | done |
| 18 | `SemaphoresProofs` | further: sleepers are listed, tokens conserved, `Semaphores` implements `FifoSemaphore` | done |
| 19 | `PipesProofs` | further: readers and writers sleep rightly, `Pipes` implements `PipeQueue` | done |
| 20 | `KernelServicesProofs` | dates are exact; the K&R heap implements `Allocator` and refuses only when full | done |
| 21 | `BizcochoProofs` | the shell's descriptors are restored, programs have no end but their own | done |
| 22 | `PhyloProofs` | neighbours never eat at a table of any size that grows once | done |
| 23 | `KernelServicesProofs` | further: the K&R heap reports what is free, no key waits, the modifiers are followed, `DdlList` implements `List` | done |
| 24 | `BuddyProofs` | the buddy allocator implements `Allocator`, refuses only when full and reports what is free; with row 20, both managers do | done |
| 25 | `KernelServicesProofs` | further: the screen shows the line that the shell will run | done |
| later | `ProcessTree` | sibling and priority lists with pointers, init preempted at each line, refining `Scheduler` | not done |


## 3. The scheduler

### Correspondence with the code

`Scheduler` keeps one variable per field or global of `scheduler.c`, under the
code's names (`state`, `blockedReason`, `ppid`, `priority`,
`remainingQuantum`, `children`, `processes`, `nowRunning`,
`schedulerRunning`, `pidToGive`, `blockedProcesses`, `deathList`). Two
variables stand for suspended control: `waitingFor[p]` is the local `child` of
`waitchild` while its caller is blocked, and `reaping` is the place of init in
`removeFromList`. Sibling lists, block lists and the death list are sets: only
membership is observable, except for `waitchild(0)`, which takes the oldest
child (children are appended, so the smallest pid). Priority lists are
sequences, since their order is the schedule.

One action is one system call up to and with its `_int20()`, one interrupt, or
one step of init:

| Actions | Code |
| --- | --- |
| `StartParentProcess`, `StartChildProcess`, `StartOutOfMemory`, `BootStart` | `startParentProcess`, `startChildProcess`, `startProcess`, the kernel's `main` |
| `Exit`, `KillProcess`, `Escape` | `exit`, `killProcess`, `killAllInDeathList`, through `KillAll` = `_killProcess` |
| `WaitChild`, `ResumeWaitChild` | `waitchild` before and after its block |
| `InitUnlink`, `InitDequeue`, `InitInherit` | `initProcess` inside `waitchild` and `removeFromList` |
| `BlockProcess`, `ChangePriority`, `Yield` | the calls of the same names |
| `Tick`, `StartInit` | `scheduler()` from the timer, and its first dispatch |

`Dispatch` is `scheduler()`: the running process keeps the CPU while it is READY
and has quantum left; otherwise `FindNextProcess` walks the lists in the
code's order. `KillAll(K)` kills all of `K` at once; the code kills one after the
other with interrupts off, and the results are equal, because a parent woken by
one kill and killed by another ends FINISHED with no block reason either way.

`AdoptedByInit` is `inheritChildren`. When the node that is reaped has no children,
`scheduler.c:281` writes through the null pointer `*childrenListFrom`. Address 0 is mapped and holds
the interrupt table (`idtLoader.c:22`), so nothing traps; what is overwritten, 32 bytes into it, is the entry of vector 2, which the kernel
does not use. The model does nothing there.

What the misuses do after memory has been freed under someone's feet is not
followed: `Escape` is not taken when the death list holds a freed node.

### What the processes do: `Calls`

Each action is guarded by `Asks(call)`; the constant `Calls` of a run says which
calls the processes make in it. That keeps each run small, and it separates
uses the code supports from the ones under which it breaks:

* `waitAny`: `waitchild(0)`. No user program calls it.
* `zombieWait`: a process that ESC killed while it ran calls `waitchild` for a
  live child before the next tick.
* `initPreempted`: an interrupt hits init inside `removeFromList`.
* `outOfMemory`: allocations may fail.

`Regular` is the assumption of the safety theorems: none of the first three, and
every pid below `PPID_RANGE`, the range of the `uint8_t` that `startProcess` uses
for the parent's pid.

### Runs

All with `PRIORITY_COUNT = 2` (two lists are enough for a wrap of the scan and for
a list that is not the first) and `MaxPid = 4`: init, the shell and two more, which
give grandchildren, orphans, a killer and a victim.

| Run | Calls | Checks |
| --- | --- | --- |
| `SchedulerLifecycle` | start, exit, kill, wait, block, ESC | `TypeOK`, `NoLostWakeup`, `FamilyExact`, `IndInv`, `DeathListLive`, `DeadStaysDead`, `FreesOnlyTheDead`, `ImplementsProcessFamily` |
| `SchedulerTurns` | start, exit, wait (for any child and after ESC too), block, nice, yield, ESC | `RunListsExact`, `SchedulerNeverHangs`, also when the misuses of `waitchild` free live processes |
| `SchedulerFair` | start, exit, wait, yield, init preempted, out of memory | `EventuallyRuns`, `OrphansReaped` |

Where the code and its comments part is kept out of these runs by the names of the calls:
a process that ESC killed while it had the CPU is not blocked by `waitchild`, which
then frees a live child, although `scheduler.c:395` says "when it comes back here it is
because now it is FINISHED" (`zombieWait`);
`waitchild(0)` frees the head child whichever died (`waitAny`); a pid of 256 or more is truncated in `ppid`; and a process that
dies while init is between unlinking its parent and adopting it is not marked
FINISHED (`initPreempted`), although `scheduler.c:348` says a parent is always
found.

### Fairness

`FairSpec` assumes: the timer keeps interrupting (strong fairness of `Tick`: it is
disabled while a resumed `waitchild` runs, with interrupts off); a call that has
the CPU with interrupts off finishes (weak fairness of `ResumeWaitChild`); and
init's steps are strongly fair, because a pass of init over its children is far
shorter than the time between two ticks and each pass visits the whole list.
No fairness is assumed of the processes' calls. `nice` is left out of the
liveness run: a process moved to the head of a list again and again can keep
the scan from the others.

### Proofs

`SchedulerProofs` proves `TypeCorrect`: `Spec => []TypeOK` for all constants and
every workload, misuses included. Among its lemmas, `UnlinkProperties` and
`PushProperties` say what removing and inserting a node do to the elements and
to the absence of repetitions in a list.

Under `Regular`, it also proves `Spec => []IndInv` and from it
`NoLostWakeup`, `ResumedForDeadChild`, `FamilyExact`, `RunListsExact`,
`FreesOnlyTheDead` and `DeadStaysDead`. None of these is inductive alone. That
a sleeping parent sleeps for a live child (`WaitExact`) survives the death of the
child only if the child finds its parent, which needs the tree (`FamilyExact`)
and the lists that `findByPid` walks (`RunListsExact`); these survive a removal by
init only if no call comes in the middle (`InitReapsTheDead`); a new process does
not inherit stale data only if its pid is new (`PidsAhead`); and whoever has the
CPU is awake (`CpuExact`). `IndInv` is the conjunction. The proof has one lemma
per kind of step (`KillStep`, `DispatchStep`, `BlockStep`, `SleepStep`, `StartStep`,
`ReapStep`, ...), and `IndInvStep` puts them together.

Also under `Regular`, the module proves `ImplementsProcessFamily`. The mapping gives the promise
a status per process and the set it sleeps for (`Status`, `SleepsFor`). `IndInv`
lacks one fact, `NoParent`: init and processes not in the table have no parent, so
that a new pid is nobody's child. Each action is then one of the promise (a fork, a
skip, a death, a sleep, a collection), or unseen.

The same module proves `SchedulerNeverHangs`: init is always READY and in a
list, the scan visits every list and in each of them every place, so there is a
first READY one (`NaturalMinMax` has the least-number facts that this and
`PipesProofs` need). It also proves `DeathListLive`: every path that ends a
process takes it out of the death list.

Only model-checked: liveness.

## 4. The semaphores

### Correspondence with the code

`Processes` is what the semaphores see of the scheduler: `state`,
`blockedReason` and `nowRunning`. A dispatch may choose *any* READY process, so
what is checked or proved here does not depend on priorities and quanta; it is
weaker than `Scheduler` in that respect only. The scheduler's own lists and the
process tree are left to `Scheduler`, which checks that a block and a wake-up do
what `BlockRunning` and `Wake` say.

`Semaphores` has the fields of `semBlock` as functions of the id (`value`,
`semLock`, `blockedProcessList`; `name` is `NoName` for an id that is not in the
hub), the hub's `globalid`, and the locks `lock` and `lockListPid`
(`lockList` is taken only by `closeSem` and `getSemaphoreInfo`, and released on
every path of the former). Three variables are not in the code: `waitingIn[p]` is
the semaphore whose `waitSem` is suspended in its block, `holds[p]` remembers
which semaphores p waited for and has not posted, and `hung` says that a call
spins for ever on a lock with interrupts disabled.

| Action | Code |
| --- | --- |
| `InitializeSemaphore` | `initializeSemaphore` for a new name, with its two failures; for a name that exists it only returns the id |
| `WaitSem`, `ResumeWait` | `waitSem` up to its block, and after it |
| `PostSem` | `postSem`: `SomebodyWaits` is the walk that finds a pid, `WakeOldest` what is done with it |
| `CloseSem` | `closeSem` |
| `Exit`, `KillProcess`, `Escape`, `Tick` | the scheduler's calls and interrupts, as far as they concern the semaphores |

`postSem` frees the pid before it reads it (114, 120). Both memory managers leave
that word as it was until the next allocation, so the read is modelled as the
pid.

`WaitSem` asks that its caller does not hold the semaphore already. The code does not: a process
may take two tokens of one semaphore, or wait for the token it has itself. That is left out,
because `holds` is a set of semaphores for each process and would not count them.

### Runs

Init and three processes (four in the liveness run), one or two semaphores with
initial value 1; two processes can then wait in one list while a third holds the
semaphore, which is what tells the oldest from the newest. `MaxValue` bounds
posts that have no wait before them.

| Run | What the processes do | Checks |
| --- | --- | --- |
| `SemaphoresDeaths` | wait, then post; close, also in use; exit, kill, ESC | `TokensNotMadeUp`, `WaitersListed` |
| `SemaphoresFailures` | also post without a wait, go on after ESC, and allocations fail (no exit); the system may hang, so deadlock is not checked | `NoIdleToken`, `SemInv`, `WaitersListed` |
| `SemaphoresFair` | wait and post for ever | `TokensConserved`, `ImplementsFifo`, `EventuallyGranted` |

A process that is killed while it waits stays in the list, and the post that reaches
its pid is lost: the sleepers behind it wait for one more, whatever the report says
(section 9). Tokens are thus not conserved when processes die (`TokensNotMadeUp` is
what is left of `TokensConserved`).

### Fairness

`FairSpec` assumes that each process that is READY again and again gets the CPU
(what `EventuallyRuns` says of `Scheduler`, for all dispatch orders: strong
fairness of `Tick(p)`), that a resumed `waitSem` returns, and that a process that
holds a semaphore and gets the CPU again and again posts it. The last one is not
the kernel's doing: it is the discipline of the users (`test_sync.c`, `phylo.c`),
without which nobody else can ever get the semaphore.

### Proofs

`SemaphoresProofs` proves `Spec => []SemInv` and from it `Spec => []NoIdleToken`,
for all constants that satisfy `ProcessAssumption` and `SemAssumption`, and every
workload: kills, ESC, closing while in use and failing allocations included.
`NoIdleToken` alone is not inductive: that a post which finds an empty list may
raise the value needs every sleeper to be in the list, which fails for a
semaphore whose `waitSem` ran out of memory and lost the list; but that call
keeps `semLock`, so no post gets through. `SemInv` says so, and that ids not
given yet are blank, so a new semaphore starts without sleepers.

It also proves `TokensNotMadeUp` under `PostsWhatItHolds`: nobody posts
what it does not hold, on purpose or because ESC killed it inside `waitSem`. The
inductive invariant `TokensInv` adds to `SemInv` who may get a token in the middle
of a call: a process asleep in `waitSem` sleeps for the semaphore it waits in, so a
post wakes nobody into another one's token (`WaiterOK`), and whoever has the CPU
in the middle of `waitSem` was granted its token (`RunnerOK`). Kills, closing while in
use and failing allocations are included.

A `waitSem` or an `initializeSemaphore` that runs out of memory returns with its spin lock
taken (`semaphore.c:60`, `:90`), and the next call that wants the lock spins with interrupts off:
the system hangs (`Spin`). Nothing is claimed against that.

The rest of the module compares the lists with the states the scheduler keeps. A pid in the
list of a semaphore (`ListOK`) is of a process that sleeps for it, and then it is there once,
or of a dead one; `ListsInv` adds that to `SemInv`, with `RunnerAwake`: whoever calls is not
asleep, so it cannot enter a list a second time. Three theorems come from it:

* `SleepersAreListed`: `WaitersListed`, with no assumption on the workload. `SemInv` gives at least
  one place in the list, `ListOK` at most one. The list that a failing `add` forgets
  (`semaphore.c:89`) is no exception: its lock stays taken, so no post ever walks it. The mutant
  that releases the lock there is the obvious repair, and loses sleepers.
* `NoTokenLostOrMadeUp`: `TokensConserved` under `PostsWhatItHolds` and `NobodyDies`. `TokensInv`
  bounds the tokens from above; `ConservedInv` adds the lower bound, and that a process is
  awake or asleep in `waitSem` (so the one that a post wakes is `Granted`). Allocations may fail
  and semaphores be closed in use.
* `FirstComeFirstServed`: `ImplementsFifo` under `SleepersLeftAlone` (nobody is killed, by ESC
  or otherwise, no list is lost, no semaphore is closed under its sleepers). Each of these leaves
  a pid or a sleeper that the promise does not know. Under it the list of a semaphore is exactly
  its sleepers (`ListsExact`), and no lock is left taken (`LocksFree`), so `postSem` finds
  the last pid of the list asleep on its first look; that the walk would go on to the next is thereby
  shown not to happen. `ReverseCons` and `ReverseFront` say what adding at the head and
  removing the last do to the reversed list, which is the queue of the promise.

Only model-checked: liveness.

## 5. Pipes and descriptors

### Correspondence with the code

`Pipes` stands on `Processes`, as the semaphores do. It has the PCB's `fds` and
`fdReplacements`, `fileIdToGive`, and one record per file id with the fields of
`pipeFile_t` (`name` is `NoName` when the pipe is not in `pipeFilesList`). `call[p]`
keeps the locals of a `read` or `write` that is suspended in its block: what is
left to write, or how many characters to read. `atEnd[p]` says how p's last read
ended, and `hung` that a call loops for ever with interrupts disabled.

| Action | Code |
| --- | --- |
| `Mkpipe`, `Open`, `CloseFd` | `mkpipe`, `open` with `openFile`, `close` with `closeFile` |
| `Dup2`, `RevertFdReplacements` | the calls of the same names |
| `Write`, `ResumeWrite` | `write` on a pipe, up to a block and from there on (`WriteOn`) |
| `Read`, `ResumeRead`, `ReadEmpty` | `read` on a pipe (`ReadOn`), and on a descriptor that is not open for reading |
| `StartChild`, `StartParent` | `startProcess` as far as it copies descriptors |
| `Exit`, `KillProcess`, `Escape` | `_killProcess`, which closes all pipe ends of the victim |

The loops over characters are summed up: `Fits` and `Available` count how often the
tests of `files.c:213` and `:283` fail before they hold, for any content of the ring,
and `Stored` is the ring after that many characters. What a resumed `write` does
first, one character without a test, is the parameter `sure` of `WriteOn`.
Descriptors of files 0, 1 and 2 are in the tables (dup2 and revert move them), but
the keyboard and the screen behind them are not in this module.

`PipeQueue` is what a pipe promises: a queue of bounded length, into which every string
goes whole and in order, in as many pieces as there is room for; an end that a reader
meets only when the queue is empty and no process has the write end, and contents
that are given up only when nobody has the pipe open. The refinement maps the ring to
its characters from `readingIndex` to `writingIndex`, and the processes that hold
ends to the *descriptors* of live processes, not to the counts, so it also says
that the counts are right whenever they matter.

### Runs

One pipe with a ring of three places, two of which can be used; strings of one and two
characters, so that a write can fill the ring or find it partly full; descriptors
0 .. 4, of which `open` can give one. `MaxIndex = 4` lets the indices go round the ring.

| Run | What the processes do | Checks |
| --- | --- | --- |
| `PipesDescriptors` | init and two processes: make, open, close, dup2 to 0 and 1, revert, start, exit, kill, ESC, read the empty pipe | `TypeOK`, `CountsExact`, `ReadersSleepRightly`, `SuspendedOnPipes` |
| `PipesData` | init and three processes: also write; no dup2 | `WritersSleepRightly`, `ImplementsPipeQueue` (the queue is bounded and keeps its order, so nothing is overwritten) |

Processes may stop for good (readers and writers of a pipe that nobody else has), so
deadlock is not checked. Some uses break the properties and are kept out of the runs
by the names of their calls: two writers asleep on one pipe (`crowdedWrite`: the second
to wake does not look again); a string longer than the ring (`longWrite`: the writer sleeps before it has
woken the readers), a revert that drops the last write end under a sleeping reader
(`lateRevert`), killing a process that is already dead (`killZombie`: its ends are
counted off twice), dup2 over an open pipe end (`dupOver`), a process that reads a pipe
it can write itself (`readOwn`), and a failing allocation in `mkpipe`
(`outOfMemory`, which loses the list of pipes). The shell's own pipelines need none
of them.

Liveness (every reader moves on) is checked where the writers are known: in `Bizcocho`.

### Proofs

`PipesProofs` proves `TypeOK` and `CountsExact` for every number of processes,
descriptors, pipes, characters and ring places, and for every workload without the
three misuses that break the counts (`OwnDescriptorsOnly`: `dupOver`, `killZombie` and
`afterEsc`, the calls that a process still makes after the ESC key has killed it).
Crowded and long writes, late reverts, readers of their own pipe and a failing
`mkpipe` are all inside the theorem, although the runs leave them out.

The inductive invariant is `PipeInv`: besides the types and the counts, every
descriptor is of a file below `fileIdToGive` (so a new pipe starts with no ends) and a
descriptor without a mode is of no pipe (so what dup2 lays aside was counted nowhere).
The lemmas follow the seven ways an end comes and goes: one more end
(`OneMoreEnd`, for open and dup2), fewer ends (`FewerEnds`, for close, revert, exit
and kill), and a copied table (`StartEffect`). Each says how the set of live ends and
the counts change together; they assume only that the dead make no calls
(`DeadMakeNoCalls`), so that `BizcochoProofs` uses them too. The arithmetic is that of the
cardinalities of finite sets, which is why the processes are assumed to be finitely
many (`ProcessAssumption`).

`PipesNotFreedInUse` proves `SuspendedOnPipes`, with one assumption more
(`MemoryLasts`: the list of pipes is not lost by a failing `mkpipe`). Its invariant
`SuspendedInv` adds to `PipeInv` that a process inside `read` or `write` has the
pipe among its own descriptors: only its own calls could take it out, and it makes none
until it returns. The count of that pipe is then above what others can take off, so
none of their closes frees it.

The second half of `PipesProofs` proves the wake-ups, `ReadersSleepRightly` and `WritersSleepRightly`, under the
assumptions of the former and `OrderlyCalls`: no crowded and no long write, no late
revert, the three uses under which the code breaks them. Neither property is inductive. The
invariant `FlowInv` adds to `SuspendedInv`, for a pipe and a process inside a call on it:
a sleeping writer has what is left of its string and no room, one that was woken and has not
run yet still has room, and there is no other (`WriterOK`); a reader, asleep, has nothing to
read and a writer counted (`ReaderOK`); and who sleeps, sleeps in such a call or on a
descriptor that is not open for reading (`SleeperOK`). What makes the step go through is that the
wake-ups of the code are for *all* sleepers of a reason: a step that fills an empty ring, or makes
room in a full one, leaves nobody asleep on the other side. That the last write end
does not go from under a sleeping reader rests on `CountsExact`: the close that takes the
count to zero is the one that wakes the readers.

The same module proves, under the same assumptions, that a pipe is a queue (`ImplementsPipeQueue`),
for every size of the ring. `QueueInv` adds to `FlowInv` that the places between
the two indices hold characters (`RingOK`) and that a pipe which is not there is
empty. The heart is the arithmetic of the ring: two indices less than a ring's length apart have
different remainders (`OwnRemainders`), so what a write stores touches none of the
places still to be read (`FilledPlaces`), and the contents after a write and after a read
are what the promise says (`QueuedWhenAppended`, `QueuedWhenDrained`). The steps are then a `Put`, a `Take`,
a change of ends, or unseen. The promise keeps what is left of each write (`unwritten`), so
a write that sleeps and goes on may neither repeat nor drop nor reorder a character.

Only model-checked: liveness, in `Bizcocho`.

## 6. The kernel's services

`KernelServices` puts together the parts that share no state with processes: each
behaviour is about one of them, its `subject`, and the others wait in one of their
initial states. One run checks them all.

### Correspondence with the code

| Module | Code | State |
| --- | --- | --- |
| `Memory` | the caller of both managers, after `test_mm.c` | the blocks held: address, size asked for, and the size or division that the manager wrote before it |
| `KrHeap` | `krheap.c` | the free list from `freep` on, in units of `BLOCK_SIZE` |
| `Buddy` | `buddy.c` | `occupied`, a list of free blocks for each division, and `memUsed` |
| `DdlList` | `ddlADT.c` | every node with its two links, `first`, `current`, `toRemove` |
| `Clock` | `time.c`, `time.asm` | ticks still to sleep, the CMOS clock, the registers read so far |
| `Keyboard` | `keyboard.c` | ring of events, `shifted`, `ctrld`, `specialKey` |
| `Screen` | `printing.c`, `printToScreen` | cells with colours, cursor, `backspaceBase` |
| `Terminal` | `readUntilEnter`, `read` of STDIN, `removeBackspaces` | the shell's place, its buffer and index |

* **Managers.** One action is one `memalloc` or `memfree`. `Allocator` says what a
  caller relies on: blocks in the arena, long enough, that share no byte. Both
  implement it. `RefusesOnlyWhenFull` is about what is *not* in use: if a place of the
  size is free from the callers' point of view (for the buddy, at a multiple of its
  size), the next `memalloc` finds it; so every join that can happen happens.
  The arena has 37 bytes: nine units of 4 with one byte over, or a buddy block of 32
  behind a `struct base` of 3; up to six blocks, sizes around each border. That is three
  levels of splitting and every pattern of neighbours free or used.
* **List.** `List` is a sequence with a cursor. The refinement reads the sequence off
  the links, so a wrong link, a wrong cursor after `remove` or a lost node is a step
  that `List` does not allow. Three nodes make a first, a middle and a last one.
  The kernel removes only what the traversal has just returned, and adds only outside of
  one: `walking` keeps to that.
* **Clock.** `time.asm` reads each register with its own `sti`, so the clock may tick
  and another process may set the time zone between two reads: `GetCurrentDateTime` is
  one read. `sleep` and the ticks it counts are modelled too, but no property is about them: a
  sleeper yields until enough ticks have been counted, and every yield of anybody counts one. `DateExact` compares the answer of an undisturbed call with a day number
  computed without a table of months, for instants at the borders of days, months and years
  (leap, not leap, 2000, 2100) and time zones with negative and half hours.
* **Terminal.** The keyboard interrupts between any two steps of the shell. `unread`
  and `at` replace two indices that only grow; a ring of two and three unread events let
  it overrun. The screen has two rows of three columns, so a line of three characters
  wraps and scrolls. The typists are five sets of keys: one with the space bar, one
  with both shifts, one with control-D. The screen has the colours of the boot.
  `ScreenShowsLine` compares two implementations of backspace, `printing.c`'s on the grid and
  `userlib.c`'s on the buffer; after a full buffer has been cleaned of its backspaces the
  screen keeps what the buffer lost, and the property no longer speaks. Neither does it of a
  line in which a space was typed: `backspace` skips every space at the end of the row above
  and rubs out the character before them. Without that premise TLC shows the prompt itself
  rubbed out, two spaces and a backspace after it. Nor does it speak of a line with a control-D, whose
  NUL ends the line for `removeBackspaces` and the shell's parser (`userlib.c:306`) while the
  screen goes on: d, control-D, d shows dd and runs d (section 9).
  `ModifiersExact` compares `shifted` and `ctrld` with the keys that are down. The keyboard is a
  PS/2 keyboard: the key struck last repeats its make code while it is down (`typematic`). The
  driver has one flag for both keys of a kind, and `readPrintables` inverts it at *every* event of
  the kind, so a shift that is held until it repeats, or a second shift, does invert it, and so does
  an event lost in an overrun (section 9). The history variable `outOfStep` has the kinds to which that
  has happened: of these the property says nothing, until `cleanBuffer`, which sets where the other
  reader toggles, meets a last event of the kind that is true, and the kind counts again. What is
  checked is thus that the two readers agree on every run of alternating events, however the events are
  divided between them, and that cleaning does put right what toggling got wrong.
  The typist holds one key besides modifiers, and caps lock is not struck.

### Proofs

`KernelServicesProofs` proves what the run shows of the clock, the K&R heap, the keyboard driver,
the screen and the linked list, for all values of the constants, and `BuddyProofs` what it shows of the buddy
allocator.

Of the memory managers there are three theorems, whichever of the two the build takes:
`AllocatorsImplemented` (`Spec => ImplementsAllocator`), `NoMemoryLost`
(`Spec => []RefusesOnlyWhenFull`) and `ReportsAreExact` (`Spec => []ReportsExact`). They assume
`RoomForAHeader`, for the K&R heap: the arena holds at least one unit; with less the first block
would be empty. The buddy's half assumes nothing but what `Buddy` and `Memory` say of their
constants.

`DatesAreExact` is `Spec => []DateExact` under `RealDates`: the CMOS clock is set to real
instants after the year 1 and time zones have less than a day of hours and less than an hour of
minutes. The invariant `ClockInv` says of a reading under
way which registers have been read and that what they hold is the instant moved by the
part of the zone that has been applied. The calendar part has no month tables: `YearLength` and
`MonthLength` give every year and month its length, `DayAfterExact` and `DayBeforeExact` say that
the code's day before and day after have the day numbers before and after, and
`DateMoved` that at most one hour and one day are carried, which is why one correction in
each direction is enough.

`HeapIsAllocator` and `HeapRefusesOnlyWhenFull` are `ImplementsAllocator` and
`RefusesOnlyWhenFull` for the behaviours whose `subject` is the K&R heap. The invariant `HeapInv` looks at the arena unit by unit: the free list is
in the order of addresses and no two of its blocks touch, its units are exactly those that no
caller's block has, and no two callers' blocks share one. `BlockOut` takes a block out of
the list as first fit does (the tail end of the block it finds), `BlockBack` puts one back where
`memfree` stops, with the joins at both sides. From units to
bytes is `BytesInUnits`; that a refusal is right is `InOneBlock`: free units next to each other are
all in one block of the list, because no two blocks touch, so a free place that is long enough
is in a block that is long enough.

`HeapReportsExact` adds that `getMemInfo` of that heap is exact. The code adds the sizes along the
free list, a fold; `FoldExists` and `FoldChain` (`NaturalMinMax`) unfold a fold over a
sequence into its turns, one for each place, and `UpTo`, the least counterexample, passes from each
turn to the next that the sizes so far are the units so far (`FreeSum`, `UnitsCounted`).

`BuddyIsAllocator` and the buddy's half of the other two rest on `BuddyInv`: the lists repeat no
block, a caller's block is the one its length needs, `memUsed` is the number of bytes in callers'
blocks, and free and held blocks are a `Stock`. That is the part about geometry: every block
lies on the grid of its division, together they tile the arena, and no two free ones are the
halves of a pair. The last is what a refusal being right needs, and `memfree` too: it takes one block of a
pair out of its list and counts on there being no second.

* Places on the grid either have no byte in common or lie one inside the other (`Nested`), and the
  remainder that `restoreToList` computes finds the place around a block (`RoundDown`, `AroundIs`). What
  powers of two are the provers do not know beyond 2^0; `PowerNext` takes 2^(n+1) = 2 * 2^n from the sizes of
  power sets, and divisibility and the two roundings of `logBase2` follow from the least counterexample
  (`PowerTimes`, `CeilLogIs`, `FloorLogIs`).
* `Retile`: blocks may be replaced by others that cover the same bytes. `memalloc` replaces the block
  it takes by its first halves and the end it hands out (`PiecesTile`, `StockGives`); `memfree`
  replaces the block and the buddies it meets by one (`StockTakesBack`). `findAndRemove` looks for *any* address
  in the pair, and `OneBuddy` shows that there is one at most.
* A block that arrives above the largest division would be lost by the code; it never
  does, since while anything is held the whole arena is not free (`LargestInUse`, `StopsInside`).
* `StockHasRoom`: where a whole place of the grid is unused there is a free block at least as long. If
  not, take the shortest of the free blocks inside the place: what covers the other half of its
  pair is free and inside the place too, and no shorter; one as long makes a pair, a longer one overlaps.

`NoKeyWaitsHolds` is `Spec => []NoKeyWaits` with no assumption at all. The invariant `WaitInv`
adds to it only that the ring's places are in range. The reader takes its events in a fold over
the ring; `ReadsInTurns` unfolds it, and `ReadsAll` says that a reader which goes to sleep has
taken every event there was, so that none is left beside it.

`ModifiersFollowKeys` is `Spec => []ModifiersExact` under `ScanCodes`: the keys are scan codes, so that
a release is another code than the press, and caps lock is not among them. The keys that are down and the
events still unread in the ring are two views of one history. `FollowInv` relates them, for a kind that
is not out of step, through `Levels`: there is a level for each place of the ring, which changes at every
event of the kind and is then as the event says, begins with what the driver has in `shifted` (or `ctrld`)
and ends with whether a key of the kind is down *now*. An event that is news puts one more level at the end
(`OneEventMore`); a read takes events away and moves the driver's flag to the level there, whether it toggles
(`ReadFollows`) or sets (`CleanFollows`). A kind that is out of step comes back only in `cleanBuffer`, and
`CleanTells` shows that its flag is right then, whatever it was before.

`ListIsSequence` is `Spec => ImplementsList` for every number of nodes. The refinement reads the
sequence off the links with a recursive function, so the proof begins with what that returns
(`Readout`): on a chain `s` of `n` nodes it is `s`, node by node. `ListInv` says that there is such
a chain: each node's `next` and `prev` are its neighbours in it and no node is in it twice (`Linked`),
and a traversal stands behind the nodes it has visited, with the last of them the one
that `remove` would take (`Standing`); outside of a traversal the cursor is a chain of its own
(`Loose`), what the last one left. `LinkedMore` and `LinkedLess` are the chain after `add` and
`remove`. The first, the last and the only node each take a path of their own through the code,
and one lemma covers them because both ends are read through `At`, which is 0 outside the chain.

`ScreenFollowsLine` is `Spec => []ScreenShowsLine` under `RoomForALine`: a line with its end takes no more than
the rows that a scroll leaves (126 characters and 24 rows of 80 in the code). TLC finds the hypothesis
exact: with one character more the beginning of the line scrolls away before its end is typed, and the base
of the screen, which cannot follow, no longer says where the text begins. The invariant `TermInv` holds the
two readings of what is typed together. `Seen` is what the line is worth after each character of the
buffer, the fold of `Remaining` unfolded turn by turn, in a line without spaces and control-D (`Visible`); `Shows` says that this text stands on the grid, one character at each point
behind the base, and that the cursor stands behind it. Points are numbers (`PointTo`), so a line that
wraps is no special case and a scroll moves text, base and cursor by one row together
(`ScrollShows`). Each character is then one of two: a letter is appended to both
(`WrittenShows`), and a backspace takes the last from both (`ErasedShows`) - on the
grid this is the cursor of a wrapped line going back to the row above, where it looks for the last
place that is not a space and finds the last letter of the text because that row is full of it. What is printed
outside of the line only has to leave a screen (`Screens`: rows, columns and base in range, the cursor
below the last row only at its beginning), which every operation does.

## 7. The shell

`Bizcocho` extends `Pipes` with the shell as one of its processes. `step` is the system
call it makes next, so `executeNonBuiltIn` is up to six steps (dup2, close, dup2, close, start,
revert), with mkpipe and the opens around them, and everything else comes in between:
ticks, programs that write, read and end, `kill`, ESC.

| Action | Code |
| --- | --- |
| `TypeLine` | the main loop up to the parsed line: one program or two, each with or without `&` |
| `MakePipe`, `OpenWriteEnd`, `OpenReadEnd`, `KillLeft` | `bizcocho.c:173-199` |
| `ReplaceStandard`, `StartProgram`, `RevertStandard` | `executeNonBuiltIn` |
| `WaitForProgram`, `InitReaps` | `sys_wait_child` when the child has ended; init's `waitchild` for those in the background |
| `Source`, `Sink` | a program on the left or alone, which may write and may end; `cat`, `wc` and `filter`, which read a character at a time to the end |
| `KillCommand`, `EscapeKey` | the command `kill`; ESC, which kills what runs in the foreground |

`change_priority` has no effect here, since any READY process may be dispatched. A
program on the left ignores its input: `cat & | wc`, which reads `EMPTY` and sleeps
until it is killed, is left out. So are a second `kill` before init has reaped
(`killZombie` of `Pipes`) and starts that fail for lack of memory, after which the shell
goes on with pid 0.

The run has init, the shell and two programs, all six kinds of lines, any
number of lines, and **one** pipe in a behaviour (`MaxFileId = 3`): a second pipeline uses
another pipe and the same calls, but pipelines that overlap in the background are beyond it.
Calls that wait, read and get ESC at every point are what matters, and they need no more.

* `PromptHasStandardFiles`: at the prompt the shell has its own standard files, no
  pipe end, and no replacement to revert.
* `OnlyTheirOwnEnds`: a program on the left has the write end as its STDOUT and no read end;
  one on the right the reverse. With a copy of the write end more, a reader would wait
  for ever.
* `PromptReturns`, `ReadersMoveOn`: liveness.

**Fairness.** `FairShellSpec`: every READY process is dispatched again and again
(`EventuallyRuns` of `Scheduler`), one that has the CPU again and again makes its next call,
a resumed call goes on, and a program on the left ends sooner or later: that is
an assumption on the program, without which `loop | cat` rightly never ends. Nothing is
assumed of the user, nor of `kill` and ESC.

Two orders that nobody would test are in the run. If the program on the left ends before the
shell has opened the read end, the pipe is gone; the open fails and the shell kills the dead
process, harmlessly, and never waits for it: its PCB stays for ever. If it ends before the
shell's revert, the revert drops the last end without freeing the pipe.

### Proofs

`BizcochoProofs` proves `PromptHasStandardFiles` (`PromptStandard`) and `OnlyTheirOwnEnds`
(`ProgramsEndsTheirOwn`) as theorems of `ShellSpec`, with no fairness, for every number of
processes, descriptors and pipes. The run has one pipe in a behaviour; in the theorems pipelines
overlap in the background as they like, and crowded and long writes, late reverts and the kill of a
left program that has ended already (`killZombie`) are allowed too.

The assumptions are `ShellsUse`: nobody makes a call after ESC has killed it, `mkpipe` finds
memory, and the shell has a name for every pipe it makes (it names them with a counter). The run
satisfies all three. Without the first two the pipe counts themselves are broken
(section 5).

Neither property is inductive: what the shell has at the prompt is what six calls before have left
there, with anybody ending in between. The invariant `ShellInv` says

* of the pipes: `PipeInv` of section 5, and that every end of a live process is on a pipe which is
  there (`EndsOnPipes`) and that the shell's number of a pipe is the kernel's (`Numbered`);
* of the shell: it is READY and outside the kernel (`ShellAwake`), and its table and its
  replacements are, at each value of `step`, what `StdinOf`, `StdoutOf`, `FourthOf` and
  `LostFit` say: the standard files, or the end that the program about to start is to get
  (`TableFits`);
* of the programs: `OwnEnds`, which is the second property by `role`, and `LeftEnds` with
  `PipeGone`: until the right side is started, the left program has ends on the new pipe only,
  and the shell kills it only when that pipe is gone. That is why its kill of a program
  that has ended already does no harm: there are no ends left to take off twice.

The lemmas follow the calls: `CloseKeeps`, `KillKeeps` and the others say what each call of
`Pipes` leaves, whoever makes it, on top of the effect lemmas of `PipesProofs`; `MeanwhileStep` is every
step of somebody else; and there is one lemma for each action of the shell.

Only model-checked: the liveness properties `PromptReturns` and `ReadersMoveOn`.

## 8. The philosophers

`Phylo` is `phylo.c` statement by statement, since its processes share variables without a
lock: each access of a shared variable and each system call is a step, except that
comparisons with `tableSize` belong to the statement they guard. The semaphores
are those of section 4, summed up: a value, a queue, and the pid of a killed waiter that
stays in it. The forks' ids are read into `uint8_t` locals (`ID_RANGE`).

`Unbroken` names places after which the timer does not fall, in a run:

* `Brief` (run `Phylo`) has the moments between reading the table or setting a flag and waiting
  for a fork, between starting a philosopher and raising `tableSize`, and around
  `mustSkip`. They are a few instructions long, but nothing in the code protects them: with
  an interrupt there, a newcomer computes his right fork from the old `tableSize`, or the
  father removes a fork between a philosopher's look at it and his wait. With
  `Brief` the run passes: `NeighboursNeverEat` and, under fairness, `EverybodyEats`, for
  three philosophers and one more, four and one less (each with a second key, which is refused),
  and the end of the program.
* `Calls` (run `PhyloStuck`) leaves the timer only the returns of calls that sleep, of
  the posts after eating and of the start of a semaphore or a process. Even then, adding and removing one philosopher may put the
  whole table to sleep: `secondToLastWaitingInLeft` is set and cleared under a test of
  `tableSize`, which changes in between, so it stays set; the removal believes that somebody
  waits for the fork that goes away, and a philosopher who holds two good forks is told to skip
  and posts neither.

**Fairness.** Strong for each philosopher and for the father once a key is typed: a READY
process gets the CPU again and again, but a place in `Unbroken` disables the others for
a moment, so weak fairness would say too little. Typing is not fair: the user may stop.

Bounds: `MAX_PHIL = 5` (9 seats in the code), four philosophers in all. Three seats are
the minimum of the code, and three and four together have an odd and an even table. But the run
adds only to the odd table and removes only from the even one, and the other two changes differ:
the father holds other forks. For those, safety was checked once on larger instances; with
liveness they take too long for a run of the project:

* five philosophers and one less (`NeighboursNeverEat`, 123k states) holds, as does three, one
  more and one less. It fails if the timer may fall between the flag
  `lastOneWaitingInFirstSem` and the second wait of the last philosopher (place `"second"`): the father kills
  him there, believes that he was waiting, and posts a token for nobody;
* four philosophers and one more holds. Two additions, four to six, do not: a newcomer who has
  not looked at the table before the second one starts leaves the former last with the first fork
  for his right one, which has another owner by then. The pause of `phylo.c` before the father reads again is
  meant for this case, and it rests on the newcomer getting a turn in it.

Nobody ends the program while the table is stuck; `NeighboursNeverEat` leaves out the end of
the program, where forks are posted twice before their owners are killed.

### Proof

`PhyloProofs` proves `NeighboursNeverEat` for tables of any size under `GrowsOnce`: nobody is
removed, at most one philosopher is added (further requests may be typed where there is no seat
for them), the father is not interrupted between a start and the new size of the table, and
everywhere else the timer falls as it likes. The hypothesis is about the instance, and it says how
far the code is right: two additions, and removals, break the property unless more places are
unbroken, as above.

The invariant has two parts. Before the end (`TableInv`) the forks are numbered by seats
(`TableOK`), only the philosopher who was started last may lack a seat and no two have the same
(`SeatsOK`), and everyone who has looked at the table has the forks beside his seat
(`ForksOK`), except one: whoever sat last when the table grew keeps the first fork for his right
one until he looks again. That is safe because the new last philosopher has
the same fork, so the two still share it, and because the table grows no more
(`GrowthOK`): the second addition is where the argument, and the code, fail. Forks are then kept by
the tokens: a fork is in one hand, or free with one token (`TokensOK`), where the father's hand counts
while he adds, and who is woken in a wait has the fork before he runs (`SleepOK`, `QueuesOK`).
`AfterWait`, `AfterPost` and `AfterNothing` say what a wait, a post and any other step leave of
this, whoever takes it; most actions are then one of the three. Once the end has begun (`QuitInv`) those
whose turn has come are dead, so when it is over nobody eats. Two neighbours who eat would both hold
the fork between them.

Only model-checked: removals, and `EverybodyEats`, which is liveness.

## 9. Where the code and its documents disagree

`PROJECT.json` lists the one that a run shows (`PhyloStuck`). The others are
modelled, and named here so that nobody takes the passing runs for more than they say:

| Where | What the code does | What a comment or the report says | In the models |
| --- | --- | --- | --- |
| `scheduler.c:418` | a running process that ESC killed is not blocked by `waitchild`, which frees a live child | `scheduler.c:395` | `zombieWait` of `Scheduler` |
| `scheduler.c:309` | init adopts children with interrupts on: one that dies then does not find its parent | `scheduler.c:348` | `initPreempted` |
| `semaphore.c:112` | the pid of a killed waiter stays in the list and takes a post with it | report, page 3: "we always wake the first that had blocked" | `SemaphoresDeaths` |
| `files.c:217` | the second of two writers that wake on a full pipe overwrites what was not read | report, page 1: writing to a full pipe blocks | `crowdedWrite` of `Pipes` |
| `scheduler.c:624` | revert drops the last end of a pipe without freeing it or waking readers | - | `lateRevert` of `Pipes`; taken by `Bizcocho` |
| `bizcocho.c:194` | when the left program ends first the pipe is gone, and the shell never waits for that program | - | `OpenReadEnd`, `KillLeft` |
| `ddlADT.h:17` | `add` puts the element first | "insertion order" | `List` |
| `printing.c:47` | a backspace at the beginning of a row skips all spaces at the end of the row above, past the base too, and rubs out what is before them, be it the prompt | `printing.c:32`: "Borra un char siempre que estemos después de la posicion del backspaceBase" | `Behind` of `Screen`; the premise of `ScreenShowsLine` |
| `userlib.c:306` | a control-D in the middle of a line is a NUL in the shell's buffer: the screen shows what is typed behind it, the shell runs what is before it | - | the premise of `ScreenShowsLine` |
| `keyboard.c:97-109` | shift and control are inverted at every event of either key, so a held key that repeats, or a second one, inverts them, until `cleanBuffer` meets an event of the kind that tells how the keys are | - | `outOfStep` of `Keyboard` |
| `scheduler.c:281` | a write through a null pointer when a process without children is reaped | - | `AdoptedByInit` of `Scheduler` |
| `semaphore.c:60`, `:90` | out of memory, the calls return with a spin lock taken, and the next call on it hangs the system | - | `Spin` of `Semaphores` |
| `time.c:119`, `:125` | `sleep` counts ticks, and every `yield` of anybody is one | "waits the seconds given" | `Tick` of `Clock` |
| `time.c:38` | hours and minutes are read with interrupts on, with no second look | - | `DateExact` excludes it |

## Not modelled

Registers, stacks and the code of `swapTasks` and `initializeTask`; names,
arguments and exit codes of processes; the text of messages, `printf`, `satoi` and the
parser of command lines; the tables that `ps`, `sem`, `pipe` and `mem` print;
`openSharedMem` (twenty blocks, each allocated once and never freed, that processes
share without any protocol of the kernel's); the boot loader, the module packer and the
image, which are other people's; CPU exceptions other than through the `exit` they
call. `PROJECT.json` gives the reason for each component.
