# A TLA+ model of XINU with readers/writer locks

This directory models the system in `src/`: the readers/writer locks with priority
inheritance that the repository adds to XINU; the kernel they stand on (process
table, ready list, dispatcher, process operations, clock, semaphores, messages,
memory, buffer pools, queues); the console driver; and the boot loader's network
code. TLC checks small instances, TLAPS proves the main safety properties for every
value of the constants. `PROJECT.json` lists the components, the runs, the lines
every definition stands for, the hazards and the theorems.

## 1. The system

XINU runs on one processor. A system call is a C procedure that disables
interrupts (`disable(ps)`), works on global tables, and restores the mask. While
interrupts are disabled nothing else runs unless the call itself gives the CPU
away with `resched()`. Concurrency is therefore the interleaving of whole system
calls of different processes and of clock interrupts, plus the `resched()` inside
a call.

| component | state | operations | talks to |
|---|---|---|---|
| locks (`linit`, `lcreate`, `ldelete`, `lock`, `releaseall`) | `lock_table[]`: `lstate`, `num_reader`, `num_writer`, `lprio`, wait list, `process_holding_lock[]`; per process `have_lock[]`, `plock`, `plockret` | create, delete, acquire, release many | wait lists in `q[]`, `ready()`, `resched()`, inheritance |
| inheritance (`change_lck_proc_prio`, `change_pinh_proc`) | `lprio` of a lock, `pinh` of a process | recompute either | called by `lock`, `releaseall`, `chprio`, `kill` |
| dispatcher (`resched`, `ready`) | `pstate`, `pprio`, `currpid`, ready list | choose, switch | every blocking call |
| process operations (`create`, `resume`, `suspend`, `kill`, `chprio`) | process slots, `nextproc` | as named | ready list, wait lists, sleep list |
| lists (`insert`, `dequeue`, `getfirst`, `insertd`) | `q[]` | insert by key, unlink | all of the above |
| clock (`clkint`, `wakeup`, `sleep*`, `unsleep`) | `ctr1000`, delta list, `sltop`, `slnempty`, `preempt` | tick, sleep, wake | `ready()`, `resched()` |
| semaphores (`screate`, `sdelete`, `wait`, `signal`, `signaln`, `sreset`) | `semaph[]`: `sstate`, `semcnt`, FIFO list; `psem`, `pwaitret`; `nextsem` | as named; `kill` of a waiter | lists, dispatcher |
| messages (`send`, `receive`, `recvclr`, `recvtim`) | `pmsg`, `phasmsg`, `pnxtkin` | send, receive, timed receive; notice of a death | dispatcher, clock |
| memory (`getmem`, `getstk`, `freemem`) | `memlist`, free blocks by address | take from the low or the high end, give back and merge | `create`, `kill`, pools |
| buffer pools (`mkpool`, `getbuf`, `nbgetbuf`, `freebuf`) | `bptab[]`, the mark | make, take, give back | semaphores |
| guarded queues (`gpq.c`, `mongpq.c`) | slots, count, `q_seen` | put in by priority, take out, peek | a semaphore or the interrupt mask |
| console output (`com/`, `tty/`) | `com_buf` ring, `com_osema`, UART registers | `putc`, echo, transmitter interrupt | semaphores |
| console input (`tty/`) | `tty_in` ring, `tty_isema`, flags | typing and editing, `read`, peek | semaphores |
| network boot (`mon/monboot`, `monbootp`, `montftp`, `montimer`) | `mon_boot_state`, retry timer, block, destination | request, answer, acknowledge, retry, jump | Ethernet |
| Ethernet output (`mon/ethwrite`, `ethwstrt`, `ethintr`) | output queue, ring of the adapter | write, chain, interrupt | guarded queue, adapter |
| ARP cache (`mon/monarp`, `monnet`) | `mon_arptable`, parked packets | write, learn, resolve | buffer pool, Ethernet |
| device switch, start-up, PCI, traps | device table | dispatch, initialise | hardware |
| config generator, C library | own | own | not linked at run time, or without state |

`csc501-lab2-qemu/` and `TMP/` are copies. `sys/lock1.c` to `lock4.c`, `main1.c`,
`task1.c`, `update_*.c` and `ssclock.c` are drafts that `compile/Makefile` does not
build. None of them is modelled.

**What is hard here.** The order of lock, release, delete and re-create calls of
several processes around two anonymous counts; the choice of the next holder among
readers and writers with wait priorities; loops over the wait list in
`releaseall()` and `ldelete()`; two copies of "who holds what"
(`process_holding_lock`, `have_lock`) that different processes write; a cached
maximum (`lprio`) and values computed from it (`pinh`); processes killed,
suspended or given a new priority while they wait or hold; the two kinds of
priority in the dispatcher; and the end of every wait. Beside the locks: state a call
reads before it blocks and uses afterwards (`wait`, `receive`, `recvtim`, `kill`,
`computc`); library code that leaves interrupts enabled between a test and the step
it guards (`getbuf`, `mkpool`, `enq`, `deq`, the whole boot loader); relative times in
the delta list; rings shared with devices; and a network that loses, repeats and
delays.

**What makes each part correct.**

* Locks: a writer is alone; the counts agree with the holders; a wait ends only by
  a grant, a deletion or a death; every wait ends if the holders release; every
  call returns.
* Inheritance: `lprio` covers the waiters; a holder runs with at least the priority
  of its waiters.
* Dispatcher: every process is where its state says, on one list, in key order;
  the CPU goes to a process of the highest (inherited) priority.
* Lists: insertion keeps the order, removal takes out exactly one entry.
* Semaphores: count and wait list agree; a unit goes to exactly one process, in arrival
  order. Messages: a woken receiver has one. Clock: a delay ends on its tick.
* Memory and pools: every word, every buffer is in one place.
* Console: no slot of a ring is lost or used twice, output goes on, order is kept,
  a reader gets the line as edited.
* Boot: only a complete image is started; nothing unread is acknowledged; whoever
  waits has a timer. Frames and packets are neither lost nor sent to another host.

## 2. The modules

```
XinuQueue ── XinuProc ── RWLock ─┬─ RWLockClaims ──┐
     │           │         │     ├─ RWLockRefines ─┴─ MCRWLock
     │           │         │     │      └ LockService (INSTANCE)
     │           │         │     └─ LockWorkload ──── MCLockWorkload
XinuQueueProofs ─ XinuProcProofs ─ RWLockProofs

XinuProc ─┬─ KernelServices ─┬─ InterruptedResched ── MCInterruptedResched
DeltaList ┘        │         ├─ BufferPools ───┐
   CountingSemaphore (INST.) ├─ ConsoleOutput ─┤
                   ConsoleInput ── LineInput   ├─ MCServices
                   Memory, GuardedQueue,       │
                   NetBoot, NetOutput,         │
                   AddressCache ───────────────┘

XinuProcProofs ── KernelServicesProofs ─┬─ MemoryProofs   (Memory, BufferPools)
      │                                 └─ ConsoleProofs  (ConsoleInput, ConsoleOutput)
XinuQueueProofs ─┬─ GuardedQueueProofs  (GuardedQueue)
                 └─ NetBootProofs       (NetBoot, NetOutput, AddressCache)
```

* **XinuQueue** (`insert.c`, `queue.c`, `getitem.c`, `q.h`). A list is the sequence of
  its entries from head to tail, an entry being the fields of `q[pid]` that matter
  while `pid` is on a list. The head and tail cells with keys MININT and MAXINT are
  the ends of the sequence.
* **XinuProc** (`proc.h`, `ready.c`, `resched.c`, `newpid()`). The variables are the
  fields of `proctab[]` and the globals of the same name. `Resched(ps, rd, ih)` is
  the whole of `resched()`, given the states, the ready list and the inherited
  priorities as the caller leaves them: the early return on base priorities, the
  scan from the tail by inherited priority, the second test, the switch.
  The model uses one process per slot of `proctab`; registers and stacks
  are left out, so `ctxsw()` is the assignment to `currpid`.
* **RWLock** (the lock files and every process operation that touches a lock). One
  action per operation. A call without a loop of grants is one step. The calls with
  a loop are a sequence of steps, and `kpc` says which loop is under way:

  | `kpc` | code | steps |
  |---|---|---|
  | `user` | user mode | any call of the running process, a clock tick |
  | `release` | the `for` over the arguments of `releaseall()` | `ReleaseBad`, `ReleaseFree`, `ReleaseOne`, `ReleaseEnd` |
  | `choose` | who gets the released lock | `ChooseNobody`, `ChooseWriter`, `ChooseReaders` |
  | `admit` | the admission loop for readers | `AdmitReader`, `AdmitEnd`, `AdmitSpin` |
  | `drain` | the loop of `ldelete()` | `DrainOne`, `DrainEnd` |
  | `wakeup` | `wakeup()` in the clock interrupt | `WakeOne`, `WakeEnd` |

  While `kpc` is not `user` only the call in progress takes steps, as interrupts
  are disabled. The splitting is there because properties look at the intermediate
  states (the counts while waiters are being admitted) and because one of the
  loops need not end.

  `readers[l]` and `writers[l]` are history: the processes that `lock()` has returned OK
  to, or that have been readied to return OK, and that have not since released the
  lock, died or seen it deleted. They influence nothing but the guards
  `MayLock` and `MayRelease`, which, when `Disciplined` is TRUE, restrict the processes
  to a second `lock()` only after a release, and to release distinct locks they hold.

  Faithful details a reader may wonder about: after a deletion the word before
  `process_ret_del[]`, which is `num_reader`, becomes 1 (`DrainEnd`); a full lock
  table leaves the caller with interrupts disabled (`LcreateFull`, variable `masked`);
  `chprio()` hands a lock descriptor to `change_pinh_proc()` (`Chprio`); a sleeping
  process that is killed is treated as a waiter of its last lock (`KillBlocked`); a
  reused slot keeps `pinh`, `have_lock` and `plock` (`Create`); and when the two last
  entries of a wait list have equal keys the search for the longest wait chooses
  nobody, since `max_read_time` and `max_write_time` are never assigned (`TopTied`).
* **LockService**: the abstract specification, with holders and waiters and nothing
  else: who may hold together, when a process may be made to wait (a lock must be
  busy; a reader among readers only when a writer waits), how a wait may end, and
  that a descriptor is not reused while somebody waits for its last life.
* **RWLockRefines**: the refinement mapping from RWLock (`open` is the set of
  ACQUIRED locks, `waiting` the contents of the wait lists).
* **RWLockClaims**: statements of the repository's README and comments that the code
  does not keep; each is a violation run.
* **LockWorkload**: RWLock under programs that end, with fairness.
* **DeltaList** (`insertd.c`, `unsleep.c`): the list of sleepers, each key relative to the
  one in front.
* **KernelServices** (semaphores, messages, sleep, clock, `kill` and the other process
  operations, on XinuProc). One action per system call; a call that blocks is one
  action up to its `resched()` and one after it: `kcall[p]` says which call `p` is inside
  of, and its rest is the first thing `p` does when it has the CPU again
  (`WaitReturns`, `ReceiveReturns`, `KillEnds`). `kill()` switches too, when its message to
  the next of kin wakes a better process, and keeps its victim in `kvictim`. A tick
  (`Tick`) counts down the first key of the delta list through `sltop`, wakes whoever is
  due and reschedules; `Preempt` is a tick that ends the quantum. `due` and `idled` are
  history: the ticks left of the delay asked for, and whether a tick was spent on a
  delay of 0.
* **CountingSemaphore**: abstract semaphores (units, a line, how a wait may end).
  `ImplementsSemaphores` maps `units` to the positive part of `semcnt` and `stage` to where
  a process is in `wait()`.
* **InterruptedResched** (`releaseall.c:342`): the same kernel with the `resched()` at the
  end of `releaseall()` in the three parts between which an interrupt can come.
* **BufferPools**: `pc[p]` is where a process is in `getbuf()`, `freebuf()` or `mkpool()`; those
  run with interrupts enabled between their steps. `Service` is everything else that
  processes do meanwhile.
* **Memory**: the list as the sequence of its blocks, in words of 4 bytes. `Blocks` are the
  first free blocks as `sysinit()` makes them (the branch for machines with more than
  640K): they begin on an mblock boundary and end on any word, as `truncew` rounds to 4
  bytes (`maxaddr` 0xFFFFFF gives an upper block of 0xE68FFC bytes, an odd number of
  words). Stacks may have an odd number of words too (`create()` rounds with `roundew`);
  `Returned` is what `freestk()` makes of one: the length rounded up to 8 bytes, counted
  from the top, so that the word below goes along. `owned` and `idle` are history: what
  callers hold, and the words that nobody has (the spare word above a first block of an
  odd length, what a refused `freemem()` loses). `Astray` are the words of block headers
  that do not belong to the list: a block or gap of one word has no room for `mlen`, and
  a neighbour's word that was freed along may become the first of a header. The step
  that leads there is taken; after it the model stops, because what the list says from
  then on depends on what the owner of the word writes.
* **GuardedQueue**: test and guarded part of `enq`, `deq` and `seeq` as two steps.
* **ConsoleOutput**: `cpc[p]` is the step of `computc()`. `CharacterSent` is the UART, which
  the repository does not contain.
* **ConsoleInput**, **LineInput**: the ring with its editing keys, and the line it
  implements. `tty_isema` is a count and a queue here (its semantics is the semaphore
  of KernelServices). A receive interrupt runs in the process it came to (`Contexts`, the
  readers among them) and may wait there for room to echo: `handler[h]` is what it has
  still to do after that. A newline or end of file has the test of `scount()` and the
  signal (`LineEnds`); `delword()` goes on from the index and the kind it kept
  (`WordGoesOn`), after whatever was typed, erased or read meanwhile. Nothing is left after
  the echo of any other character. `alone` is history: no other handler has stored or
  erased since the word was begun. A newline behind a carriage return, and every further
  one, changes nothing (`lastc` is not written), so it has no action.
* **NetBoot**: `bpc` is where the main loop is between two of its assignments; timer and
  network interrupts are actions that may come at any of them. `network` is the set of
  datagrams ever sent, so that one may be lost, late or delivered again. `Server` is
  external.
* **NetOutput**: the ring as start, end and the blocks in flight; `Transmitted` is the
  adapter. `tight` marks a ring that a block has filled to its last word.
* **AddressCache**: table, packets and pool; `net.lost` are packets that a full table
  dropped.
* **MCServices** puts these side by side. They do not share state, except that the
  first three extend KernelServices, so a behaviour is one of a single component
  (`part`) and the state space is the sum, not the product. `Workloads` gives each
  behaviour of KernelServices the processes and the calls it uses, for the same
  reason: the mixes that can disturb one another are together (semaphores with
  deletion and death; messages with death and next of kin; timed receive with send,
  sleep and death; pools with death).
* **MCRWLock**, **MCLockWorkload**, **MCInterruptedResched**: values for the constants.
* The modules in **...Proofs** hold the theorems of section 4. Each extends the modules it is
  about and the proofs it builds on; the models themselves contain no theorem.

Abstractions. In RWLock a tick may find any set of sleepers due and any quantum used
up (the delta list is in KernelServices); `lck_qtime` is not kept because the code that
reads it decides nothing; `PRWAIT`, `PRRECV` and `PRTRECV` are absent, as semaphores and
messages are not used by the locks, and `resched()` is one step (the window of
`releaseall()` is InterruptedResched). KernelServices leaves out the contents of a
message, the closing of devices, `numproc`, and a `getstk()` that fails in `create()`.
Actions for calls that fail their first tests and change nothing are left out, except
where they change something (`CreateBadPrio`, `LcreateFull`) or abandon a loop
(`ReleaseBad`).

## 3. The runs

| run | question | bounds | result |
|---|---|---|---|
| `exclusion` | Is a writer alone? Do the counts match the holders? Does the kernel implement LockService? | 3 user processes and the null process, 1 lock, wait priorities {1, 2}, deletion and re-creation | holds (428 k states) |
| `undisciplined` | What survives processes that release anything, with bad descriptors? | as above with priorities 1, 2, 3, lists `<0>` and `<0, out of range>` | holds (865 k) |
| `inheritance` | Does a direct holder inherit? Does a switch pick the highest? | priorities 1, 2, 3, two locks, taken nested, released singly or together | holds (166 k) |
| `scheduling` | Are processes and lists consistent under every process operation? | 2 slots for user processes, `create`, `resume`, `suspend`, `chprio` to 0, 1, 3, `kill`, `sleep`, ticks | holds (961 k) |
| `workload` | Does every waiter get the lock? | 3 programs, one writer, distinct wait priorities | holds |
| `release_unheld` | Is only a held lock released (README.md:69)? | 2 processes | violated |
| `equal_priorities` | Is a free lock handed on (README.md:44)? | 3 processes, one wait priority | violated |
| `granted_inherits` | Does a holder inherit however it got the lock (README.md:85)? | 3 processes, writers | violated |
| `resume_shortcut` | Does `resume()` leave the CPU with the highest priority (resched.c:11)? | 3 processes | violated |
| `admission_loop` | Does `releaseall()` return (releaseall.c:157)? | as `workload`, two writers | violated |
| `interrupted_resched` | Do states and lists agree outside of `resched()` when a tick falls inside it (proc.h:24)? | 3 user processes of one priority, `sleep`, `resume`, ticks | violated |
| `services` | The properties of all components of the second diagram, see below | see below | holds (542 k states) |

The properties of `services`, by component:

| component | properties |
|---|---|
| semaphores | `ServTypeOK`; `CountIsWaiters`: a negative count is the number of waiters; `InItsPlace`: each process on the one list its state names; `ImplementsSemaphores` |
| messages | `WokenHasMessage`: `receive()` does not test again and need not |
| clock | `CountsHead`: `sltop` is the first sleeper; `DelaysKept`: no delay ends early, nor late unless `recvtim(0)` wasted a tick |
| pools | `UnlinkFindsBuffer`: past the semaphore there is a buffer; `BufferInOnePlace`; `PoolsStay` |
| memory | `HeapPartitioned`: every word is free once, given out once or known to be idle; `FreeListCanonical`: ordered and merged; `EvenBlocksComeBack`: whatever is freed is on the list again, but for stacks of an odd length |
| guarded queue | `QueueContents`: nothing lost, order kept; `CountInBounds` |
| console output | `SlotsAccountedFor`, `OutputKeepsGoing`, `OutputInOrder` (unless somebody wrote between the two waits of a newline), `WritersNotStranded` (fewer writers than slots) |
| console input | `ImplementsLineInput`; `WordErased`: `delword()` erases exactly the word (unless somebody else types meanwhile); `InputSemaphoreBounded` |
| network boot | `ImageComplete`: a jump finds every block in its place; `AcksAreEarned`; `RetryTimerRuns` (unless a stray block stopped the timer) |
| Ethernet output | `BlocksApart`, `FramesNotStranded` (until a block fills the ring) |
| ARP cache | `PacketsAccountedFor` (but for those a full table drops), `PacketsFindTheirHost` |

The exceptions in brackets are what the code does, and section 5 says how. Each is a
history variable (`raced`, `alone`, `silenced`, `tight`, `net.lost`, `idled`) or a bound, set only by
the step that causes it.

Bounds of `services`: three user processes of two priorities (a waiter, a second one
behind it, and somebody who signals, kills or sends), one semaphore that is deleted
and re-created, counts and delays 0 to 2 (an equal, a shorter and a longer delay),
`MaxCount` 3; a pool of two buffers; a ring of 3 output slots, so that it wraps in the
middle of a CR NL pair; 3 input slots and three characters (a blank, a newline and an
end of file, which are of two kinds), with either one reader and handlers that wait in
its process and in another one (`typing`), or two readers and handlers that wait in a
process that does not read and erase no word there (`reading`); two blocks of memory of
9 and 5 words with a hole, requests of 1, 2 and 4 words, stacks of 2 and 3, so that one
stack takes its neighbour's word, one gains an idle word, one is refused and one leaves a
single word; 2 queue slots, two consumers, 4 items;
an image of 3 blocks, 3 requests (as in the code) and 1 resent acknowledgement (5 in
the code, they differ only in number); a transmit ring of 22 words with headers of 4
and blocks of two lengths, so that blocks end at, before and behind the seam; 3 hosts
for a cache of 2 entries (3 in the code), so that it overflows, and 3 packets.
Deadlock is not checked there: the queue's items are bounded, a boot ends, an overrun
ring is not followed further.

Why the bounds of the lock runs are enough. Three user processes are the least that
give two waiters of different types behind a holder, a reader admitted beside a waiting writer, and a
process in the middle of a wait list (which `Dequeue`, `WaitersPrio` and the tie test
need). Two wait priorities give all of "above", "equal" and "below". One lock is enough
for exclusion, since the locks share no counts; inheritance takes a maximum over locks
and is checked with two. `scheduling` gives up a process for the whole set of
operations: its two slots are killed and reused in every state of the lock.
`MaxReaders` bounds the READ grants `lock()` makes to a process that takes a lock
again and again without discipline; with discipline a process holds a lock once and
the bound never bites. The processes start suspended, with `main` running, as after
`create()`.

`undisciplined` keeps the deadlock check on like all the other lock runs: the kernel never
stops, since the null process can always be interrupted.

Fairness (`LockWorkload` only). `WF(Kernel)`: a kernel call runs on the CPU with
interrupts disabled, so its next step is taken. `SF(Run(p))` for each process: `Run(p)` is
enabled when `p` has the CPU in user mode, and a tick can only fall between two
instructions; a process that is given the CPU again and again executes its program.
No fairness is assumed of the clock: a process does not depend on preemption here,
as each one runs until it blocks or exits. Everything else runs under `Spec` without
fairness, for safety.

`workload` has one writer and distinct wait priorities because the code is not live
otherwise: equal wait priorities at the tail leave a free lock free
(`equal_priorities`), and with two writers and a reader a release reaches the admission
loop with a writer left in the list, where it never ends (`admission_loop`).

Each property of a passing run has a mutant: a changed definition, kept next to the
original and named for what it gets wrong, under which the property fails.

## 4. What is proved

Every property that a passing run checks as an invariant or as an action property is
also a theorem, for every value of the constants, but for the few named at the end of
this section. The table lists them with what they assume beside the assumptions on the
constants; `PROJECT.json` says in a sentence what each one means.

| module | theorem | states | only where |
|---|---|---|---|
| `RWLockProofs` | `TypeCorrect` | `TypeOK` | |
| | `CountsCorrect` | `CountsExclusive` | |
| | `Exclusion` | `MutualExclusion` | `Disciplined` |
| | `CountsAccount` | `CountsMatchHolders` | `Disciplined` |
| | `QueuesCorrect` | `QueuesMatchStates` | |
| | `WakeupsJustified` | `WakeupJustified` (action) | |
| | `HighestRuns` | `SwitchPicksHighest` (action) | |
| | `LprioCorrect` | `LprioCoversWaiters` | |
| | `HoldersInherit` | `DirectInheritance` | no `chprio`, no `create` |
| | `LocksImplement` | `ImplementsService` (refinement) | `Disciplined`, no `kill` |
| `KernelServicesProofs` | `ServInvariant`, `ServTypeCorrect` | `ServInv`, `ServTypeOK` | |
| | `CountsTrusted` | `CountIsWaiters` | |
| | `EveryoneInPlace` | `InItsPlace` | |
| | `ClockCountsHead` | `CountsHead` | |
| | `ReceiversAreServed` | `WokenHasMessage` | |
| | `NobodyWakesEarly` | `DelaysKept` | |
| | `SemaphoresImplement` | `ImplementsSemaphores` (refinement) | |
| `MemoryProofs` | `HeapIsPartitioned`, `FreeListIsInOrder` | `HeapPartitioned`, `FreeListCanonical` | |
| | `EvenBlocksAreRegained` | `EvenBlocksComeBack` (action) | |
| | `BuffersAreApart`, `PoolsAreKept` | `BufferInOnePlace`, `PoolsStay` (action) | |
| | `UnlinksFindBuffers` | `UnlinkFindsBuffer` | `PoolsOnly` |
| `ConsoleProofs` | `InputIsBounded` | `InputSemaphoreBounded` | |
| | `OutputGoesOn` | `OutputKeepsGoing` | |
| | `ConsoleKeepsKernel` | `InItsPlace`, `CountIsWaiters` under the driver | |
| | `SlotsAccount`, `CharactersInOrder` | `SlotsAccountedFor`, `OutputInOrder` | `DriverOnly` |
| | `WritersGoOn` | `WritersNotStranded` | `DriverOnly`, fewer newlines under way than slots |
| | `LineImplemented` | `ImplementsLineInput` (refinement) | |
| | `WordIsErased` | `WordErased` (action) | |
| `GuardedQueueProofs` | `CountStaysInBounds`, `ContentsAreKept` | `CountInBounds`, `QueueContents` | |
| `NetBootProofs` | `LoadedImage`, `EarnedAcks`, `TimerCoverage` | `ImageComplete`, `AcksAreEarned`, `RetryTimerRuns` | |
| | `PacketsAreKept`, `PacketsAreDirected` | `PacketsAccountedFor`, `PacketsFindTheirHost` | |
| | `BlocksAreApart`, `FramesGoOn` | `BlocksApart`, `FramesNotStranded` | |

`XinuQueueProofs` has what `Insert` and `Dequeue` do to the contents, the order and the
distinctness of a list, and `XinuProcProofs` what `Resched` and `NewPid` return; the others
build on these two.

**The hypotheses.** They are the ones under which the runs check the properties, and
each is there because the property is false without it.

* `Disciplined`: `releaseall()` does not look whether its caller holds the lock
  (`release_unheld`). `kill()` of a holder leaves the counts up, so counts and holders are
  equal only where nobody is killed; `CountsMatchHolders` says so itself.
* `LocksImplement` has no `kill`, because LockService lets a holder go only by
  releasing. (`exclusion` checks it with the same calls.)
* `HoldersInherit` has no `chprio` (it hands the wrong identifier to
  `change_pinh_proc()`) and no `create` (a reused slot keeps `have_lock`).
* `PoolsOnly`: no process signals, resets or deletes semaphores by itself. A unit that
  somebody else gives to the semaphore of a pool is not a buffer. Deaths are allowed.
* `DriverOnly`: the same for `com_osema`, waits included, and nobody is killed: a slot that
  a dead process claimed is lost.
* `WritersGoOn` counts the processes between the two waits of a newline; with as many of
  them as there are slots they wait for one another (section 5).

**The inductive invariants.** Hardly one of the properties is inductive by itself.

* *Locks.* `TypeOK` needs `NullCanRun`: the null process is running or ready, so that the
  ready list is never empty where `resched()` removes its choice without a test.
  `TypeOK` includes that `pinh` is never the -1 from which `change_pinh_proc()` starts
  and that the descriptor which `chprio()` passes for a process id is one (from
  NLOCK <= NPROC; both are 50). `CountsInv` says what the loops know in between: the lock
  in hand is in use, and in `admit` it has no writer. `HoldersInv` relates counts and
  history by an inequality, which is enough for exclusion: a count of 0 means that
  nobody is inside. `CountsEqual` with `WaitersHoldNothing` (nobody waits for what it holds,
  so an admission adds a holder) gives the equality. `QueuesInv` is `QueuesMatchStates` with
  the running process, the sleepers `wakeup()` has still to ready, and `plockret` of the
  waiters, which is OK until `ldelete()` says otherwise: `WakeupJustified` follows from it
  step by step. `LprioInherited`, a process flagged on both sides is scheduled with at least
  `lprio`, turns `LprioCoversWaiters` into `DirectInheritance`.
* *Kernel services.* `ServInv` is `TableInv` (states, ready list, running process), `SemInv`
  (a line holds exactly the processes that wait for its semaphore, each once, and its
  length is what the count says), `ClockInv` (the same for the delta list) and `CallInv`
  (what a process may be inside of in each state). The victim of `kill()` is in it only
  as some user process: by the time the killer goes on it may be dead or another
  process, and the proof goes through all the same. For `DelaysKept` the keys of the
  delta list and their partial sums are two functions (`TicksAndKeys`), so that an
  insertion or removal is a shift of one and a step of the other.
* *Memory.* The free list is `Rising`: in order and never touching, blocks of any parity.
  Then the neighbours that `freemem()` looks at are the only blocks a returned one can
  share a word with (`OverlapIsSharing`), and `HeapInv`, the division of the words between
  the list, the owners and nobody, follows by cases of the merge. An odd stack returns
  its own words and the one below (`ReturnedWords`), which is free (the call is refused),
  idle, a program's, or outside of the heap (the result is `Astray`: gaps between first
  blocks are longer than one word, `HeapHoles`). As long as nothing is astray every header
  lies in words of the list (`ExactUntilAstray`), and each step starts from there.
* *Pools.* `PoolsInv` for who has a buffer. `BuffersInv` adds `Promise`: the units of a
  semaphore, the processes that have a unit but no buffer yet, and those that have
  returned a buffer but no unit yet, together are no more than the free buffers. It is
  an inequality because a process that dies with a unit takes it along.
* *Console.* `InputInv`: the units and the processes about to peek. `HandlerInv`: the index a
  lone `delword()` keeps is that of the slot behind the line; reading from the front does
  not move it, each erasure moves both back by one, and whoever else stores or erases is
  noticed. `SlotsInv`: characters,
  free units and the claims of writers between their waits are the slots of the ring; a
  writer that wakes up takes over the claim its signaller gave up. `OrderInv`: the ring read
  from `com_start` is what is expected on the line, and the position kept over the second
  wait of a newline is still its end unless somebody wrote (`raced`). `WritersInv` shows the
  driver to be a good citizen: `ServInv` holds under its steps too.
* *Guarded queue.* `CountInv`: once the count is 0 or less it has gone down once for each
  consumer that has left since, so those still inside are at most their number less one
  plus the count. `ItemsInv`: the items in the slots are distinct and are the accepted ones
  not delivered.
* *Network.* `LoadInv`: what the network may contain (a block beyond the first only if its
  predecessor was stored, an acknowledgement only of a stored block), and that from the
  assignment of `mon_tftp_block` on the blocks before the expected one are in their places;
  while a transfer begins the block number is 0, so that no datagram of an earlier attempt
  is taken for the expected one. `TimerInv`: the timer also runs at the two steps between
  its assignment and the top of the main loop. `CacheInv`: each packet is in one place, the
  entry it is parked in is for its next hop, and a packet in the hands of the main loop
  has its address before it is written. `OutInv`: distances from the start of the ring turn
  it into a row, in which every block lies in front of the next one and of the end, so
  that what wraps around needs no cases; a stopped adapter has marked the block that
  failed, and somebody looks after the blocks. The loop of `mon_ethwstrt()` keeps
  whatever one round of it keeps (`TakenStays`).

**The refinements** are proved step by step: initial states map to initial states, and
each action of the code maps to an action of the abstract specification or to a stutter.
For LockService: `lock()` to a grant or to the start of a wait, each admission of
`releaseall()` to the grant of one waiter, the drain of `ldelete()` to refusals; it uses
`QueuesInv`, `HoldersInv`, `CountsEqual` and `FreeAreEmpty` (a free descriptor has no waiters
left, but those `ldelete()` is turning away). For CountingSemaphore it uses `ServInv` and
`WaitersNotRefused` (a process in the line has not been given its answer yet). For LineInput
(`TypeOne`, `EraseOne`, `Take`) it uses `RingInv`, start and count within the ring: a
character stored `tty_icount` behind the start extends the line, one taken back shortens
it unless it is a newline, and copying out from the start takes a prefix of it. A word is
erased by one step for each character, between which others may type and read.

The theorems about KernelServices are about `ServSpec`. Where other components come on
top, `ServInv` is proved again for their steps: `PoolsInv` contains it for `BufSpec`, and
`ConsoleKeepsKernel` states it for `ConsoleSpec`.

**The assumptions** on the constants, which TLC evaluates in the runs: at least two slots,
NLOCK <= NPROC, priorities within range; finitely many readers and consumers; rings, queues
and tables with at least one entry; an adapter with room for every frame and two headers;
first memory blocks that begin on even words, hold a header, are in order and leave gaps;
stacks of two words at least (`MINSTK`); readers that are processes an interrupt may come
to.

**What stays with TLC.**

* `WaitersServed`: liveness, which needs fairness and ENABLED.
* The six violation runs, which are counterexamples.
* That the components side by side in MCServices do not disturb one another: they share no
  state.

## 5. What the code does that the documents do not say

Six disagreements are runs (section 3). Others were met on the way and have no run:

* A descriptor that was recycled is not refused to processes of its first life
  (README.md:41 asks for SYSERR); nothing in the code tells the lives apart.
* Inheritance is not transitive (README.md:87): a boosted holder that itself waits does
  not boost the holder it waits for; `lprio` is computed from base priorities.
* `chprio()` on a waiter and `kill()` do not reach the holders as README.md:106 asks:
  the first because of the descriptor passed as a process id, the second when the
  holder got the lock from `releaseall()`.
* `kill()` of a holder leaves the lock held for ever; `kill()` of a waiting writer does
  not re-examine the readers it kept waiting.
* A new process inherits the `pinh` and `have_lock` of the last owner of its slot.
* `lprio` is computed before the granted process leaves the list and is not reset by
  `lcreate()`, so a lock nobody waits for may have one.
* A full lock table leaves the caller of `lcreate()` with interrupts disabled.
* `kill()` tells the next of kin before it buries the victim. If that switches, another
  process may kill the same victim, or its slot be reused, and the killer goes on
  with the slot as it finds it.
* `recvtim(0)` sleeps for a tick and makes everybody behind it in the delta list one tick
  late (`idled`).
* `getbuf()` waits for a buffer when the pool is empty; the boot loader calls it in its
  interrupts.
* Two first calls of `mkpool()` both run `poolinit()`; the mark makes that harmless.
* `getstk()` and `create()` round to 4 bytes, `freestk()` to 8. A stack of an odd number of
  words is returned with the word below it: that of a neighbour, which is then free while
  in use, or one nobody had. When the word below is free the call is refused and the
  whole stack is lost, which is always so if it was cut from a larger block and nothing
  has been allocated below it since. Cut from a first block of an odd length, even stacks
  leave a single word on the list, whose `mlen` lies in the next word. Whether these
  happen depends on `maxaddr` and on the sizes passed to `create()`; `create()` also keeps
  the stack when `newpid()` fails or the priority is 0.
* Two consumers of a queue with one item both get one: the count goes to -1 and `enq()`
  repairs it. Two producers overrun the arrays; the boot loader's main loop and its
  interrupt are two. `newq()` is unguarded and leaves a queue valid that has no arrays.
* A newline computes where its second character goes before it waits for the slot:
  somebody who writes meanwhile is overwritten (`raced`). As many writers of newlines as
  there are slots wait for one another. Echo blocks the process it interrupts, the null
  process as well, against proc.h:39. `comsputc()` overtakes the ring.
* `tty_isema` is not a 0/1 semaphore as h/tty.h:33 says: a peek adds a unit, and several
  lines may give one unit only, so a reader may wait beside a line, or be given no
  characters, which means end of file.
* After a carriage return every newline is dropped until another character comes: `lastc`
  is not written for a dropped one (ttyiin.c:25).
* `delword()` keeps its index over the echoes. If others type while it waits it erases what
  they typed, or stops early; in the model whenever `alone` is FALSE.
* `ttyopen()` of an open terminal reads flags through a null pointer.
* A block far from the one expected stops the boot timer for good (`silenced`):
  `monudp.c:64` clears it, `montftp.c:52` drops the block.
* A block that fills the transmit ring exactly makes it look empty (`tight`).
* A full ARP table drops the packet parked in its first entry (`net.lost`). A class D
  destination leaves its buffer allocated.

## 6. Not modelled, and the plan

Not modelled:

* Device switch, start-up code, traps, PCI, the configuration generator, the C library:
  no state of their own that changes over time, hardware set-up, or generated and
  vendored code. The generated parser and lexer and the second copy of the tree in
  `csc501-lab2-qemu/` are most of the repository's lines.
* Of the console: raw and cbreak modes (no code sets them), reprinting, the status
  interrupts, opening and closing. Input and output are separate models: that an echo
  waits is a handler of ConsoleInput that takes its next step later.
* Of memory: what happens once a header lies in somebody else's word, and machines with
  at most 640K (initialize.c:153-159), where the only block is rounded in the same way but
  may end a word inside of the null process's stack.
* Of the boot loader: the command shell, checksums and layouts, the 3Com driver (the
  same role as the EtherExpress), the receive ring, class D addresses.
* Of the process operations: devices closed by `kill()`, `numproc` and `xdone()`.
* What an overrun writes over (two producers of a queue, a tight ring), and a system
  whose null process is blocked by echo.

Left to do, in this order:

1. **Linked lists**: `q[]` with `qnext` and `qprev`, refining XinuQueue.
2. Liveness of output and of the boot under a fair adapter, UART and server.
3. Two producers of a guarded queue, with the arrays that lie behind each other.
