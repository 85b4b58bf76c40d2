# Verification of 5103-OS

The repository holds four programs written for one operating-systems course.
They share nothing but a few utility files:

* **Project 1** (`src/Project1`): a simulated kernel with four process schedulers,
  a simulated cpu, two queued devices driven by real timers, and a device thread.
* **Project 2** (`src/Project2`): a simulator of virtual memory: MMU with a TLB,
  page replacement policies, frame allocation, disk I/O, cleaning daemon.
* **Project 3** (`src/Project3`): a Unix-like file system in a file, with
  `mkfs`, `fsck` and user programs.
* **Project 4** (`src/Project4`): a Linux character device that is a bounded buffer.

This directory holds TLA+ models of the parts that carry the programs' own logic,
the TLC configurations that check them, and TLAPS proofs.

## Inventory

| Component | State | Operations | Interacts with | What makes it correct |
|---|---|---|---|---|
| P4 scullBuffer (`Buffer/scullBuffer.c`) | ring of items, indices, size, `sem`, `item_sem`, `space_sem`, counts of open files and of calls in progress | init, open, release, read, write | producers and consumers through system calls | mutual exclusion, tokens = slots, FIFO order, every call returns |
| P4 producer, consumer | own id, open file | open, loop of reads/writes, close on signal | scullBuffer | - |
| P1 ID manager (`utility/id.cpp`, also in P2) | counter, queue of returned ids | getID, getLowID, returnID (`nextLowID` and `reservedIDs` have no caller) | schedulers, kernel, logger; frames in P2 | an id has at most one holder, none is lost |
| P1 schedulers (`scheduler/*.cpp`) | ready queue(s) or vector, blocked vector, running process, tick counter, tickets | addProcess, setBlocked, unblockProcess, removeProcess, getNextToRun, numProcesses | called by the main thread; unblockProcess by the device thread | no process lost or twice, quanta kept, everyone served (RR) |
| P1 kernel (`kernel.cpp`) | current process, PSW, tick count, three semaphores | boot loop, initProcess, cleanupProcess, swapProcesses, signal handler, device thread | all of P1 | kernel exits exactly when all processes are done; no wakeup lost |
| P1 devices (`devices/*.cpp`) | queue of waiting processes, POSIX timer | scheduleDevice, timerFinished | main thread, device thread, signals | one answer per request |
| P1 cpu (`cpu.cpp`) | PC, VC, PSW, mode | run, getSet..., executePrivSet | kernel | a process computes as if alone |
| P1 logger, process logger, top, init | log files, socket | - | - | display only |
| P2 core (`vmm_core.cpp`, `cpu.cpp`, `round_robin.cpp`) | ready queue, running process, blocked ones, the line each trace is at, remaining quantum | main loop, run a quantum, resolve a fault, end a process | all of P2, through direct calls; one thread | a process is blocked exactly while one page of its is on its way in |
| P2 MMU and page tables (`mmu.cpp`, `data_structs.h`) | TLB, its next slot, page table register; frame and bits per page; virtual counter | getAddr, addTLB, syncTLB, flushTLB, switchProc | cpu, policies (which clear bits behind its back) | the TLB answers as the page table would; a write is not forgotten |
| P2 policies (`Policy/pr_*.cpp`) | pages in memory in an order (`pageHist`), time stamps, reference bits | resolve a fault, finishedIO, clearPages, updateTime | core, allocator, I/O, daemon | a dirty page is written before its frame is given away |
| P2 frames (`Policy/frameAlloc.cpp`) | allocated bits, pinned bits, `openFrames` | get, return, pin, count | policies, core | every frame has one page; the count is right |
| P2 cleaning daemon (`Policy/cleaningDaemon.cpp`) | threshold and amount | check, clean | policies, allocator | keeps to what it is told, takes only pages in memory |
| P2 I/O (`io_control.cpp`) | outputs per process, inputs as a queue of time differences, inputs that wait for an output | schedule, tick | core, policies | events end when the log says, an input after the output it waits for |
| P3 file system (`FileSystem.cc`, `IndexNode.cc`, `SuperBlock.cc`) | bitmap, inodes, hints | allocate/free blocks and inodes | system calls | a block has one owner, free = unowned |
| P3 calls (`Kernel.cc`, `FileDescriptor.cc`, ...) | open-file table, process table, inode copies | creat, open, read, write, link, unlink, ... | file system | link counts = directory entries, descriptors closed |
| P3 fsck | counts over the tree | repair link counts and bitmap | file system | its result is consistent |

Hard behaviours, with their lines, are listed under `hazards` in `PROJECT.json`.

## Modules

| Module | Models | Kind |
|---|---|---|
| `ScullBuffer` | the device driver and its users (P4) | component |
| `BoundedFifo` | what the device promises | abstract specification |
| `ScullBuffer_proofs` | theorems about `ScullBuffer` | TLAPS |
| `IDManager` | `cIDManager` (P1) | component |
| `IDPool` | what it promises | abstract specification |
| `IDManager_proofs` | theorems about `IDManager` | TLAPS |
| `Schedulers` | the four schedulers (P1): state, and one operator per method | component |
| `SimKernel` | main thread, device thread, signal handler, devices and timers (P1), composed with `Schedulers` | composition |
| `SimKernel_proofs` | theorems about `SimKernel` and `Schedulers` | TLAPS |
| `Processor` | the cpu (P1), and the kernel's swapping of processes, with registers and program text | component |
| `Processor_proofs` | theorems about `Processor` | TLAPS |
| `PageTable` | page tables, pages, virtual counter (P2): what the next five share | component |
| `FrameAlloc` | `cFixedAlloc` | component |
| `IoControl` | `cIOControl` | component |
| `Mmu` | `cMMU` with the TLB | component |
| `PageReplace` | FIFO, LRU, LRU approximation | component |
| `Vmm` | main loop, cpu, round robin and cleaning daemon (P2), composed with the five above | composition |
| `Vmm_proofs` | theorems about `Vmm` | TLAPS |
| `NumberFacts` | lemmas about numbers and sums that the proofs share | TLAPS |
| `FileSystem` | the file system (P3): bitmap, index nodes, directories on disk, the programs that change them, fsck, stops between two writes | component |
| `FileSystem_proofs` | theorems about `FileSystem`: types, the order of the root, fsck | TLAPS |
| `FileSystemBlocks_proofs` | theorems about `FileSystem`: which block is whose; that entries are missing one at a time | TLAPS |
| `MC...` | instances for TLC | model checking |

### ScullBuffer

Each process has a program counter in `pc`. A call is cut where it can sleep or
be overtaken: waiting for `sem` (`ReadLock`, `WriteLock`, `Open`, `Release`), the
`down_trylock` on `item_sem`/`space_sem` (`ReadTake`/`ReadEmpty`, `WriteTake`/`WriteFull`)
and the copy to or from user space (`ReadCopy`, `WriteCopy`, or `ReadFault`,
`WriteFault`). `ReadZero` is the early return for `count == 0`, after which `sem`
stays taken. `OpenInterrupted`, `ReleaseInterrupted` and `TransferInterrupted` are
the `-ERESTARTSYS` returns. An item is the producer that wrote it. The branches that
sleep on the counting semaphores are in the model (`read_wait`, `write_wait`), and
`NobodySleeps`, a part of `MutexKept`, says that they cannot be reached.

### IDManager

One action per branch of `getID`, `getLowID` and `returnID`. `held` is the side of the
callers: they return only what they hold. `nextLowID` and `reservedIDs` are called from nowhere
and are left out.

### Schedulers and SimKernel

`Schedulers` holds the state of a scheduler and one operator for each method of
`cScheduler`; `policy` says which of the four is linked. `ready` is a sequence per level: FCFS,
round robin and lottery use level 0. The lottery also has the slot of each process in
`readyVector` and the ID manager that gives the slots out (`slot`, `readyID`), for its draw goes
through the vector in order. A priority is a number of tickets and may be 0: if the first process in the
vector has none, the draw fails an assertion (`FirstWithoutTickets`, `LotteryAsserts`); otherwise
any process that has a ticket may win, so the draw is a choice.

`SimKernel` has the main thread (`mainPc`: pick the next process, wait for the clock
and execute, add a process, schedule the device, block in two steps, count processes
in two reads, decide to exit) and the device thread (`devPc`: wait for `DevSigSem`, poll the
devices in order, check the assertions of `unblockProcess`, move the process, log). The
signal handler runs in the device thread (the main thread masks the device signals): `Post`.
Timers: `armed` after `scheduleDevice`, `again` once they have gone off and repeat at
`TIMEOUT_SCALE` times the latency. Registers are left out: what a program does next
is a free choice. `status` records how the system stopped: `exited`, a failed
`assert`, or `undefined` behaviour.

### Processor

The cpu has `PC`, `VC`, `PSW`, the mode and the text; `context` is what `ProcessInfo` holds
of a process that is not on the cpu. A program is a sequence of words, and `PC` counts words
where the code counts characters: the tokenizer's behaviour at trailing blanks and at the end of
the text is kept (`PCBehind`, `Run`). Two oddities of the code are in the model: a last line `E` without
a line end is an abnormal end (`cpu.cpp` 125), and a blank behind the second operand of `C`
ends the program with an exception at its next tick. One action is one tick of `boot()`: swap, run, and the
branch that handles the flags. The scheduler and the devices are free choices here; `SimKernel`
has them. Texts end in a line end or in a line of one letter, since the tokenizer would
otherwise read behind the allocated text; the numbers do not reach the limits of `int`.

### PageTable, FrameAlloc, IoControl, Mmu, PageReplace, Vmm

Project 2 is one thread, but its virtual counter ticks inside almost everything it does, and each tick
may end an input or an output. So the program is cut at its ticks: `owed` counts the ticks the cpu has yet
to let pass before it goes on at `pc`; `pending` holds the I/O requests that have been made but not yet
entered, for `scheduleIO` lets ticks pass first (`RequestTick`) and then enters the request (`Schedule`). The
counter of that loop is never initialised, so any number of ticks may pass there, `MaxReqTicks` at most
in an instance.

* `FrameAlloc`: `returnFrame` adds one to `openFrames` whether or not the bit was set, so `ReturnFrames` takes the
  set of frames and the number of calls.
* `IoControl`: `ioIn` holds, as the code does, differences of times; `due` in an entry is history: the time
  the program wrote to its log for it. `Tick` is the whole of `cIOControl::tick` with the outputs that end, the inputs
  that waited for them, and the inputs that end.
* `Mmu`: entries carry the dirty bit, the reference bit and the time stamp that `syncTLB` writes back.
  A hit also asks the page table for the present bit, since policies and daemon do not tell the TLB.
* `PageReplace`: the three policies differ in who is a victim (`IsVictim`), in what a quantum or
  a fault does to the reference bits (`UpdateTime`), and in which pages the daemon gets (`ClearOrders`: LRU sorts, and an
  order among equals is a choice).
* `Vmm`: `ReadLine` chooses the next line of a trace. `unsaved`, `lost` and `stale` are history.

Three undefined behaviours are choices: `Misjudge` (a second variable `result` hides the first, `vmm_core.cpp`
322, and is read without a value: any fault may be taken for a circular one and be answered by nothing), the
uninitialised loop counter above, and `ResolveUndefined` (`pageIn` has no return statement, and the policy that
meets only pages it cannot take runs off its list).

### FileSystem

Every program of Project 3 is a Unix process that links the kernel and works on `filesys.dat`
alone; what can overtake it is only its own end. `bitmap`, `inode`, `block` are what is in the file.
A step is what the program does up to the point where it looks at the disk again; the writes
it makes go to `pending` in their order and are made one by one (`Flush`; the code uses `write(2)`
without a buffer), and between any two of them `Crash` may drop the program. `mem` is what the process
remembers: the copy of the root's index node, read once; the hints of `allocateBlock` and
`allocateIndexNode`; the copies of the index nodes of the created file and of the opened directory, which
`setSize` and `writeBlock` write back as they are. Names are numbers in the order of `strcmp`; a
directory is counted in entries and a file in blocks; a block holds directory entries or the
path of a symbolic link.

`creat` is `CreatNew`, `CreatTruncates`, `CreatFails`; the insertion of an entry, three times in the
code, is `OpenDir`, `Place`, `PlaceLast`, `InsertFails`; `unlink` is `Unlink`, `Pull` and `Cut` (`changeSize`);
`symlink`, `link`, `mkdir` and `fsck` are cut at their writes in the same way. `mkfs` is `Init`.

A program other than fsck is started only on a file system that is in order (`Consistent`), as a user does
who runs fsck when something went wrong. `harm` names the troubles a program meets in which the code is
known to leave damage, each of them reached in the instance:

* `full`: the write of a directory block, or of a link's path, fails and nobody looks at the result. There is no free block
  (`ENOSPC`), or the directory has all the blocks an index node can have (`EFBIG`; an insertion then drops the last entry);
* `shrink`: a directory loses a block (`freeInodeBlocks`, see Findings);
* `stale`: a process inserts a second entry into the root through its copy of the old index node (`mkdir a b`);
  if the first insertion has given the root a new block, the second one puts another in its place, and for a moment two entries are
  missing; into a root that cannot grow each of the two pushes an entry out. Both need four names, one more than the instance has; the
  proof of `LosesAtMostOne` needs `stale` left out like `shrink`;
* `broken`: `creat` on a symbolic link that leads nowhere writes the link's index node, with its block, as that of the new file, and a second entry of that name;
* `leak`: `symlink` fails at the directory and leaves its index node allocated;
* `file`: `mkdir` on an existing file truncates it and goes on.

`SoundUnlessHarmed` says that there are no others. The undefined `freeBlock(-1)` (a shift by a negative number)
is modelled as having no effect, as on x86. `freeIndexNode`'s step back of the hint is left out: no process
allocates an index node after freeing one. `Kernel::close` frees an index node whose copy has no links:
no copy that is closed has none.

## Runs

| Run | Shows |
|---|---|
| `scull_faults` | two producers and one consumer on two slots, two failing copies, one interrupted wait, zero-byte reads: all safety invariants, each with the failures in the account |
| `scull_fifo` | without failing copies and zero-byte reads the device refines `BoundedFifo`, every call returns, items keep flowing |
| `scull_zero_read` | violation: a read of zero bytes leaves `sem` taken |
| `id_manager` | ids 1..5, the last playing `UINT_MAX`: refinement of `IDPool`, partition |
| `kernel_safety` | two processes, all four schedulers, both devices, one spurious and one lost signal |
| `kernel_liveness` | three processes, round robin, one device, one lost signal |
| `kernel_exit` | violation: the kernel exits while a process is ready |
| `processor` | three processes of three programs under any scheduler: no stray flags, instructions in order, each ends for the reason and with the program counter it would have alone |
| `processor_value` | violation: a process swapped in computes with its program counter |
| `vmm` | two processes with any traces under the three policies, in five settings: blocked = one page on its way, frames, TLB, dirty pages, I/O times; no exception from a daemon that keeps to what FIFO's message asks for |
| `file_system` | all programs, full disk, directory and file of the largest size, stops between any two writes, fsck answered in every way: which blocks are whose at every write, what is left on disk and in the directories, what fsck repairs, and that it loses nothing |
| `fs_shrink` | violation: a directory that gets a block shorter frees a block it goes on using |

### Bounds

* Two slots and two producers are the smallest instance in which an index wraps, two
  writers compete for the last slot, and a reader and a writer work on different slots.
* `MaxFaults = 2` lets a second failure meet the traces of the first (size -2).
  `MaxInterrupts = 1`: an interrupted call leaves only a count behind.
* `MaxID = 5`: three ids can be in the queue while the counter steps back and forward
  over others, with and without the maximum out.
* Two processes let one be unblocked while the other runs, creates, blocks or ends;
  three under round robin let one be overtaken twice. `TopLevel = 1` has both ends of the
  multi-level queues; quanta 1 and 2 differ. Priorities are 0 and 2 for the multi-level queues, 0 and 1 for the lottery.
* `MaxDevSig` bounds `DevSigSem`, which drifts upwards in the code (the `EINTR` test in
  `deviceHandle` never holds). 3 is above the number of signals that can be
  unanswered in the instance.
* `MaxSpurious`, `MaxLost`: each of the two kinds of disturbance once per run. A timer
  that repeats is only bounded while its first signal is unanswered.

* `processor`: one program starts the two others, so that three contexts exist at once, one of them
  blocked; the third one fails in all four ways of `initProcess` and `I`.
* `vmm`: five settings, each a tuple of policy, frames, daemon threshold and amount, TLB entries, I/O time, quantum
  and lines that are not the last. FIFO with three frames and a daemon that takes one page when none is free (TLB 1,
  I/O 2, quantum 1, 3 lines); LRU with the same frames and daemon and I/O 1, so that all frames fill and the daemon is at work
  under a second policy; the approximation with two frames and a daemon that takes both (TLB 2, I/O 3, quantum 2, 2 lines); LRU with two
  frames and no daemon (TLB 1, I/O 3, quantum 2, 2 lines); the approximation with one frame (TLB 2, I/O 3, quantum 1, 2
  lines). With two pages per process, a TLB of one entry replaces valid entries and one of two keeps
  both; with I/O time 3 an input waits behind another for more than a tick, so that differences
  matter. `MCView` leaves out the absolute value of the virtual counter: due times are taken relative to it,
  time stamps by rank. Not reached with two processes: two inputs of the queue that are both ahead of
  the one that is entered.
* `file_system`: a block holds two entries and an index node two blocks, so that with three names the root grows
  and shrinks by a block, gets full with two names and loses an entry at the third; a file of three blocks meets the same limit; four blocks are
  taken by the root, a directory and a file, so that allocations fail at every place; three index nodes run out too.
  (`fs_shrink` has four entries to a block.) One name
  is also that of a directory, one can be inside it; symbolic links lead to names in the root. No bound on the number of programs or stops. `HopThresh` is the
  number of index nodes that can be links; only a loop is longer. The view `ReadLater` leaves
  out contents that no step reads (blocks nothing refers to, free index nodes no entry refers to).

### Fairness

* `scull_fifo`: strong fairness on taking `sem` (a kernel semaphore serves its waiters in
  FIFO order), weak fairness on every step inside a call and on starting one (`Proceeds` has
  `CallRead` and `CallWrite`: producer and consumer loop until they get a signal, and retry when they are turned away with 0). Without
  users that go on calling `ItemsKeepFlowing` would not hold; `EveryCallReturns` only needs the part about steps inside a call.
* `kernel_liveness`: weak fairness of the two threads (the system's scheduler) and of the
  timers that are set (POSIX timers with an interval go off again). No fairness for what programs
  do: they may compute for ever, never end and never ask for I/O.

Nothing is claimed to happen eventually for `Vmm`: with `Misjudge` or `ResolveNone` taken each time, no
fault is ever resolved, and nothing in the code excludes that.

## Proofs

All theorems hold for every value of the constants that satisfies the module's named
assumption. These say of what type a constant is: that names and processes are finite sets, that a block
holds two entries or more, and so on. One of them leaves something out that the code lets happen: that of `Processor`, the texts on
which the tokenizer reads behind the end of its memory.

* `ScullBuffer_proofs`: the inductive invariant `IInv` joins the types, mutual exclusion, the
  counts `inReadCnt`, `inWriteCnt` as functions of the program counters, and the account of
  tokens: the account cannot be kept without knowing that only the owner of `sem` is between
  `trylock` and `up`, and ownership of `sem` cannot be kept without knowing that the sleeping
  branches, which release `sem`, are unreachable. `IndicesAgree` needs arithmetic modulo
  `ScullSize`, which the provers do not have for a variable modulus: `DivisionWithRemainder` and
  `RemainderUnique` give it, and the proof keeps an existential number of turns (`RingTurns`).
  `WindowStaysIntact` adds that the readable slots hold items: a write goes to the slot behind the
  window, and the remainders of different offsets in the window differ. `ImplementsFifo` assumes
  `MaxFaults = 0` and no zero-byte reads, as the run does; the mapping takes the window for the queue, and the
  proof shows that the commit of a call appends to or drops from it and all other steps keep it.
* `IDManager_proofs`: `IInv` is the type invariant together with `Partition`; two lemmas say what
  `Append` and `Tail` do to a queue without repetitions. `ImplementsPool` shows that each action
  is a step of `IDPool`, where `Refuse` needs the partition: the exception means that the queue is
  empty and the counter at its end, hence all ids are held.
* `SimKernel_proofs`: `Invariance` is for all four schedulers, any finite set of processes, any number of lost and
  repeated signals. `IInv` consists of
  `SchedInv` (queue `l` lists exactly the processes that are ready, not being created, and of level `l`; one process on the cpu; the
  count of blocked processes, one behind between the two halves of `setBlocked`; the quantum), of
  `DeviceInv` (the signals of a device not yet answered are at most the tokens of `DevSigSem`, plus one while the device thread's
  round has still to come to it: this, and not `NoWakeupLost`, is inductive), `Requests` (a process asks for I/O exactly if one device lists
  it once or the device thread holds it), `SignalsExact` (without a repeated signal, one signal for one request) and
  `Ending` (the count that `numProcesses` has read stays justified). `FailuresExplained` needs most of these at
  once: that the assertion of `unblockProcess` can fail only for the process in the gap before `setBlocked` is an argument about who is
  blocked, who is counted and whom the device thread holds. Priorities may be 0: the lottery's own assertion is one of the
  failures. `VectorTyped` gives the slots their types.
* `Processor_proofs`: `NoStrayFlags` is not inductive inside a tick; its invariant says which flags may be set at
  which point of the tick and that the saved contexts hold none. `SpecProgramOrder` and `SpecEndsAsAlone` (program counter and reason of the end) compare with
  `Alone`, a recursion over the text that runs it without the kernel. `AloneSteps` shows that this recursion exists and steps
  (by induction over numbers); the invariant `Order` says that the program counter of each process that lives, on the cpu or stored, is
  the one its text has alone after some number of steps and before it is over, and
  `GoesOn` and `EndsForItsReason` that a tick takes it to the next.
* `Vmm_proofs`: the types are those of every variable, queue and request (`TypeOK`). `IInv` adds to them that the running process is the MMU's (`OnCpu`), that the TLB's entries are those of
  the page table for the frame also when the page is not present (`EntriesAgree`), that no process stands in two places
  (`Places`), where the one input of each blocked process is and, if it waits, the one output that releases
  it (`Inputting`), and on which record each unsaved write is (`UnsavedKept`: in the TLB or in the page table, and in the page
  table whenever a policy may look). `BlockedForOnePage`, `TlbAgrees` and `WritesKept` follow for every policy
  and every number of processes, pages, frames and entries.
  `SpecIoAsLogged` rests on an invariant of one queue, `Timely`, that is kept when a context is appended (`TimelyAdded`), when the queue
  is counted down and any number of its contexts end (`TimelyCountedDown`) and when inputs that waited are added one behind the other in the
  middle of a tick (`TimelyReleased`, by induction over their number). Because `CountedDownDelay` shows that the end of a context does not
  move after it has been entered, nothing about the order of times in a queue has to be known but that each is at most `ioTime`
  and that the first is not over. The sum in `EndsAt` is again a number of shares.
* `Vmm_proofs`, frames and daemon: `FInv` is inductive together with that `IInv`. Besides the types it says what the policies' list holds (`Histories`:
  each page once, only pages that are present or whose process has ended, none on its way in; an input that ended has set its
  page up), that every taken frame is pinned or that of a page in the list (`Covered`: without it a policy that finds nothing to take
  could not be told from one with a free frame, and the daemon would not have the pages it was told it has), and
  `FramesSound` with injectivity in place of the cardinality of an image (`FramesMatch`). `CountTypes` has `openFrames` from below only:
  when the daemon returns the frame of a page that was gone, it counts one more than there are. `DaemonAdvice` follows from
  `Covered` by counting: `ClearPages` cannot run short of pages if the settings pass the check.
* `SimKernel_proofs`, `TicketsAreMatched`: the pool is a sum over a set that a fold computes. `NumberFacts` turns it into the
  cardinality of a set of shares (pairs of a process and the number of a ticket), for which adding and removing one process are
  facts about finite sets. `PoolInv` is `TicketsMatch` in this form.
* `FileSystem_proofs`: `FsInv` is inductive through every program, every stop and fsck, on a disk in any state that typed
  writes can leave. A directory or a file may be at the
  limit of an index node: what keeps the copies of index nodes within it is the test of `writeBlock` (`CanPlace`), used at each of the
  places that write (`WritedirTypes`). `WayOK` carries that the index nodes on the way through the root's entries have links to the moment the
  directory is opened (the writes before it are `GentleWrite`). `DirExists` says why `creat` needs no second look:
  between its test and the insertion it writes only an index node that was free, which no path in the root meets (`FindStays`). `findIndexNode` is a recursive function; `FindExists` shows that there is one. The sums of fsck go
  through `NumberFacts`.
  `SpecFsckCounts` (after an fsck that may repair everything, the bitmap and the link counts are those it counted, on any disk) rests
  on `Mending`: at each point of fsck the disk and the writes that wait together have what has been repaired so far, and no write
  of its changes what it counted (`CountsStay`). `SpecFsckRepairs` and `SpecFsckKeepsClean` compare these counts with the references there are
  (`CountsAreReferences`), which fsck does not look for but takes from the root's entries by name: the two agree if the root directory
  is in order (`RootInOrder`: "." and ".." are its first two entries and no others, and no directory is in it twice).
  That it is, whenever fsck gets that far, is `SpecInOrder` with the test for empty names that fsck itself makes (`RootShown`, `NoBlank`).
* `FileSystem_proofs`, `InOrder`: behind the root's first two entries are names of other index nodes, and each directory has one name.
  This is not inductive by itself. A program writes the root's index node from a copy it has had since it started, before or after
  the block with the entry, and may be stopped in between; so every copy (`Copies`: on disk, in memory, in a write that waits) has to show
  such entries with the old contents of the block and with the new (`Shows`, `RootWrites`). No other write may hit a block of a copy: the
  blocks of the copies stay marked (`BitsAhead`), so `allocateBlock` finds others, and what a program frees before it opens its
  directory is of an index node whose blocks are apart (`OthersApart`, by `Sound` when it starts). Until then all that the root names is in use
  (`AllLive`), so a new directory has a number that the root does not show (`FileKept`), and the mode of an index node the root shows changes
  with no write (`ModeKept`). A block that two places of a directory share would show an entry twice; that the first block of each copy is
  apart from the others (`CopiesOK`) is what the entries "." and ".." need. Nothing is claimed of the directories below the root, which
  need not be in order after a stop or without room. `InOrder` names the programs' places one by one, and its proof
  has a lemma for each (`CreatNewInOrder` to `CutInOrder`).
* `FileSystemBlocks_proofs`, `Own`: while a program runs, index node `i` owns the blocks of all its versions (`Owned`): the one on disk and
  those that may still be written over it (`Later`: in a write that waits, as created file, as opened directory, as copy of the root).
  No two index nodes own a block in common (`OwnersApart`), and that is `OneOwner`, the first part of `BlocksKept`, at every single write. It needs that an
  allocation finds a block that nobody owns, hence that owned blocks are marked; but in the middle of a step they are not all marked in the file, and
  some that are will be reset. So `Own` speaks of a set `bm` of blocks that are marked or will be before they are used and that no write that waits
  resets (`BitsAhead`), and holds all versions in it (`Marked`); when no write waits this is `UsedAreMarked`, the second part. Steps come in two
  kinds, for which it is shown once: one index node gets blocks that were free (`Grows`), or one gives up all of its
  blocks (`Frees`). `link`, `creat` and `unlink` need `InOrder`, for what they find through the root is in use. The exceptions are those of the
  properties: `broken` (two versions of two owners), `shrink` (a block is freed and goes on being used), `file` (`Spared`: the file that `mkdir` has truncated).
* `FileSystemBlocks_proofs`, `Kept`, for `SpecLosesAtMostOne`: the entries a program found are looked for at the places where it found them, `D` being
  the directories there were when it started and `base` their index nodes. Entries are moved by rewriting blocks and never by changing these
  index nodes, so it is enough that every version of such a directory, on disk or still to be written, has at least these places (`Covers`), that no other index node, no
  file in memory and no write has to do with their blocks, and that these stay marked (`Spares`). What can change is then what is in the blocks: `Ahead`
  gives their contents when the pending writes are made, and `Held` says that of the entries found at most one is not at a place now, and at most one then.
  That this is kept needs to know which one: in `place` it is the one in the hand (`mem.carry`), in `pull` the one that has just been
  overwritten by its successor (`DirOpen`). `Stage` says that none is missing when the directory is opened, through an index
  node as it was found (`AsFound`); `mkdir` inserts twice, and after its first insertion the root has one link more than its copy of it, which is how `stale` is
  known to be excluded (`RootCounts`, `RootCounted`). `Cut` gives up the last place, which shows the same entry as the one before it or the entry that is removed.
* `NumberFacts` holds what the others share: the least element of a set of numbers, induction over numbers without an
  operator parameter (`InductionOverSet`: over a set of the numbers for which it holds, from the least number outside it), and sums as cardinalities.

Only model-checked: liveness (`EveryCallReturns`, `ItemsKeepFlowing`, `BlockedIsUnblocked`,
`ReadyRuns`; the prover has no `ENABLED`), and of `FileSystem` what a whole program leaves on disk
(`SoundUnlessHarmed`, `KeepsPromise`) and that fsck loses nothing that is reached from the root (`FsckLosesNothing`). The first two say exactly which entries, links and bits there are at its end. `Kept` says which of
the old entries are still there, not that nothing else is, and has nothing on the order of the names and the link counts of files below the root;
an invariant that has it all would say at every write of every program what is still to come.

## Findings

* `scull_zero_read`: `scullBuffer_read` returns at line 210 with `sem` held and an item token gone.
* `kernel_exit`: `numProcesses` reads its counters one by one without the lock; the kernel can
  announce that all processes have finished while one has just become ready.
* `processor_value`: `swapProcesses` passes the program counter to `getSetVC`. Control flow is
  not affected (no instruction tests VC), as `processor` shows; the results in the trace are.
* `fs_shrink`: `freeInodeBlocks` frees the block before the one that is no longer needed, and the
  caller's copy of the index node is written over its change.

Also seen in Project 1, without a run of their own: `reservedIDs` takes a counter at its maximum for a maximum that
is given out, and is then one higher than the "number of IDs which have been reserved" that `id.h` documents; a program may
start another one with priority 0, and when that one is the first in the lottery's vector, `assert(lowerBound != upperBound)`
stops the kernel (`LotteryAsserts`, one of the ends that `FailuresExplained` names).

Also seen in Project 2, without a run of their own: a read after a write clears the
dirty bit of the TLB entry (`mmu.cpp` 182), and a page whose last write was followed by a read is then dropped
unsaved (`WritesKept` speaks of pages whose last access was a write for that reason); `clearPages`
returns the frames of pages that are gone (`stale` in `FramesSound`); the policies keep the pages of processes that
have ended; the messages of LRU and its approximation ask for a threshold "greater than the total frame
cout", where FIFO's asks for less: with the threshold above the number of frames the program can stop with that message, and
`DaemonAdvice` is about FIFO's; `io_control.h` (36-45) says that a process whose page is being written out cannot recover it before that is
done, but neither `scheduleIO` nor its callers look at the outputs for it, and an input of the page may be entered while its output is still in the queue; the comment that `PR_NO_AVAIL` "won't happen unless you have 1-2 global frames" leaves out pinned
frames.

Also seen, and named in the model: the troubles above; fsck counts the contents of a directory twice
that a stopped `rm` has left listed twice; after a stop inside `changeSize`, fsck runs out of descriptors and
repairs nothing (`FsckFails`).

## Not modelled

Logging, the process logger's socket and `top` (P1), configuration and plotting (P2), the start-up check of the settings, the flags of `circularFaultCheck` (their only reader is the
variable without a value), the cache of I/O contexts and the statistics (P2), programs that
only read (P3), `crpt`, which damages a file system on purpose (P3), the contents of files (P3), the hello module (P4): they keep no state that the rest reads.
Of the lottery's draw the numbers of the tickets are abstracted: who can win is kept.

## Plan

1. (done) `ScullBuffer`, `IDManager`, `Schedulers`, `SimKernel`.
2. (done) `Processor`.
3. (done) `FileSystem`.
4. (done) `PageTable`, `FrameAlloc`, `IoControl`, `Mmu`, `PageReplace`, `Vmm`.
5. (done) Proofs: the FIFO refinement and the window of `ScullBuffer`, the other safety
   invariants of `SimKernel`, the flags of `Processor`, wakeups, TLB and
   writes of `Vmm`.
6. (done) Proofs: the ticket pool of `SimKernel`, the order of instructions of `Processor`, the frames and I/O times
   of `Vmm`.
7. (done) Proofs: types of `FileSystem`, the order of the root directory, what fsck counts and repairs, which
   block is whose, and that a program misses one old entry at most.
8. Left: proofs about what a whole program leaves on disk in `FileSystem`; the contents of files.
