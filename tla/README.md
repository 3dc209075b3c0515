# A TLA+ verification of the Zarya kernel

The modules here model the kernel under `src/zarya-os/kernel/src` (all paths
below are relative to it). TLC checks them on small instances; TLAPS proves the
safety properties for every value of the constants. `PROJECT.json`
lists the runs, the properties with a mutation that each of them detects, the
correspondence of definitions to source lines, the hazards and the theorems.

Run a check with `tlc -config <run>.cfg <module>`, a proof with
`tlapm <module>.tla`.

## 1. The system

| Component | State | Operations | What makes it correct |
|---|---|---|---|
| Task scheduler, `task/mod.rs` | five ready queues, processes and threads, current thread and process, quantum, statistics, all under the spin lock `SCHEDULER` | timer `tick`, `schedule`, `switch_to_thread`, `add_process`, `create_thread`, `block/unblock/terminate_thread`, `sys_*` | one running thread; queues hold each runnable thread once; priority order; nobody is lost |
| Mutex, `sync/mod.rs` | `locked`, and the interrupt flag saved in each guard | `lock`, `try_lock`, drop | exclusion; a handler never spins on its own processor's thread; interrupts come back on |
| Semaphore, RwLock, Barrier, Condvar, `sync/mod.rs` | one to three atomics each | `wait`, `try_wait`, `signal`; `read`, `write`, `try_*`, drops; `wait`; `wait`, `notify_*` | permits conserved; exclusion; rounds separated and one leader; a notify wakes |
| Spinlock, `sync/mod.rs` | one flag | `lock`, `try_lock`, drop | exclusion |
| Page allocator, `memory/mod.rs` | bitmap, free count, under `PHYS_ALLOCATOR` | `allocate_frame(s)`, `deallocate_frame` | exact count; first fit; no frame given out twice |
| Virtual memory manager, `memory/mod.rs` | page table, list of areas | `map`, `unmap`, `allocate_heap`, `allocate_stack`, `create_process_page_table`, `find_vma`, `check_access` | areas and page table agree; a frame has one use |
| Keyboard, `drivers/keyboard.rs` | ring of scan codes, two indices, modifier flags | interrupt handler, `read_event`, `has_data`, `read_char` | keys come out once, in order, with the right character |
| Mouse, `drivers/mouse.rs` | position, buttons | interrupt handler, getters, `reset_position` | the position is the sum of the motions |
| VFS, `fs/mod.rs` | descriptor table, `NEXT_FD`, mounts | `open`, `close`, `read`, `write`, `readdir`, `mount`, `unmount` | a descriptor names one open file; modes respected |
| Network, `net/mod.rs` | socket table, interfaces | socket calls, packet dispatch | a packet reaches the right socket |
| System call table, `syscall/mod.rs` | table of 256 entries | `register`, `dispatch`, `syscall_handler` | both ways from number to function agree |
| Serial port, `drivers/serial.rs` | `UART` and its lock | `write_fmt` (`println!`) | lines come out whole |
| Framebuffer, terminal, `drivers/framebuffer.rs` | pixels, cursor | drawing calls, `write_char`, `clear` | what is painted is what was asked for, cut off at the edges |
| Boot, IDT, PIC, `main.rs` | interrupt flag, masks, table, locks shared with handlers | `kernel_main`, handlers, `panic`, idle loop | interrupts are served, acknowledged, and wake the processor |
| IPC | - | - | `main.rs:26` declares it; the source is not in the repository |

Interaction. The timer handler calls `Scheduler::tick`, which shares `SCHEDULER`
with all thread operations. The keyboard handler shares the ring and its spin
lock with readers. The virtual memory manager takes frames, for data and for
page tables, from the allocator. The handlers take the spin locks `SCHEDULER` and
`KEYBOARD_BUFFER`, which threads take with interrupts on; whatever prints takes the
lock of `UART`, exception and panic handlers included. The VFS, the network stack
and the system calls do not call each other: the system calls are stubs. The
primitives of `sync` are used from threads
and handlers on any processor.

Hard behaviour: interleavings of single atomic accesses (`sync`), handlers
against threads (mutex, keyboard), long sequences of scheduler calls whose queue
entries outlive the state they were made for, tables whose entries move or are
never used again (sockets, descriptors), requests that fail half way (memory),
arithmetic at its edges (mouse bytes, `u32` coordinates, packet lengths), and
progress (fair sharing, wake-ups, waiting threads, served interrupts).

The code does not compile as it stands (for example `scan_codes::ALT` does not
exist, and `% 256` is written with `u8` operands). Where the compiler would stop,
the models follow the evident meaning: an Alt key, and indices modulo 256. As 256 is
not a value of `u8`, rustc refuses that line before the sum in it can overflow, and
it can only be meant in a type that holds both; if indices stayed `u8` and wrapped by
themselves, a dev build would panic at slot 255, and a release build do what the model does.

## 2. Modules

* **ThreadLifecycle** is the abstract life of threads: created Ready, one at a
  time Running and only from Ready, Blocked and back, nothing after Terminated.
* **Scheduler** is `task/mod.rs`, one action per operation under the lock, the
  queue vectors as sequences. The code never starts a first thread
  (`run_first_task` only halts); constant `HasDispatcher` adds the step that it is
  documented to take, so that the rest can be examined. Bounds: `MaxThreads`,
  `MaxPids`. `SetPriorities`, `TerminateFrom` and `ProcessShapes` say what callers
  ask for. `MCScheduler` gives values; `SchedulerProofs` has the proofs.
* **IrqMutex** is `Mutex`: threads and handlers on several processors, one
  step per atomic access, interrupt flags and `hlt` explicit.
* **SyncThreads** declares the threads and the width of `usize` for
  **Spinlock**, **Semaphore**, **RwLock**, **SpinBarrier** and **Condvar**, one step
  per atomic access. **SyncPrimitives** explores them and the mutex together. Two
  histories of Condvar serve its properties: `signalled`, the waiters notified
  since they began to wait, and `underflowed`, set when a decrement meets 0 and cleared
  with the counter.
* **PhysAllocator** has the allocator's operations as actions, both the search
  loop as written (`LoopStart`) and what it computes (`StartIdx`).
* **VirtualMemory** makes them part of its own steps, one step per hold of the
  allocator's lock: `allocate_heap` takes frames in one step and maps them one
  by one in `MapNext`, which ends early on an error, as the `?` does. `map_to` and
  `unmap` of the `x86_64` crate are modelled from their use: they take page tables
  from the allocator from the top down and fail on a used entry. Areas without an
  address (`map` records one for every aligned address) are left out of `vmas`: no
  operation can tell. When the kernel's own pages are no longer mapped nothing
  executes any more. An entry has the flags that `map` was called with, PRESENT or
  not: `unmap` finds only present pages, `check_access` looks at the right alone.
  `MCVirtualMemory` gives values.
* **FileTable** is what the VFS promises: a descriptor names one file from open
  to close and nothing ever after. **Vfs** is `fs/mod.rs`: `open` takes a number from
  `NEXT_FD` and stores the file in two steps, the rest is one hold of the lock. The
  history `asked` keeps the path and the mode that each number was opened with.
  `MCVfs` gives values.
* **SocketTable** is what the socket calls promise. **Net** is `net/mod.rs`: the
  vector of sockets searched by identifier, and the dispatch of packets, of which a
  length, an ethertype and a protocol are kept.
* **Syscall** is `syscall/mod.rs`: the numbers, the table and the match.
  **KernelServices** puts the three side by side.
* **Kernel** composes SyncPrimitives and KernelServices, `MCKernel` gives values.
* **Keyboard** has one step per interrupt, and one per shared access of a
  reader, on one processor.
* **Mouse** has one step per interrupt and two for `reset_position`. Bytes and
  `i32` have their width as a constant.
* **Framebuffer** draws rectangle by rectangle and one turn of the circle's loop
  at a time; `asked` is the shape in the plane of all integers. Constant `U32` is the
  width of a coordinate, and `build` tells the arithmetic of a release build, which
  wraps, from that of a dev build, which panics.
* **Interrupts** is the processor under `main.rs`: what it executes is a stack of
  boot, idle loop or thread, and handlers. Interrupt flag, PIC (pending, in service,
  masked), table, the spin locks with the stack entry that holds them, serial
  output byte by byte, exceptions and panics. A deliverable interrupt is delivered
  before the next instruction. `ThreadsRun` stands for a `run_first_task` that does
  what it says; without it there is only the idle loop. `Remapped` says whether IRQs
  have the vectors 32 to 47, which is up to the loader, as the kernel never programs
  them. `EnableWindow` says whether an instruction stands between `sti` and `cli`
  (the calls are not inlined); without one no interrupt gets in at all.
* **Devices** puts the four side by side. **Machine** composes Devices and
  VirtualMemory, `MCMachine` gives values.
* The proofs are in **SchedulerProofs**, **IrqMutexProofs**, **SemaphoreProofs**,
  **LockProofs** (Spinlock, RwLock, Condvar), **SpinBarrierProofs**, **MemoryProofs**
  (PhysAllocator, VirtualMemory), **ServiceProofs** (Vfs, Net, Syscall) and
  **DeviceProofs** (Keyboard, Mouse, Framebuffer, Interrupts).

## 3. Runs

| Run | Checks | Bounds, and why they suffice |
|---|---|---|
| `sched_queues` | `SingleRunning`, `QueuedOnce`, `QueuedRunnable`, `ReadyIsQueued` | three threads, processes of at most one initial thread, all callers' requests: a queue with two entries besides the current thread shows every order of queue operations |
| `sched_lifecycle` | refinement of `ThreadLifecycle`, `PriorityOrder`, `BlockedYields` | priorities are not changed, queued threads not terminated (see section 6 for the deviations otherwise) |
| `sched_round_robin` | **violated**: `RoundRobin` | two threads of one class |
| `kernel` | Mutex: `MutualExclusion`, `NoSelfDeadlock`, `InterruptsRestored`, `LockProgress` | two processors with a thread and a handler each, two mutexes nested, guards dropped innermost first |
| | Spin lock, semaphore, RwLock: `SpinExclusion`; `PermitsConserved`, `PermitTaken`; `ReadersCounted`, `WriterExclusion`, `NoEntryWhileWriting` | three threads: two that race and one in between; a permit and a signal that adds one; `usize` of four values, more than there are threads |
| | Barrier: `BarrierHolds`, `OneLeader`, `WaitReturns` | three threads and five rounds, so that `generation` wraps while threads are in `wait` |
| | Condvar: `SpuriousOnlyAfterUnderflow`, `ClearedCounterWakes` | three waiters; two notifiers and three notifies, so that both notifiers decrement after the same load, the counter goes below zero and a third notify meets it there |
| | Files and mounts: refinement of `FileTable` (`VfsRefinement`), `AccessAsOpened` | two callers, a table of six (three numbers to give) and eight opens, so that the numbers run out; files opened for reading or for writing, and a directory; three mount points |
| | Network: refinement of `SocketTable` (`NetRefinement`), `OnlyTruncatedHeaderPanics` | three sockets, created and closed in every order; packets of up to 35 bytes, one past both headers |
| | System calls: `TableAgrees` | all 256 numbers and two past the table |
| `rwlock_overlap` | **violated**: `ReaderWriterExclusion` | two threads |
| `rwlock_write` | **violated**: `WriteEndsItsWait` | two threads |
| `condvar_notify_one` | **violated**: `NotifyOneWakes` | two waiters |
| `condvar_spurious` | **violated**: `NoSpuriousReturn` | two waiters, two notifiers, a notify each |
| `files_limit` | **violated**: `RefusedOnlyWhenFull` | one caller, a table of five (two numbers to give) |
| `machine` | Keyboard: `KeysInOrder`, `CharAsTyped` | two readers, a ring of three: full, empty and wrapped |
| | Mouse: `PositionIsSum` | bytes of two bits and positions of three, so that both wrap, motions that fit and one that does not |
| | Screen: `PaintedExactly` | 9 by 7 with shapes inside, across each edge and outside, radii up to 5, text of six characters on cells of which the last row is half visible |
| | Interrupts: `MessagesWhole`, `TimerServed` | lines of two bytes, all three devices, faults at any point of a thread |
| | Memory: `FreeCountExact`, `SearchIsFirstFit`, `FramesExclusive`, `LeakOnlyOnFailure`, `AccessSound` | six frames, eight pages, two levels of two-entry tables: requests of up to three pages exhaust frames and page tables, fragment the bitmap, and run into each other; a device page mapped with PRESENT or without |
| `alloc_panic` | **violated**: `NoPanic` | the memory of `machine` |
| `idle_wakes` | **violated**: `IdleWakes` | the idle loop and the timer |

The eight violated runs are findings, quoted with the line that promises otherwise
in `PROJECT.json`:

* `sched_round_robin`: `schedule` pops the end that `tick` pushes to, so one thread of a
  class starves its peers.
* `rwlock_overlap`: `RwLock::read` checks and increments in two accesses, so a writer
  gets in between.
* `rwlock_write`: the loop of `write` swaps `writer` before it looks at `readers`, and
  nothing takes the swap back when it finds some. From then on it meets its own flag,
  and waits for ever, although every reader and writer has finished.
* `condvar_notify_one`: `notify_one` with two waiters wakes neither.
* `condvar_spurious`: two calls of `notify_one` that both see one waiter take the
  counter below zero, the next `wait` brings it back to 0 and returns unsignalled.
* `files_limit`: `NEXT_FD` only grows, so that an open is refused although files have
  been closed: the limit called the maximum of open files is one of files ever opened.
* `alloc_panic`: `allocate_frames` indexes past the bitmap when only a short run at its
  end is left.
* `idle_wakes`: the idle loop halts with interrupts off and nothing wakes it.

Where a promise is broken, a passing run checks what is left of it:
`WriterExclusion` and `NoEntryWhileWriting` of the lock, `ClearedCounterWakes` and
`SpuriousOnlyAfterUnderflow` of the condition variable, `VfsRefinement` of the
descriptors, `SearchIsFirstFit` of the search.

`kernel` and `machine` explore components that share no state and do not call each
other: a variable chosen in the initial state (`used` or `service`, `device`) says
which one a behaviour is about, and the others stay as they are.

`CHECK_DEADLOCK FALSE` stands where the system may stop: identifiers of the
bounded model are used up, a dead RwLock or a drained Condvar leaves nobody to
move, a panic or an unmapped kernel ends execution, a handler spins for ever,
descriptors run out. Of the mutex, `LockProgress` says that nobody waits for ever.

Fairness. `Scheduler`: the timer keeps interrupting (the PIC delivers IRQ 0).
`IrqMutex`: each processor goes on executing and takes pending interrupts when
they are enabled; holders release. `Semaphore`, `SpinBarrier`: threads inside a
call keep running (each spins on its own processor or is preempted by the timer),
holders give permits back, and threads come back to the barrier. `RwLock`: threads
inside a call keep running, and guards are dropped, so that in `rwlock_write` nothing
but the code keeps the writer out. `Condvar`: an interrupt, at the latest the timer,
ends a `hlt` with interrupts enabled, and a notify that has begun is finished.
`IrqMutex` supposes that interrupts go on arriving on every processor; the code
programs the PIC only, which serves the boot processor.
`Interrupts`: the processor goes on executing, and the timer keeps raising IRQ 0.

## 4. Theorems

Every safety property of the passing runs is a theorem. The proofs use the
assumptions on the constants, which the modules that declare them name
(`...Constants`, and `NoFileIsNoDescriptor` and `NoSocketIsNoRecord`, by which a
missing entry is not an entry), and no bound of the runs: any number of threads,
pages, sockets, keys or pixels. A theorem has a hypothesis of its own where the
property is false without it; section 6 tells what the code does then.

**Scheduler** (`SchedulerProofs`). `TypeCorrect` is inductive by itself. `SchedInv`
adds: each thread occurs once in the queues (stated over positions), queued threads
are Ready or Terminated, only the current thread runs, threads belong to owned
processes. The parts need each other: a push keeps entries unique only because a
Running or Blocked thread is in no queue, and that only because entries are unique
when one is popped. `PushOnce` and `PopOnce` carry the queue reasoning. Results:
`NoDuplicateEntries`, `QueuesHoldRunnable`, `OneRunningThread`, `EveryThreadOwned`.
`NoLostThread` supposes that processes come with at most one thread.
* `HighestPriorityRuns`: under the same hypothesis and with fixed priorities, the
  processor is always given to a thread of the highest class that has a Ready one. It needs two facts more: every Ready thread is queued (`Queued`), and in
  the queue of its own priority (`InPlace`). `Handover` says what every rescheduling
  tick has in common, whether or not it finds a thread running.
* `SchedulerImplementsLifecycle`: each step of the scheduler is a step or a stutter of
  `ThreadLifecycle`, if no thread is terminated while it is queued. Then queued
  threads are Ready and not Terminated (`OnlyReadyQueued`), so that what is popped may
  run.
* `NothingEverRuns`: without a dispatcher no thread is ever Running.

**Mutex** (`IrqMutexProofs`). `MutexInv` gives `GuardsExclude` in whatever order guards
are dropped; in it, handlers run with interrupts off, find them off in every call
and never turn them on. `NoInterruptLeak` holds in any order, too: a thread whose
interrupts are off has a guard that saved TRUE, or is in a `lock` that did (`FlagOwed`).
With guards dropped innermost first, `FlagFollows` is an invariant: only the outermost
guard of a thread has saved TRUE, and outside handlers the flag is off exactly while
the thread holds a guard or tries for one. It yields `NoHandlerDeadlock`.

**Other primitives** (`LockProofs`, `SemaphoreProofs`, `SpinBarrierProofs`).
* `SpinlockCorrect`, with the flag set exactly while somebody is inside.
* `RwInv` (types, one claim on `writer` at a time, `readers` counts the guards) yields
  `WritersExclude`, `ReaderCountExact`, `NoEntry`, and `DeadAfterContention`: once a
  `write` or `try_write` has met a reader, the lock is never claimed again, which is why
  `rwlock_write` fails.
* `NoReturnUnnotified`: with any number of waiters and notifiers, a `wait` returns
  without a signal only while the counter is off by a decrement that went below zero.
  `CvInv`: unless `underflowed`, the counter lies between the number of waiters that
  nobody has notified and the number of waiters.
* `Conservation`. `SemInv`: permits in `count` plus holders equal those put in; a
  thread at its exchange has seen a positive count.
* `BarrierCorrect`, `LeaderUnique`. `BarrierInv` relates each thread's round to the
  number of completed rounds, `waiting` to the threads that have arrived, and
  `generation` to rounds modulo its width; the thread that resets is the only one
  between its arrival and its increment.

**Memory** (`MemoryProofs`). `VmTypes` keeps requests inside their address ranges and
the bitmap, and contains `CounterCorrect` (`FreeCountExact`).
* `Exclusive`: frames that are mapped, that hold page tables, and that the call
  under way has still to map are disjoint, each page has a frame of its own, and
  all of them are in use. It holds if callers of `map` name frames outside the
  allocator, and yields `FramesNeverShared` (the property has that condition in it) and
  `LeaksOnlyOnFailure` (the theorem has).
* `AccessGrantedIsMapped`: `AccessInv` says that every page of a recorded area is
  mapped with the area's flags, and so is what the call under way has done; `unmap`
  keeps it because it drops every area that contains the page. So a right that
  `check_access` grants is in the page's entry, whatever flags `map` is called with.
* `SearchCorrect`: the loop of `allocate_frames` returns the lowest run that is long
  enough. The loop is a recursive function over the pages. `BoundedInduction`, which is
  about a set and not about a predicate and rests on the lowest number outside it,
  shows that the function exists (`LoopExists`) and that after each page the
  loop is either looking, with the current run as long as `consecutive` says and no
  earlier run long enough, or has found the lowest one.

**Services** (`ServiceProofs`). `ServicesCompose`: a behaviour of `KernelServices` is one of
each part.
* `VfsImplementsTable`, from `FileInv`: a number
  below `NEXT_FD` belongs to one open alone, to a file that was stored or to a caller
  that will store one, so that the store, which is a step of its own, never meets an
  entry in use. The mounts are a sequence in the code and a count for each path in
  `FileTable`; an `unmount` takes one away wherever it stands. `DescriptorsFaithful`
  adds `AskedInv`, that a stored file has the path and the mode its number was asked
  for, so that a read or a write is answered by that mode. `TableRunsOut`, that once
  the numbers are used up no open succeeds, is why `files_limit` fails.
* `NetImplementsSockets`, from `SocketInv`: identifiers are distinct and below the
  counter, so a search finds its socket wherever `Vec::remove` has moved it.
  `PanicsOnlyOnTruncatedHeader` for packets of any length.
* `TableMatchesHandler`, if the table is long enough for the last number: the table
  and the match agree on every number when registration is complete, since the names
  have distinct numbers.

**Devices** (`DeviceProofs`).
* `MouseCorrect`, for every width of bytes and positions: sign extension and wrapping
  addition are inverse to what the device does to a motion that fits.
* `KeyboardRing`, `CharactersFaithful`, for every ring and any readers. `KeyInv`: the
  slots from `read_idx` on are the keys pressed and not read; what no later modifier
  has disturbed still gives the character that was typed, in the queue and in the
  hands of a reader that has loaded Shift and not yet Caps Lock.
* `InterruptsTypeCorrect`, `LinesWhole`, for lines of any length. `IrqInv`: the lock of
  `UART` is held by the one stack entry that sends, and that entry sent the last byte;
  handlers lie on top and run with interrupts off.
* `ShapesAsAsked`: `FbInv` says that every pixel asked for and on the screen is painted
  or pending, that nothing else is, and that `draw_circle` stands at the point of its
  column nearest to the circle with `d` = 2(x+1)^2 + y^2 + (y-1)^2 - 2r^2 (`Lean`). This
  number is odd, grows with both coordinates and is negative where the upper of two
  points is nearer, so that its sign finds the next point and the loop visits the whole
  octant (`CircleGoesOn`).

Model-checked only, as the prover has neither fairness nor ENABLED: the liveness
properties `BlockedYields`, `LockProgress`, `PermitTaken`, `WaitReturns`,
`ClearedCounterWakes` and `TimerServed`, and the counterexamples of the violated runs.

## 5. Abstractions

One processor runs the scheduler and the keyboard, as the kernel starts only one;
`sync` assumes several. Atomics are sequentially consistent. Identifier counters
are bounded instead of wrapping at 2^64. Statistics that no decision depends on are
kept only where the code computes them in `tick`; the runs give them width 1, the
proofs any. Page contents, TLB, register
contexts and stack addresses are not modelled.

Bytes in socket buffers and in lines of output are counted. A mouse packet arrives
whole with one interrupt, as the handler expects. Pixels are named by their
coordinates, which is right if `stride` is the length of a row in bytes, as
`set_pixel` uses it. Callers of the drawing operations stay clear of 2^32: a
rectangle beyond it would come in again at the left edge in a release build. For the
same reason `FramebufferConstants` has the screen below that width, and the text
short of it (`MaxChars`), since the cursor goes on to the right without a new line. At
boot, interrupts are off, so that `kernel_main` counts only as far as it sets up
what handlers need.

## 6. Deviations found on the way

These come beside the findings. Where a constant is named, the runs' value keeps the
deviation out of the passing runs, and changing it shows the deviation.

* A thread terminated while queued is dispatched later (`TerminateFrom` with
  `"Ready"`: `LifecycleRefinement` fails).
* `sys_set_priority` leaves the queue entry in the old class (`SetPriorities` not
  empty: `PriorityOrder` fails).
* A second thread of a process given to `add_process` is never queued
  (`ProcessShapes <- TwoThreadShape`: `ReadyIsQueued` fails).
* Mutex guards dropped in another order than innermost first turn interrupts on
  inside a critical section (`AnyDropOrder = TRUE`: `NoSelfDeadlock` fails).
* `Condvar::wait` never releases the caller's mutex.
* `from_boot_info` numbers frames from 0, whatever region of the memory map is
  usable: frame numbers are right only for memory that is usable from 0 on.
* A failed heap or stack request keeps its frames (states with `failed`); as
  every stack ends at one address, the second `allocate_stack` always fails so.
* `map` of an aligned address records an empty area, so `check_access` denies it. With
  flags that lack PRESENT, `check_access` grants a right on a page that is not there,
  and `unmap` does not find the page again.
* A frame of the allocator that is mapped at two pages is freed by the first `unmap`
  while the second still uses it; `FramesExclusive` therefore assumes that callers
  of `map` name only frames outside the allocator.
* `create_process_page_table` installs an empty root, so that the kernel itself is
  no longer mapped. `unmap` does not flush the TLB.
* A key that arrives while `read_event` holds the buffer's lock stops the processor
  (states with `hung`); `read_event` and `read_char` are called blocking in their
  comments and return at once. The same goes for a tick during any scheduler call,
  and for a fault or panic while `println!` formats its arguments.
* IRQ 12 has no entry: the mouse's handler is at vector 34, which is IRQ 2, and says
  EOI to the first PIC only. A mouse interrupt ends in the double fault handler. The
  PIC is never given its vectors, so that with the firmware's (`Remapped = FALSE`) the
  first timer interrupt already does.
* `0xf8` leaves IRQ 2 open as well (`main.rs:196` says IRQ 0 and 1 only); IRQ 12 needs it.
* The commands of `PS2Mouse::init` go out without the prefix 0xD4, that is to the
  keyboard; a motion beyond an `i8` is read with the wrong sign (`PositionIsSum` says
  for which axes it holds); `get_position` and `reset_position` are not atomic.
* A packet that ends inside the first ten bytes of its IPv4 header panics the kernel.
  No packet reaches a socket, and nothing sends what `send` has queued; `connect` on
  a connected socket keeps the queued bytes for the new peer.
* `sys_write` returns its count, so that a count of `u64::MAX` is the answer for an
  unknown call; the system calls are stubs that reach neither files nor processes.
* A circle that crosses the left or upper edge panics a dev build. The cursor leaves
  the screen on the right without a new line, and the text after it is lost.
* `draw_logo` casts negative floats to `u32`, which gives 0: of the sun only one
  quadrant and two lines are painted.

## 7. Not modelled, and the plan

Not modelled: `draw_logo` (floating point), fonts and colours, the port I/O that
initialises the serial line, keyboard and mouse, register contexts and the assembly
of context switches (the code has none), stack addresses of threads, the fields
that only `sys_getppid` and `sys_get_process_info` report, and IPC, which has no
source. In `fs`, `net` and `syscall`, what only prints or returns a constant.

Worth doing next:

1. Replace the hypothesis of `NoLostThread` by a count of the threads never queued.
2. The theorem, like `ServicesCompose`, that `Kernel` and `Machine` are their parts.
3. Stack addresses: `create_thread` computes them from the number of threads and the
   size of the new stack alone, so that stacks of different sizes may overlap.
