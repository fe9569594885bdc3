# LiziOS: TLA+ models, model checking and proofs

LiziOS is a small 32-bit x86 kernel for one CPU: a boot loader, interrupts,
preemptive kernel threads, locks, a ring buffer, a keyboard driver, page
allocation, and the beginnings of user processes. This directory holds TLA+
models of the kernel and its library, TLC configurations that check them on small
instances, and TLAPS proofs, for instances of any size, of every invariant but those of
the string functions and of formatted output.

Paths below are relative to the kernel's own directory (`src/src/` in the maps
of `PROJECT.json`).

## 1. Inventory

| Component | State | Operations | Interacts through | What makes it correct |
|---|---|---|---|---|
| Lists, `kernel/list.c` | prev/next links | push, append, pop, remove, find, traverse, length | shared by ready list and waiters | an element is in one list, once |
| Threads, `kernel/thread.c`, `switch.asm`, `timer.c` | status, ticks, ready and all lists | start, schedule, block, unblock, clock | called by locks, queue, interrupt handlers | one running thread; none lost, duplicated or starved |
| Interrupt control, `kernel/interrupt.c`, `interrupt_handler.asm` | IF, handler table, interrupt controller, frames on the kernel stack | entry, exit, end of interrupt, enable, disable, set status | decides where preemption can happen | what was interrupted continues unchanged; ticks go on |
| Locks, `kernel/sync.c` | value, waiters, holder, count | acquire, release | block and unblock threads | mutual exclusion, nesting, no lost wake-up |
| Console, `kernel/console.c` | a lock | print | one client of a lock | a text is printed as a whole |
| Ring buffer, `kernel/ioqueue.c` | head, tail, buf, two waiting slots, a lock | getchar, putchar | keyboard handler to reading thread | FIFO, no character lost or repeated, sleepers woken |
| Keyboard, `kernel/keyboard.c` | modifier flags, prefix flag | one interrupt per byte | keyboard port to ring buffer | the characters typed; no stuck modifier |
| Bitmaps, `lib/bitmap.c` | bits | get, set, search | used by memory | a search returns free bits of the bitmap |
| Memory, `kernel/memory.c` | two pools, address bitmaps, page tables, two locks | malloc pages, get a page | locks, bitmaps | no page given out twice or lost |
| Processes, `kernel/process.c`, `tss.c` | page directory, TSS, GDT | create, activate, start | scheduler, memory | own address space and stack, the kernel's part shared |
| Text screen, `lib/prints.asm` | VGA memory, cursor | print a character, set cursor | every print | shows the last lines of the text |
| Formatted output, `lib/vsprintf.c`, `printf.c` | one static buffer | printf | every print | each directive printed as asked |
| String functions, `lib/string.c` | none | copy, compare, search, length | used everywhere | write and return what their names promise, nothing else |
| Boot loader, `boot/` | | memory detection, paging, loading the kernel | leaves page tables and GDT for the kernel | every kernel page table exists from the start |

Hard parts: preemption between any two instructions that run with interrupts
enabled; functions that are left in the middle by a thread switch and continued
later with another interrupt flag; state that one interrupt leaves for the next;
searches of a bitmap that are separate from the marking; exhaustion.
`PROJECT.json` lists each hazard with its line under "hazards".

## 2. Modules

Every module has its actions named after the functions of the C code, where the
name can be used; operators named `..._fault_...` are plausible bugs, used by
nothing but the mutation tests listed in `PROJECT.json`.

- **`List`** – lists as sequences. `List_proofs` has the lemmas about them.
- **`LinkedList`** – the prev and next links of `list.c`, with removed elements
  keeping theirs. `AbstractList` is a set of sequences with the same operations, each
  allowed when its caller may make it; `LinkedList` implements it, so that the
  modules that use `List` lose nothing.
- **`Thread`** – the scheduler. One action per function that is called with, or
  makes itself, interrupts disabled. `intr` is the IF flag of the CPU, `eflags`
  the flag each switched-out thread will continue with; `cr3` and `esp0` are the
  page directory and the TSS field `process_activate` sets. `panic` is a failed
  ASSERT: nothing happens after it. `thread_start` requires interrupts to be off,
  as they are in `main`, its only caller.
- **`Sync`** (extends `Thread`) – semaphores and locks. `sema_dowm` and `sema_up`
  run with interrupts off and are atomic, except that `sema_dowm` is left in
  `thread_block` and continued in `acquire_retry`. `lock_acquire` and
  `lock_release` are split at each of their unprotected writes, and the clock may
  preempt between any two. Threads nest locks, create threads, switch interrupts
  off and on, and sleep with locks held.
- **`AbstractLock`** – what a lock promises; `Sync` implements it.
- **`IoQueue`** (extends `Sync`) – the ring buffer with its lock and slots, on the
  real lock and the real scheduler. Characters are numbers given when they are
  put in, so that loss, repetition and reordering are visible.
- **`Keyboard`** – the interrupt handler byte by byte. The environment is a
  keyboard (scan code set 1, external to the repository): keys are pressed, repeat
  and are released, each byte waits at the port. With each byte travels the
  character the typist meant, computed from the keys that were down, independently
  of the driver's flags. A character is an index into `keymap` and a column.
- **`Bitmap`** – the four functions; the search loop is a recursive function that
  counts free bits as the C loop does. `MCBitmap` sets and clears bits in any order
  and asks for every number of bits.
- **`Memory`** (extends `Bitmap`) – the allocator. The locks are `AbstractLock`'s
  (justified by theorem `LocksImplement`). Finding a page, marking it, and entering
  it into a page table are separate actions. Pages are numbers; the physical ones
  are counted from `used_mem`, so an overlap of the pools would show.
- **`Interrupt`** – how threads get on and off the CPU, word by word of their kernel
  stacks: the CPU's frame, the registers the entry pushes, the end of interrupt, the
  frames under `switch_to`, the `thread_stack` of a new thread and the `intr_stack` of a
  new process, with the code's pointer arithmetic (byte counts subtracted from a word
  pointer). A word is a name for its value; everything below `esp` is junk. `due` records
  what each thread was interrupted in, `FrameKept` compares it with what is restored.
  It implements `Thread`, and leaves the two ASSERTs of `schedule` to it: a step that
  broke one would be no step of `Thread`.
- **`Paging`** – page directories and tables as frames of words, from the boot loader's
  `setup_page` on. `memory.c` reaches them through the directory's entry for itself, and
  so does the model: `pte_ptr` and `pde_ptr` are addresses that the modelled MMU
  translates. Which frame is free is left to `Memory`.
- **`Vga`** – what `print_char` computes from a character, the cursor and the screen,
  with 16-bit wrap-around and the limit of the video segment. **`Screen`** prints
  sequences of characters, next to the whole text on a roll of paper. **`Printing`** is
  the same `print_char` split at each access of `printf`'s buffer and of the VGA
  registers, by threads that hold `console_lock`, with the scheduler printing in between.
- **`CString`** – `string.c` on a small memory of signed chars; one call, whose arguments
  keep the C contract, at a time.
- **`Vsprintf`** – `number`, the scanning of directives and the conversions; a text is a
  sequence of characters, a word has `Word` values. `PrintsAsAsked` states per
  directive what must be printed, without the code's counting. A precision given as
  `*` is apart (`PrecisionTaken`).

`MCSync`, `MCIoQueue`, `MCLive`, `MCMemory`, `MCInterrupt`, `MCPaging`, `MCPrinting`,
`MCVsprintf` and `MCCString` give the constants their values for TLC. Some runs explore
several parts, each by itself: a behaviour belongs to one of them (`subject`), and what
only the others use keeps an initial value. `MCSequential` has the six parts
that have no concurrency of their own, `MCIoQueue` the queue and the keyboard driver,
`MCLive` the users of locks and the queue with one reader, each under its own fairness.
The scheduler has no run of its own: in `sync` its actions are all taken by lock users and
sleepers, and `SchedulerImplemented` ties them to `Thread`.

## 3. Runs

| Run | Instance | Distinct states | Checks |
|---|---|---|---|
| `sync` | main, two kernel threads and a process, one lock, nesting 2 | 160 000 | mutual exclusion, holder, waiters, no lost wake-up, exact and ordered ready list, right address space; implements `AbstractLock`, uses the scheduler as specified |
| `live` | main, a kernel thread and a process that use a lock; or the kernel thread as reader of the keyboard's queue, and the process | 15 000 | `WaiterWoken`, `ReadyRuns`, `SleepsOnlyWhenEmpty`, `CharsDelivered` |
| `ioqueue` | two readers, one writing thread, the keyboard, 3 slots; the driver with 24 keys: letters, symbols, keys with one character, all modifiers, F1, keypad slash, Print Screen, Pause; two held | 157 000 | `FifoDelivered`, `SlotSleeps`, `NoPanic`; queue users are proper lock users; `CharsAsTyped`, `NoStuckModifier` |
| `sequential` | two lists of up to three elements; bitmaps of 2 bytes of 4 bits and the bit after; 4 chars of memory; every conversion with every set of flags; 2 processes on directories of 5 entries; a screen of 3 lines of 2, 6 printed | 92 000 | `ListsImplemented`, `FirstFit`, `StringsRight`, `PrintsAsAsked`, `KernelShared`, `UserApart`, `ShowsLastLines` |
| `interrupt` | main, a kernel thread, a process; clock, keyboard, spurious interrupts, three exceptions | 16 000 | `FrameKept`, `ClockTicks`, implements `Thread` |
| `bitmap_bounds` | 2 bytes of 4 bits and the bit after | | **violated**: `FoundInBitmap` |
| `memory` | two kernel threads or two processes; 8 pages each pool | 21 000 | `FramesExclusive`, `NoPageLost`, `UserBelowKernel`, `PanicOnlyWhenFull` |
| `memory_race` | one kernel thread and one process | | **violated**: `FramesExclusive` |
| `gdt` | directories of 5 entries, 1 process | | **violated**: `GdtMapped` |
| `print_race` | two printing threads, 2 lines of 3 | | **violated**: `PrintsItsText` |
| `star_precision` | `%d` and `%s` with a `*` as precision, with and without one as width | | **violated**: `PrecisionTaken` |
| `memchr_miss` | 4 chars of memory | | **violated**: `MissIsNull` |

`sync`, `ioqueue` (for queue and driver), `memory` and `sequential` (for the screen) also check a
type invariant.

**Findings.** `bitmap_request_bits` counts one bit too many: asked for several
bits it may return a range that ends one bit past the bitmap (`lib/bitmap.c:60`).
For processes this is harmless, because the stack page at the end of the address
space is marked before anything else is searched (`UserBelowKernel`, and removing
the mark breaks it). Page tables are taken from the kernel's pool under the user
pool's lock (`kernel/memory.c:170`), so a kernel thread and a process that allocate
at the same time can be given the same physical page. With either kind of caller
alone the run `memory` shows that no page is given out twice.
`tss_init` loads the GDT register with the low address that the loader left at 0xd04
(`kernel/tss.c:73`); a process's page directory maps nothing there, so the first
segment load after the switch, in the `printf` of `page_dir_activate`, cannot read the
GDT. The comment there says that a problem happens at this point. And the scheduler
prints without `console_lock` (`kernel/process.c:53`), so a preempted thread finds
another text in `printf`'s static buffer, another VGA register selected, or another
cursor (`lib/printf.c:4`, `lib/prints.asm:13`).
`vsprintf` takes the argument of a precision given as `*` but does not step over the
`*`, against the comment there (`lib/vsprintf.c:261`); the directive is printed as it
stands and the next one gets its argument. `memchr` has no return statement after its
loop (`lib/string.c:159`), so a search without a match returns an arbitrary pointer.
The kernel has no format string with such a precision and no call of `memchr`.
`PrintsAsAsked` and `StringsRight` leave both out. `StringsRight` also leaves out `strncpy`
with a count of 0, which writes the char before its destination (`lib/string.c:24`), in
the model as in the code; nothing in the repository says what such a call should do, and
there is none.

**Bounds.** A fifth thread adds no new role: in `sync` there is a
runner, a preempted thread, a waiter and one that overtakes. Nesting 2 reaches both
branches of `lock_acquire` and `lock_release`. Three buffer slots are full, empty
and wrapped around. `Backlog` 1 lets a key be pressed while another's byte is
unread, more only delays. Two-held keys are every pair of a modifier and a key, or
of two modifiers; the 24 keys have each of the driver's cases, and the theorems about
the driver are for every key of scan code set 1. In `Memory`, `ByteBits`, `TablePages` and the pool sizes are scaled
down (8, 1024 and about 3840 in the code); allocation goes on until memory is
exhausted, and nothing is ever freed (the code has no free), so this is the whole
behaviour. Time slices are 0 or 1 ticks, which makes preemption possible at every
step and time-slice renewal visible. Pages of `Interrupt` have 176 words: the 108 that
`thread_create` skips, and room below for two nested frames. `Word` 4096 has words with
three hexadecimal digits, a sign bit and a decimal length beyond most precisions;
`BufSize` 20 makes the longest texts fail the assertion on the buffer's length.
Directories of 5 entries have two user tables, two kernel tables and the entry for
the directory itself; a table is filled and the next one used. Symmetry is over kernel
threads of equal priority, list elements and processes, none of which is named anywhere.

**Fairness.** `ThreadFairness`: the timer interrupts for ever and a request stays
pending while IF is clear, so the clock action is strongly fair; every
`intr_disable` in the kernel is followed by the `intr_set_status` that restores the
flag. `SyncFairness` adds that a thread that runs again and again goes on inside the
lock functions, ends its critical sections, and that sleepers are woken; nothing makes
a thread call `lock_acquire`. `IoFairness`: readers read again and again. That a
*particular* waiter gets the lock is not claimed: it can be overtaken for ever,
since `sema_up` does not hand the lock over. `Interrupt`: weak fairness for the
instructions of the entry and the handlers, which run with interrupts disabled, and of
`main`, whose start-up creates finitely many threads; strong fairness for those that an
interrupt can precede, since interrupts do not come faster than instructions; strong fairness for
the acknowledgement of the clock, the request of the highest priority.

**An assumption on time.** `start_process` changes `self_kstack` with interrupts
enabled (`kernel/process.c:22`), and a switch before that line would move the frame it
builds. `prompt` in `Interrupt` states that a new process, which has a full slice of 31
ticks, does not use it up in the few instructions before that line. Without `prompt`
TLC finds `FrameKept` violated; with it the frame is safe against every later
preemption.

## 4. Proofs

All checked by `tlapm` for every value of the constants that satisfies the named
assumptions of the modules, without a bound on threads, locks, nesting, buffer size,
pages, lists or screen size. The assumptions:

- `ThreadAssumption`, `SyncAssumption`: the main thread exists and is not a process,
  priorities fit a byte, `NULL` is none of the objects.
- `MemoryAssumption`: a process's address bitmap has more than one bit, so that its stack
  is not its page 0. `PagingAssumption`: the kernel pages that are allocated fit below
  the directory's own 4M (page counts are cut to 16 bits, so the kernel's pool has at most
  32767 pages, 128M of an address space of 1G).
- `IoAssumption`: the buffer has at least two slots, and characters are numbered modulo
  something larger than it, so that a repeated or lost one shows.
- `VgaAssumption`, `ScreenAssumption`: cursor positions fit 16 bits, and the paper is not
  shorter than the screen.
- `ListAssumption`: there are finitely many list elements, and sentinels are none of them.
- `KeyboardAssumption`: the keys are any of those scan code set 1 can have, one byte, or two
  with the prefix e0, besides Print Screen and Pause. No key has the code 60h, whose
  release would look like the prefix.
- `InterruptAssumption`: a page has room for the deepest stack, which is that of
  `start_process`, interrupted, in a switch: 127 words and four C frames. With the code's
  1024 words a C function may take more than 150 words, far more than the kernel's do.

**Scheduler** (`Sync_proofs`). `SchedulerSafe` proves that `SchedInv` is an invariant;
`SchedulerTypes`, `SchedulerNoPanic`, `SchedulerReady`, `SchedulerOneRunning` and
`SchedulerContext` follow. `SchedInv` strengthens `NoPanic`: the assertions in `schedule`
and `thread_unblock` are about the ready list, so it must hold exactly the ready threads
(`ReadyListed`), which needs exactly one running thread (`OneRunning`), and it is not
empty because the main thread never blocks (`MainRunnable`). `schedule` is treated once
for a preempted and once for a blocking thread; every other action is a frame argument.
`SchedulerOrder` is the action property `ReadyOrderKept`.

**Locks** (`Sync_proofs`). `LocksSafe` proves `SyncInv`, the conjunction of `SchedInv` and
the lock properties. `MutualExclusion` alone is not inductive: `lock_acquire` trusts
`holder` without protection, so `HolderAgrees` and `LockPhase` say where holder and
count stand in each phase of a call; `sema_dowm`'s retest is only safe with
`RetryAtomic`; `thread_unblock`'s assertion needs `WaitersBlocked`. From it:
`LocksExclude`, `LocksHolder`, `LocksWakeup`, `LocksNoPanic`, `LocksTypes`,
`LocksWaiters`, `LocksRetry`, `LocksReady`, `LocksContext`, the action properties
`LocksOwnerWrites` and `LocksOrder`, and two refinements, `LocksImplement` (to
`AbstractLock`) and `SchedulerRefined` (every step of a lock user is a step of `Thread`,
so nobody wakes a thread that does not sleep).

**Ring buffer** (`IoQueue_proofs`). `QueueSafe` proves `IoInv`: `SyncInv`, `FifoDelivered`,
`SlotSleeps`, and `QueuePhase`, which says for each place in `ioq_getchar` and
`ioq_putchar` how the thread stands with the lock and that interrupts are off. The last
makes every test of the buffer and the access after it one step, so `tail` and `head`
enclose exactly the pending characters (`QueueFifo`). A slot names a thread that sleeps
and owns the lock, so at most one is in use and `wakeup` unblocks only a blocked thread
(`QueueSlots`, `QueueNoPanic`). `QueueRefines` shows that queue users are lock users,
which is why `SyncInv` still holds. `QueueReader` needs `OneReader`, the queue as the
keyboard uses it: with two readers one may wait for the lock, get it when the buffer has
a character again, and sleep all the same, because `ioq_wait` does not test again.

**Bitmaps** (`Bitmap_proofs`, `Sequential_proofs`). `RequestFirstFit`: for every bitmap and
count, `bitmap_request_bits` returns the first fit, where a fit may end one bit past the
bitmap. The counting loop is a recursive function. That it exists, and that it counts the
free bits before each position, is shown by taking the least position where it would
not (`LeastNat`). `SearchFirstFit` is the property the run checks.

**Memory** (`Memory_proofs`). `MemorySafe` proves `MemoryInv` for allocators that are
`Apart`: kernel threads do not allocate while processes do. The run `memory_race` shows
that without this the theorems are false. The argument: a call owns its pool's lock
(`CallsLocked`), `CallPhase` says what is set aside and not yet mapped at each place of
the call, a page found is free until it is marked, and every marked page has exactly one
use. It gives `MemoryTypes`, `MemoryExclusive`, `MemoryKept`, `MemoryBelowKernel` (the
stack page is marked before the first search, so the bit past the end is never part of a
range) and `MemoryPanics`.

**Text screen** (`Sequential_proofs`). `ScreenSafe` proves `ScreenInv`: the
cursor is on the screen, the screen shows the paper from line `top` on, and the paper below
is blank (`BlankBelow`), as the line that a scroll brings in must be. From it `ScreenTypes`
and `ScreenShows`.

**Page tables** (`Sequential_proofs`). `PagingSafe` proves `PagingInv`. All directories have
the same entries from `FirstKernel` to the last but one (`SameAbove`), because the loader
makes every kernel page table before the first directory is copied; their tables map low
memory and then the heap without a gap (`LowMapped`, `HeapMapped`); each frame given out
has one use, a heap page, a user table or a user page (`UserMapped`). The MMU's path
through the directory's entry for itself is followed for `pte_ptr` and `pde_ptr`. From it
`PagingShared` and `PagingApart`.

**Lists** (`Sequential_proofs`). `ListsLinked` proves `ListInv`: along every list `next` and
`prev` are inverse, no element is met twice or in two lists. Nothing is said of the
pointers of elements in no list, which are stale. A walk, again a recursive function, is
then the list's sequence (`WalkMeets`, with at most as many steps as there are elements);
an insertion or removal changes one sequence at one place (`InsertChains`,
`UnlinkChains`). `ListsAreSequences` is the refinement to `AbstractList`, which the other
modules rely on when they use lists as sequences.

**Keyboard** (`Keyboard_proofs`). `KeyboardSafe` proves `KeyboardInv`, for every set of keys,
any number of them held, any backlog at the port and any buffer. The driver's five flags are
taken as the set of those that are on; `After` and `Shown` say what one byte makes of the set
and which character it puts into the buffer. What the typist meant was fixed when the key was
pressed, but the flags are those of the byte being read, so nothing can be said about flags
and keys until the port is empty. The invariant therefore says that there is a run of the
driver over the waiting bytes (`Leads`) that shows with each the character meant, and ends
with flags that agree with the keys held (`Settled`). A key that is pressed, repeated or
released prolongs the run at its end, an interrupt takes off its first step. `KeyboardTypes`,
`KeyboardModifiers` and the action property `KeyboardChars` follow. `Settled` has an
equivalence for shift and only an implication for ctrl and alt: with two ctrl keys
held, the release of one clears the flag.

**Interrupts** (`Interrupt_proofs`). `InterruptSafe` proves `InterruptInv`. `FrameKept` speaks of
the moment before `iretd` only; to be inductive, the invariant has to describe every word of
every kernel stack that some later return will need. `Own` describes a context outside the
handlers: its place in the code, its stack pointer, and for a starting process the frame
that `start_process` makes above its own stack. `Handling` describes what the entry, the handler
and the exit have below it on the running thread's stack. A thread in the ready list is
`Fresh`, prepared by `thread_create`, or `Switched`, with a complete frame and the frames of
`schedule` and `switch_to` below (`Parked`). All these words lie above the stack pointer
(`OwnAbove`), while pushing and popping touches what is below (`PushedWords`, `PoppedWords`);
that is the argument for each action. `Listed` makes sure that `schedule` only pops
parked threads. `Dead` is a kernel stopped by an exception, whose handler never returns. The
model's `prompt` (section 3) is used in one place: a process is not switched from before
`start_process` has read `self_kstack`. `FramesKept` follows. `InterruptSchedules` is the
refinement to `Thread`: `thread_create` is `thread_start` or `process_execute`, `main_enables` is
`intr_enable`, the clock's case of `call_handler` is `clock_interrupt_handler`, and every other
step leaves the scheduler's variables alone. So what is proved of `Thread` holds of the
machine with its stacks.

**Only model-checked.**

- Liveness (`WaiterWoken`, `ReadyRuns`, `CharsDelivered`, `ClockTicks`), which needs
  fairness and `ENABLED`.
- `CString` (`StringsRight`) and `Vsprintf` (`PrintsAsAsked`): what loops over the
  characters of a text compute needs induction over data.

## 5. Not modelled

- `thread_start` with interrupts on: a search that is preempted and then follows an
  element into another list. Its only caller, `main`, has them off.
- What pages contain besides page tables (`Memory` and `Paging` do not share their
  frames), and `get_a_page` for the kernel's pool, which has no caller.
- `bitmap_set_bit` is one step; the bitmap of kernel pages is the only one changed
  without its lock, and there the violation is already found.
- The effect of the unmapped GDT (run `gdt`) on everything after it: `Interrupt`, `Thread`
  and `Memory` describe processes as they would run with the GDT's high address loaded.
- The bits of segment and gate descriptors; a user program's own stack and memory
  accesses; the translation caches of the CPU, which the kernel flushes by loading cr3.
- The boot loader before paging: memory detection, reading the disk, the mode switch,
  loading the ELF segments. It runs once, alone, on BIOS and port I/O. `Paging` assumes
  as `setup_page` does that the page tables it does not write are zero.
- More than one shift key held at a time.
- The text of panic and exception messages.
- `src/test/`: experiments with assembler and linker, not part of the kernel.

## 6. Plan

Done: every component of the kernel and its library, and the proofs of section 4. Every
invariant, action property and refinement that a passing run checks is a theorem, except
`StringsRight` and `PrintsAsAsked`. Left:

1. `CString`: lemmas about single functions, with the argument by least counterexample
   that worked for bitmaps and lists.
2. `Vsprintf`: that `number` prints the digits of its argument, along the same way.
3. Two shift keys held at the same time in `Keyboard`.
