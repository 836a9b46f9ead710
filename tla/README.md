# UnstableKernel: models, checks and proofs

UnstableKernel is a 32 bit x86 kernel: it boots through multiboot, sets up
segments, interrupts, physical memory, paging and a heap, starts a preemptive
scheduler and runs two "usermode" tasks, one of which starts a thread with a
small window system. There is one processor, no lock anywhere, and system calls
are plain function calls with interrupts enabled. What is hard about it is
therefore: what an interrupt may find half done, what is left behind when a task
is switched away in the middle of something, and how the allocator keeps its
headers consistent.

Paths below are relative to `src/source/`.

## Inventory

| Part | State | Operations | Interacts with | What makes it correct |
|---|---|---|---|---|
| Scheduler: `kernel/multitasking/scheduling` | `taskList`, `currentTask`, `previousTask`, `toDeleteTask`, `prevIdx`, every task's `status`, `state`, `cr3` | `AddTask` / `Insert`, `Scheduler_` (timer), `ContextSwitch` | called by the PIT handler inside the interrupt; `Insert` is called by tasks | no mixed-up registers or directories, exited tasks stay exited, nobody starves, nobody is lost |
| Tasks and system calls: `kernel/multitasking/multitasking.cpp`, `syscall.cpp` | `Task` structures | `CreateTask`, `_exit`, `malloc`, `free`, handler registration | scheduler, heap, paging | a task is set up once, before it runs |
| Heap: `memory_management/heap.cpp` | the words of memory, `heapIndex`, `heap_end` | `malloc_`, `free`, `Expand`, `Contract` | one for the kernel, one per process; pages from paging | blocks apart, aligned when asked, left alone while in use |
| Windows: `usermode/graphics/windows` | list of windows, `zindex`, `lastFocusedWindow`, the drag | `CreateWindow`, `FocusWindow`, `ForceSort`, `HandleDragFocusInput` | thread and mouse interrupt share the list | no window is lost, the one on top is the one that is focused, drags begin and end |
| Drawing: `graphics`, `usermode/graphics/native` | back buffer and screen | `DrawAndSwap`, `RenderWindows`, `CopyTo`, `SwapTo` | the graphics thread draws the windows the interrupt moves | the screen shows what a click would hit |
| Input: `kernel/drivers/input`, `usermode/input` | mouse cycle and position, `keymap`, tables of handlers | interrupt handlers, `AddHandle` | call back into the window system inside the interrupt | packets stay in step, every press has its release |
| Physical memory: `kernel/memory_management/physical_memory_manager` | bitmap of frames | `AllocateBlock`, `FreeBlock` | paging | a frame has one owner |
| Paging: `memory_management/paging.cpp` | directories, tables, reference to a heap | `AllocatePage`, `FreePage`, `CopyDirectory`, `SwitchToDirectory` | heap (tables are allocated from it), physical memory, `CreateTask` | stacks are private, kernel memory is the same everywhere |
| Interrupts and PIT: `kernel/memory/interrupt_*`, `kernel/drivers/pit` | the gates, `irq_handles`, handles of the PIT; the 8259s' requests and services | `irq_handler` and its stubs, `Remap`, `AddHandle` | everything | each interrupt reaches its handler, handlers are never nested, the timer never stops |
| Calls of the BIOS: `kernel/bios32`, `kernel/drivers/vesa` | which interrupt table is loaded, `rIDTptr`, the list of modes | `Bios32::Call`, `Restore`, `VESA::Init` | clears and installs the gates again, starts the 8259s anew, with devices running | nothing is interrupted through a table of real mode, no line stays in service, mouse and keyboard go on |
| Boot: `kernel/kernel.cpp` | `kernel_main` | initialisation in order; interrupts are enabled at line 170 | all | the tasks get to run |
| GDT, TSS; PCI, serial; VFS, ext2; multiboot, C helpers | tables, ports | straight-line code | | not modelled, see the end |

The list of hazards, each with the line where it bites and the properties that
watch it, is in `PROJECT.json`.

## The modules

| Module | Models |
|---|---|
| `Scheduler` | the scheduler, task creation and `_exit`, interrupted between any two statements |
| `VirtualCpus` | abstract: every context computes on registers of its own |
| `SchedulerProofs` | theorems about `Scheduler` |
| `MCScheduler` | model values for TLC |
| `Heap` | `malloc_` and `free` over a memory of words |
| `Allocator` | abstract: what `malloc` and `free` promise |
| `HeapProofs` | theorems about `Heap` |
| `Desktop` | windows, the graphics thread, mouse and keyboard interrupts |
| `DesktopProofs` | theorems about `Desktop` |
| `MCDesktop` | instances for TLC |
| `Drawing` | `Desktop` (extended) with the frames its thread draws once the windows are open |
| `DrawingProofs` | theorems about `Drawing` |
| `MCDrawing` | an instance for TLC |
| `Paging` | frames, page tables and address spaces, as `CreateTask`, the first dispatch and the heaps use them |
| `PagingProofs` | theorems about `Paging` |
| `Ranks` | lemmas that `PagingProofs`, `DesktopProofs` and `HeapProofs` use: the rank of an element in a finite order, the extremes of a finite set of integers, counting up |
| `MCPaging` | model values for TLC |
| `Interrupts` | the boot of the kernel with its devices: interrupts from the request to the end of the stub, the set up of the mouse, the calls of the BIOS |
| `InterruptsProofs` | theorems about `Interrupts` |
| `Frames` | the physical memory manager in the words of memory its bitmap shares with the page directory |
| `FramePool` | abstract: what the physical memory manager promises |
| `FramesProofs` | theorems about `Frames` |

### Scheduler

One *context* has the processor: `kernel_main` (`Boot`) and then the task
`currentTask` names. `cpu` is the register file; `pc`, `i` and `item` are where
the context is in `SchedulingList::Insert` and its locals, and `owner` is a
ghost that says whose registers these are. `state[t]` and `taskCr3[t]` are the
fields of the `Task`. Each statement of `Insert` is one action
(`InsertBegin` ... `InsertGrow`), since the timer may interrupt between any two;
`tmp` and `tmp2` are global because the code declares them `static`, so two
creators really share them. `isPriority` is always false, hence the position is
always 0 and the test of `max_size` never refuses: the model, like the code,
lets the list grow past `MAX_TASK_COUNT`. `LastSlot` bounds the memory behind
the list the model keeps, and guards the statements that would leave it.

`Scheduler_` runs with interrupts disabled. It is cut into its prologue
(`TickScan`, `TickIdle`) and one action per iteration of its loop
(`ScanDrop`, `ScanSkip`, `ScanPick`, `ScanEnd`); no other context moves while
`scan` is not `Off`. `ContextSwitch` is part of `ScanPick`. What `CreateTask`
and the first dispatch do to page tables is reduced to `prepared`, the set of
tasks whose stack and heap have been set up.

`VirtualCpus` is the specification a program relies on: registers change only by
one's own steps, a finished context never runs, a new one starts with fresh
registers. `Boot` is given up at the first switch: `kernel_main` has no `Task`,
so a tick between its two calls of `CreateTask` (kernel.cpp:151-152) abandons it
and the second task is never created.

### Heap

A word of the model is a word of memory; header and footer take the three and
two words of `Header` and `Footer`, and every decision is taken from the words
read, right or wrong: `free` follows the footer on its left and the header on
its right. `Insert`, `FindSmallestHole`, `Grow` (with `Expand`), `Cut`,
`MergedLeft`, `MergedRight` and `Contracted` are the parts of `Alloc` and `Free`
in their order. Subtractions wrap as `uint32_t` does. `MAGIC`, page and minimal
sizes are scaled down; the bit mask of `Contract` (0x1000 where 0xFFFFF000 was
meant) is kept as the test of one bit.

Calls that end are one step each: no two tasks of the program are in `malloc_` of
one `Heap` at a time. One call does not end: the first tick after the first task
exists gives `kernel_main` up for ever, also when it is inside the `malloc_` of
its second `CreateTask`, and the kernel's heap is used by everybody afterwards.
`AbandonMalloc` is that caller, stopped in `Expand`, between headers, or between
any two of the stores by which `Remove` and `Insert` move the entries of the
index; `stopped` says where. The words of one header or footer are stored in one
step. `AbandonedMallocLosesWords` says that such a heap has lost words and nothing
else, `MallocKeepsApart` that those who come later are handed blocks apart from each
other. There is one exception, and both properties
name it: a caller stopped while `Remove` moves the entries leaves one of them twice
in the index, and without the exception TLC finds two callers with the same block.

### Desktop

The graphics thread opens its windows (graphics.cpp:157-158) one access at a
time: `CreateWindow`, `AddWindow`, `FocusWindow`, then `SortControl` and
`SortStore`, the reads and the stores of `ForceSort`; `thread` holds its
registers. A register that will not be read again is cleared. `MousePacket` is the
whole interrupt of a packet's third byte: clamping, `HandleDragFocusInput` with
its walk over a list it reorders, the messages to the focused window and the
copy into `prevState`. `Meet` is the body of the walk for one entry, `Walk` the desktop after
each number of entries. `KeyPress` is `KeyboardHandler_` down to
`GKeyboardHandle`. `down[w]` is what window `w` was told: the buttons and keys whose
last message to it said "down". `Told` sends a message to the window that has the
focus when it goes out, and to no other: a key that is pressed in one window and
released after a click on the other stays down in the first, which is told nothing
more. So does the left button when the thread opens a window while it is held; but the
window that lost the focus gets it back by a press only, and knows better then.
`FocusedHears` says what the window with the focus can rely on. `zindex` has 16
bits, so the 99999 of `FocusWindow` is 34463.

### Drawing

`Drawing` extends `Desktop`: its steps are those of the thread that opens the windows
(`OpenWindows`), the mouse interrupt (`Interrupted`) and, once both windows are open, the
calls of `DrawAndSwap` in their order (`DrawFrame`). `pc`, `index` and `window` are where the
thread is in `RenderWindows`; `back` is the back buffer, a layer for each pixel: which call
painted it last, and for which window. Each of `DrawBox`, `DrawBorderBox`, `CopyTo` and
`DrawCursor` takes its coordinates when it is called and is one step, between two of which the
interrupt may raise and move windows and the pointer. Regions are those of the code, edges
included or left out as its loops do: `DrawBox` paints its right and bottom edge, `CopyTo` does
not, the border is painted over them. The screen is written by `SwapTo` only and read by
nobody, so it is no variable: `Swapped` is what it shows after a swap. `disturbed` is a ghost,
true when a window has moved or was raised since the frame began. Keys are left out here: they
change nothing that is drawn.

`FramesAreTrue` compares a frame with `Hovering`, the search by which a click finds its window,
at each pixel; `ScreenSettles` says that what an interrupt did to a frame half drawn is gone
with a later one.

### Paging

`bitmap` is the set of marked frames. `CopyDirectory` compares the tables of the kernel's
directory with themselves and therefore shares all of them (paging.cpp:281-290): the tables of
low memory and of the heap region are one `low` and one `heap` for every task, and
`CopyPageTable` is never called. A task's own table is that of its stack, `stack[t]`, in a frame
of its heap; `table[f]` is what that frame holds. `Find` and `Mark` are the two halves of
`AllocatePage` around `AllocateBlock`, between which the timer may dispatch another task;
`FirstDispatch` allocates inside the interrupt and is one step. Two processes start their heaps
in the same pages, so the first dispatch of the second one finds the heap pages mapped and
clears the very frame that holds the first one's stack table. `Contract` passes `FreePage`
offsets instead of addresses: it unmaps pages of low memory and frees their frames. `torn`
remembers frames marked by somebody else between `Find` and `Mark`: two tasks then use one
frame. What that can do to a stack goes a long way: a process finds a frame for a heap page,
contracts its heap, maps that page and the next one, the latter with the very frame it had
found, and then marks it for the first page; after that page has been freed, two threads take
the tables of their stacks from the two pages, and the second first dispatch clears the table of
the first thread. `StackKept` excepts stacks in such a frame. A heap is counted in whole pages
here (its blocks are in `Heap`), its index is one page; the two tables of a stack are one.

### Interrupts

`kernel_main` goes from `stage` to `stage`: one action for each part that
matters to interrupts, devices or tasks (`SetupEarlyMemory` ... `CreateTask`), and
one for each point inside `Bios32::Call` where the interrupt flag, the loaded table
(`idt`), the gates in `pIDT` (`gates`) or the 8259s change: `LeaveProtected`,
`EnterReal` and `LeaveReal` are the assembly of `Bios32Helper`, `DisableInterrupts`,
`ClearGates`, `Reinstall` and `Resume` what `Call` and `Restore` do after it.
`VESA::Init` makes one call for the list, one for each mode, and one more when a
mode fits; it does not look at what `SetMode` answers.

An interrupt is three steps of a frame in `frames`: `Acknowledge` (the end of
interrupt, which `irq_handler` sends first), the handle (`TimerReturns`,
`TimerSwitches`, `HandleKeyboard`, `HandleMouse`) and `Return`; the devices go on in
between. `TimerSwitches` is the tick at which `Scheduler_` leaves the interrupted
context: its handler never returns, and `kernel_main` is given up (`context`).

The devices are modelled as the code uses them. The PIT ticks at any time. The
keyboard controller has one byte of `output`, which keys, answers to commands and the
mouse share; the mouse sends the three bytes of a packet in order once it reports.
The 8259s latch a request (`irr`) when the line rises and keep what is in service
(`isr`) by priority. Where machines differ, all of it is allowed: whether a request
goes away when its byte is read early, whether a Remap notices a line that is up
already, whether the BIOS acknowledges an interrupt that arrives under the vectors of the
kernel. `unheard` remembers a byte whose request was lost that way. `fate` is
`Astray` once an interrupt went through a table that holds no gate of the kernel; nothing
is said of the machine from there on. The controller is taken to answer before
`Mouse_Wait` gives up its 100000 attempts.

`StaysInStep` starts at states where driver and mouse agree: nothing in the code
brings them into step, and a request left over from `Mouse::Init` makes the driver read
once too often, after which every packet is shifted.

### Frames

`PMM::Init` needs a word of bitmap for 32 frames and asks `malloc_` for as many
*bytes* (physical_memory_manager.cpp:32-34); `PMMBitmap::Clear` clears what was
reserved. The words behind belong to the next who asks, the page directory of
`InitPaging`. `array` holds all the words the bitmap reaches, as sets of bits;
`OwnEntry` are the reserved ones, and `WriteOther` is their other owner writing
any word behind. The program stays with the frames in the reserved words (1 GB is
assumed, a quarter of the words are reserved: 256 MB), where
`MarkedIsHeld` and `OthersKept` hold; from the first frame behind on the two
overwrite each other. `FramePool` is what paging relies on: the lowest frame nobody holds,
which puts the kernel's first pages into the first frames, until the pool is used up.
`AllocateNothing` is the search that finds no free bit and answers -1: `lost`, after which
nothing more happens here.

## What TLC checks

| Run | Shows |
|---|---|
| `scheduler_safety` | types; the inductive invariant `Coherence`; `ContextIntegrity`, `OneRunning`, `PreparedOnce`, `DeletionSafe`; `NoResurrection`; `Scheduler` implements `VirtualCpus`; `NoStarvation`, `ZombiesLeave` |
| `scheduler_idle` | **violated**: a task preempted inside `Insert` can drop out of the list for ever |
| `heap_form` | `MallocKeepsForm`, `FreeKeepsForm`, `KeepsPromises` (steps of `Allocator`); after a caller was given up: `AbandonedMallocLosesWords`, `MallocKeepsApart` |
| `heap_growth` | **violated**: growing extends a free block over blocks in use |
| `heap_contract` | **violated**: the heap is cut below a block in use |
| `heap_footers` | **violated**: the swallowed block's footer is not rewritten |
| `desktop_live` | `ListInOrder`, `FocusedHears`, `PressRaises`, and `WindowsOpen`: the sort ends once the clicks stop |
| `drawing_frames` | `DragKept`, `FramesAreTrue`, and `ScreenSettles`: the screen shows the desktop once the mouse rests |
| `desktop_lost` | **violated**: a click during `ForceSort` loses a window |
| `paging_frames` | `OneOwner`, `MappedIsMarked`, `StackKept`, each with the exceptions the code leaves open |
| `interrupts_boot` | `NoNesting`, `AstrayOnlyAfterBios`, `BytesAreHeard`, `StaysInStep`; `TimerNeverStops`, `TasksRun` |
| `frames_bitmap` | `MarkedIsHeld`, `OthersKept`, `LostOnlyWhenFull`; `Frames` implements `FramePool` |

The five violated properties are each a sentence of a comment in the code; the
findings in `PROJECT.json` quote it and the lines that disagree. A sixth
disagreement needs no run: window.hpp:33 defines `WM_MB_R_DOWN`, which `GMouseHandle`
sends when slot 1 of the state is set (graphics.cpp:98-106), while the driver stores
the right button in slot 2 and never writes slot 1 (mouse.cpp:75-80), so that no
window ever hears of it. `Desktop` models both slots as they are.

### Bounds, and why they are enough

- `scheduler_safety`: four tasks, three creators among them and `Boot`, two that exit, a list of
  three: two insertions can be torn while a third runs, the list outgrows `MAX_TASK_COUNT`, and
  a zombie can be anywhere in it. `NoStarvation` and `ZombiesLeave` speak of lists that are
  `Orderly`: torn insertions can leave the current task twice at the end of the list, and then
  an entry before it does starve, and beyond `MAX_TASK_COUNT` `Get` answers with one entry for
  every index.
- `heap_form`: pages of 16 words, requests of 3, 11 and 20 words: small enough for several
  blocks and large enough to grow the heap, aligned and not; `MaxCalls` (3) bounds the calls of
  `malloc`, and with it merges on both sides, between two free blocks and at the end all happen.
  `CONSTRAINT Apart`: states in which one of the flaws above has made blocks overlap are reached
  and checked as targets of a step but not continued. `Abandoning` lets one caller be given up;
  the violation runs do without it and, `heap_growth` excepted, continue heaps in order only.
  `Sound`, `FootersTrue` and `FreesInside` name the conditions under which a step is required
  to keep the order. Calls outside of them are reached, and no property of this run says
  anything of them; "What is proved" goes through the cases, those without a violation run too.
- `desktop_live`: the two windows the program opens, side by side and sharing an edge, clicked
  below their title, the left button, the right one while the left is held, a key, and memory
  that holds 0 or a value above 34463. The program opens no third window, and no run has one.
- `drawing_frames`: the same two windows, dragged by their titles along a screen of 1 by 3
  pixels with a bar. A window of 1 by 2 has its title, its content and an edge, which reach the
  only column in turn as it is dragged to either side; the two windows can be anywhere from left
  of the screen to its right end, in either order. A wider screen shows nothing that a drag does
  not bring into this column; TLC has also finished 2 by 2 pixels (600000 states).
- `paging_frames`: two processes and a thread (of either), so a first dispatch can fall into an
  allocation, and a stack table be replaced; 14 frames, so that the machine is nearly used up
  and freed frames are taken again; a heap region of seven pages with one page beyond what a
  heap starts with, and two pages where the code has `HEAP_MIN_SIZE`, so that a heap grows,
  contracts, and frees a page of low memory. Each of the exceptions in `OneOwner`,
  `MappedIsMarked` and `StackKept` is needed: without it TLC finds the property violated. When
  no frame is left the operations are disabled, and the run may stop there (`CHECK_DEADLOCK
  FALSE`).
- `interrupts_boot`: `ModeCount` is 1, so VESA makes two or three calls of the BIOS: the first
  finds the tables of the set up, the second those that `Restore` left, and nothing
  distinguishes a later one from it. There is one of each device, as in the machine; keys and
  packets come without bound. No bound cuts the run; once an interrupt went astray everything
  but the devices stops, and these when their requests are all waiting (`CHECK_DEADLOCK FALSE`).
- `frames_bitmap`: four words of two bits, two of them reserved: a frame at either end of a
  word, a word of one's own and of another on either side of the border, and all frames used up.
  A word has two bytes and two bits here. After the write behind the last word the run stops
  (`CHECK_DEADLOCK FALSE`).
- No symmetry is declared: the tasks and the windows differ by their roles.

### Fairness

`Scheduler!FairSpec` assumes weak fairness of the timer and its handler (the PIT interrupts for
ever, and the handler is never interrupted) and strong fairness of the statements of `Insert`: a
context inside `Insert` gets the processor intermittently, and executes the next statement when
it has it. Nothing makes a task create or exit. `Desktop!FairSpec` assumes weak fairness of the
graphics thread, which the scheduler's `NoStarvation` gives to a task that stays in the list; no
click and no key is ever assumed. `DrawingSpec` assumes the same of the thread, for opening and
for drawing; the mouse only has to come to rest in `ScreenSettles`. `WindowsOpen` needs the left
button to come to rest: a user who clicks the right window in each pass makes `ForceSort`
exchange entries for ever.

`Interrupts!FairSpec`: the PIT ticks for ever (weak fairness of `Tick`), handlers run with
interrupts disabled and are never kept from their next step (weak, `Handles`);
`kernel_main` gets on between interrupts (strong, `Boots`); an answer the keyboard
controller owes is delivered although keys come in between (strong, `Answer`), which is what
makes `Mouse::Init` end; and a request that again and again could be served is served (strong,
`Interrupt`), since the flag is set and cleared around it. Nobody has to type or to
move the mouse.

## What is proved

`SchedulerProofs` proves, for every set of tasks, every choice of creators and
exiters and every size of the list, assuming only that `Boot`, the null pointer
and the tasks differ and that the sizes are natural numbers
(`ContextAssumption`, `SizeAssumption`):

| Theorem | States |
|---|---|
| `Invariant` | `IInv` = `TypeOK` and `Coherence` |
| `TypeCorrect`, `FieldsAgree`, `ContextsKeptApart`, `AtMostOneRuns`, `SetUpOnce`, `SafeToDelete` | the invariants of `scheduler_safety` |
| `ZombiesStayDead` | the action property `NoResurrection` |
| `PreemptionIsInvisible` | `Scheduler` implements `VirtualCpus` |

`ContextIntegrity` is not inductive. `Scheduler_` saves the registers in
`previousTask`, so one has to know that it always is `currentTask`
(`OneCurrent`), also after the task marked for deletion was forgotten; that a
dispatched pointer is one `CreateTask` filled in, although torn insertions copy
pointers about (`KnownPointers`); that the status of a task tells whether its
registers are fresh and its stack mapped (`StatusTells`); that the interrupted
task is saved when the search of the handler dispatches another one
(`SavedWhileSearching`); and that a zombie that has the processor only spins
(`ZombieSpins`). These are the parts of `Coherence`. The proof has one lemma for
`CreateTask`, one for `_exit`, one for all statements of `Insert` (whose common
effect is `InsertionEffect`: known pointers move, only the runner's registers
change), and one each for the prologue, the searching and the dispatching
iterations of the handler. For the refinement, a program's step changes the
runner's registers only (`ProgramStep`), the handler's change none of them and
at most the runner.

`InterruptsProofs` proves for every number of modes (`ModeAssumption`):

| Theorem | States |
|---|---|
| `Invariant` | `IInv` = `TypeOK`, `Guarded` and `Counted` |
| `TypeCorrect`, `HandlersAlone`, `OneWindow` | the invariants `TypeOK`, `NoNesting`, `AstrayOnlyAfterBios` |
| `NoByteIsForgotten` | the invariant `BytesAreHeard` |
| `DriverStaysInStep` | the action property `StaysInStep` |

`NoNesting` alone does not survive a step: one has to know that the interrupt flag is
down whenever a handler runs, that the stages `Closed` lists run with the flag down and
outside of handlers, and that everywhere else the kernel's table is loaded, filled and
agrees with the 8259s, the BIOS and the window behind it excepted (`Guarded`). `Counted`
keeps the calls of the BIOS above zero where one is being made, for `TypeOK`. There is one
lemma for each part (`TypesKept`, `GuardsKept`, `CountersKept`), with a step for each action
under it, and a few on the sequences of frames and bytes.

The last two are proved from `IInv`. `BytesAreHeard` needs, besides `IInv`, that the handles of
all open lines have been added (`Handling`) and that the mouse sends nothing before it is told
to and its bytes in their order (`Reports`); `Served` proves the three together. A byte leaves
the controller in the set up or in the handler of its own line, the only one that runs, and every
action that drops a request records the byte in `unheard`.

`FramesProofs` proves, for bitmaps of any length and words of any width (`EntryAssumption`):

| Theorem | States |
|---|---|
| `Invariant` | `IInv` = `TypeOK`, `MarkedIsHeld` and `LostOnlyWhenFull`, inductive as they stand together |
| `TypeCorrect`, `BitmapIsTrue`, `NothingOnlyWhenFull` | the invariants of `frames_bitmap` |
| `DirectoryIsLeftAlone` | the action property `OthersKept` |
| `KeepsPromise` | `Frames` implements `FramePool` |

The argument is arithmetic first: a frame has one place in the bitmap and no two frames
share one (`Places`, from `Division`), the reserved words come before all others, so a frame
in them is lower than any behind, and the lowest unmarked frame exists when any is unmarked
(well-foundedness of the natural numbers). The search finds an own frame as long as one is
free, and by `MarkedIsHeld` that is the lowest nobody holds: what `FramePool` hands out.

`PagingProofs` proves for any tasks, frames and pages that meet `PagingAssumption`: low memory
lies in the kernel's frames, these are fewer than the machine has, a heap starts with more pages
than its index and its shortest length take, and does not start at the bottom of its region.

| Theorem | States |
|---|---|
| `Invariant` | `IInv`, whose parts are below |
| `TypeCorrect`, `FramesHaveOneOwner`, `MappedFramesAreMarked` | the invariants `TypeOK`, `OneOwner`, `MappedIsMarked` |
| `StacksAreKept` | the action property `StackKept` |

`OneOwner` and `MappedIsMarked` need each other, and more: what a task has found and not yet
marked must be a frame `AllocateBlock` may hand out (`FoundAvailable`), what heap and stacks
hold must be marked and not be the kernel's (`HeapMarked`, `TablesMarked`, `KernelMarked`), and
low memory may only lose its mappings (`LowKept`), for a page of low memory tells whether its
frame was wrongly freed. `HeapOnce`, `StackOnce` and `Apart` say by function application what
`OneOwner` says by counting. That a stack's table is replaced by a process of another heap only
rests on `Anchored` and `Tasks`: the page a table was taken from lies below what its heap hands
out next, so a second table in the same heap comes from another page, and so from another frame
unless that was torn. The proof attempt found the behaviour in the section on `Paging` that
needs both exceptions at once; it has 29 steps and four tasks, more than the run has.

`DesktopProofs` proves for any number of windows, any sizes, movements and keys
(`DesktopAssumption`: the windows and positions are such, memory holds 16 bit numbers where
`zindex` will be, `MAX_WINDOWS` is not above the 34463 that is left of 99999, the mouse has two
buttons, which are no keys):

| Theorem | States |
|---|---|
| `Invariant` | `IInv` = `TypeOK`, `ThreadOK`, `Written` and `Numbering` |
| `TypeCorrect` | the invariant `TypeOK` |
| `DragFollows`, `PressesRaise` | the action properties `DragKept`, `PressRaises` |

The registers the thread keeps over an interrupt must still be of use after it: `ThreadOK` says
that indexes point into the list, at a neighbour where one is compared, and that pointers are
windows; `Written` that an entry is a window, whatever order they are in. `PressRaises` needs
the numbers of a list at rest to lie below that of a raised window, and a click may come while
the thread is giving them: `Numbering` says that those given so far are small, and that a window
numbered under a wrong index means the handler has numbered all. About the handler, lemmas say
what one entry of the walk does (`MeetPressed`, `MeetHeld`), what every walk keeps
(`WalkKeeps`), that a window that is held moves by as much as the pointer or is let go, however
often it is listed (`PulledWalk`), and that in a walk that reorders the list, what comes up after
the window on top is that window again or one that the press does not hit (`RaisingWalk`); `ForceSort` puts every
entry where its rank says (`SortedIsByRank`).

The list is proved right while nobody clicks into a sort, and beyond that in two steps.

| Theorem | Assumes | States |
|---|---|---|
| `ListCounts` | `RoomForAll`: no more windows than `MAX_WINDOWS` | at rest the list has as many entries as windows were opened, all of them opened ones |
| `TwoWindowsInOrder` | `TwoAtMost`: besides, two windows at most | the invariant `ListInOrder` |
| `FocusedWindowHears` | `RoomForAll` and `Distinct`: the windows opened are different ones | the property `FocusedHears` |

A press rearranges the entries below `size` and nothing else (`PacketRearranges`), while the
thread may keep pointers it read before: `Counted` says that the entries, and the windows the
thread will store, are windows that were opened, and that the list is one longer than `opened`
between `AddWindow` and the end of its `FocusWindow`. The order of two windows rests on
`InTurn`: in a pass that will not be repeated the pair is in order, or the thread holds in
its registers what it takes to find that it is not; and the numbers it gives them ascend. A
click among the reads before the exchange makes the thread store pointers that are out of date,
which can leave one window twice and lose the other (`desktop_lost`), but one window twice is
in order. A click that falls between the two stores only is repaired by the second.

`FocusedHears` rests on `LeftHeard`: a window that was told the left button is down and does not
have the focus any more is an opened one, and gets the focus back by a press only, which tells
it anew. A window may have the focus before it is opened, by a click that finds it in the list;
then it still has it when the thread opens it.

`DrawingProofs` proves for any sizes of bar, cursor and border (`DrawingAssumption`) and all that
`DesktopAssumption` allows:

| Theorem | States |
|---|---|
| `RunsTheDesktop` | `Drawing` implements `Desktop`, whose theorems therefore hold of it |
| `DesktopTypeCorrect`, `DragFollowsInFrames` | the properties `TypeOK` and `DragKept` of `drawing_frames` |
| `DrawingInvariant` | `DrawingInv` = `IInv` of the desktop, `AtWork`, and `Picture` while not `disturbed` |
| `FramesShowWhatAPressHits` | the action property `FramesAreTrue` |

`Picture` is what the back buffer holds between two calls: every point the topmost of the first
`index` windows of the list, its border included, or the ground (`ShownUpTo`), and the box and
the border of the next one in between. `WindowIsPainted` adds one window, which rests on its
content lying inside of its box and of its border (`ContentIsInside`); `ShownIsScene` says that
the topmost of all windows is what `Hovering` finds. `AtWork` keeps the thread at rest in the
list while it draws, and its index in the list.

`HeapProofs` proves for any pages, heaps, sizes and numbers of calls that meet
`HeapAssumption`: heap and pages are whole pages below the largest word, requests ask for
something. Words have 16 bits.

| Theorem | Assumes | States |
|---|---|---|
| `SpecMallocKeepsForm`, `SpecFreeKeepsForm` | | the action properties `MallocKeepsForm`, `FreeKeepsForm` |
| `SpecMallocKeepsApart`, `SpecAbandonedMallocLosesWords` | | the action properties `MallocKeepsApart`, `AbandonedMallocLosesWords` |
| `SpecKeepsPromises` | | the action property `KeepsPromises` |
| `SoundHeapImplementsAllocator` | every step is a `SoundStep` | `WellFormed`, `BlocksApart` and `EndAboveBlocks` for ever; `Heap` implements `Allocator` |
| `GivenUpHeapStaysApart` | every step is a `SoundCall` | `Apart`, `BlocksApart` and `EndAboveBlocks` for ever |

`SoundStep` lets callers ask for blocks, aligned or not, and free them, as long as `Sound` and
`FreesInside` hold of each call, and nobody is given up. The conditions exclude five things the
code can do. Three of them a run shows to go wrong:

- a free block grows that is not the last of the heap (`heap_growth`, `BlocksApart`);
- `free` makes the heap shorter (`heap_contract`, `EndAboveBlocks`);
- `free` follows a footer that an earlier merge left stale (`heap_footers` shows how footers
  become stale, `FootersPointToTheirHeaders`; `FreeKeepsForm` assumes there are none).

Two are excluded without a run that violates anything, so that here nothing is checked or proved:

- an aligned request finds a hole whose front is too small for a block of its own, or whose rest
  behind the block is: what remains then (heap.cpp:309, 357) has no room for a header and a
  footer, or is below zero and wraps to a huge free block;
- `free` of the last block of the heap looks for the header behind the end (heap.cpp:419), which
  in a heap that was expanded is in a page that is not mapped: the machine halts (`halted`).

The theorems therefore do not say that the heap of the program is in order, but which calls keep
it so. `SoundCall` adds the caller that is given up inside `malloc`; after that nothing may be
freed (`free` relies on headers and footers that may be half written), and after a `Remove`
that was left in the middle nothing more may be asked for. The last two also assume a heap
that starts with room for a header and a footer.

The five action properties speak of one step from a heap in order (or apart), so they need no
invariant; what they need is that whatever `Alloc` and `Free` do to blocks is to replace
neighbours by others between the same two addresses. `Replaces` says so for a region of memory:
the headers outside it are not written, and those inside lie in it. Then blocks that were apart
stay apart (`ReplacedApart`), and blocks that met end to end still do, if those in the region do
(`ReplacedMeet`). The lemmas on `Grow`, on each store of `Cut`, on `MergedLeft`, `MergedRight`
and `Contracted` show that the part is a replacement: one free block by a longer one, by front,
block and rest, two neighbours by one. Arithmetic enters in a few places: no subtraction wraps
(`Offset`, the rest of a block, the footer of the left neighbour), since `Top` lies below the
largest word, a growth is at least what was asked for, a block that fits holds its parts. Of the
index, which is moved entry by entry, what counts is which headers are in it and that none is
twice (`PartlyDropped`, `PartlyInserted`). A caller given up has made some of the stores of `Alloc`:
`Survives` says that all blocks in use are where they were and hold what they held.

What is inductive under `SoundStep` is `WellFormed` itself. For `GivenUpHeapStaysApart` it is
`Survived`: the heap is in order until a caller is given up, and apart from then on.

Only model-checked:

- all liveness (`NoStarvation`, `ZombiesLeave`, `WindowsOpen`, `ScreenSettles`,
  `TimerNeverStops`, `TasksRun`), which with ENABLED is outside the prover's reach;
- `Heap`'s `TypeOK` in general. With aligned requests that are not `Sound`, blocks given back at
  the end of the heap, or a caller given up in `Remove`, blocks may overlap; the words `malloc`
  reads are then any, and the run stops at such states. The theorems have `TypeOK` as a part of
  `WellFormed` and `Apart`, as long as no call leaves these.
- `ListInOrder` for more than two windows: `ListCounts` is what is proved of those.

## Not modelled, and the plan

Not modelled for good: GDT and TSS (written once with constants), the
colours of pixels, which mode VESA chooses and the pages mapped for it, PCI (its table has
no reader) and serial output (the log), VFS and ext2 (not initialised at boot, declarations),
multiboot and the C helpers, `Sleep`, `RemoveHandle`, `RemoveWindow` and `setUnder` (no caller).

What is left, most important behaviour first:

1. `Heap` and `Paging` composed: `Expand` calling back into `malloc_` through
   `AllocatePage`, and a table added after the other directories were copied. Both need
   heaps that outgrow the 4 MB of the table they start in, which the program's do not.
2. Calls of `malloc_` that are interrupted and resumed, for programs with several tasks on
   one heap; the shipped ones have none.
3. `Interrupts` with the handlers of `Scheduler` and `Desktop` in place of its own short ones.
