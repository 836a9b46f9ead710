------------------------------- MODULE Paging -------------------------------
(***************************************************************************)
(* Frames, page tables and the address spaces of tasks:                    *)
(* source/memory_management/paging.cpp and the physical memory manager, as *)
(* CreateTask, the first dispatch of a task and the heaps use them.        *)
(*                                                                         *)
(* Every directory is a copy of the kernel's: CopyDirectory finds the      *)
(* kernel's tables equal to themselves and shares them.  The tables of the *)
(* kernel, of low memory and of the heap region are therefore the same in  *)
(* all directories; a task has one table of its own, that of its stack,    *)
(* which is allocated from its heap and is named by the frame it lies in.  *)
(*                                                                         *)
(* A task is interrupted between finding a free frame and marking it; the  *)
(* first dispatch of another task allocates frames inside the interrupt.   *)
(*                                                                         *)
(* Pages of the heap region are numbered from 0x40000000, and the heap     *)
(* starts at page UserPages, behind its index.  A heap is counted in whole *)
(* pages: what it hands out, up to next, and where it ends (Heap has its   *)
(* blocks).  An operation is disabled when the frames run out.             *)
(***************************************************************************)
EXTENDS Integers, FiniteSets, FiniteSetsExt

CONSTANTS
  Task, Process,   \* all tasks; those that are not threads
  Boot,            \* the context of kernel_main
  FrameCount,      \* the frames of the machine
  KernelPages,     \* the pages InitPaging maps for the kernel
  LowPages,        \* the pages of low memory it maps to themselves
  UserPages,       \* the pages of the heap region CreateTask maps
  InitialPages,    \* the pages of it once a heap is initialised, heap_end's too
  MaxPages,        \* bound on the pages of the heap region
  MinPages,        \* HEAP_MIN_SIZE
  StackPages       \* the pages of a stack

ASSUME PagingAssumption ==
  /\ Process \subseteq Task /\ Boot \notin Task
  /\ {FrameCount, KernelPages, LowPages, MinPages, StackPages} \subseteq Nat
  /\ UserPages \in Nat \ {0} /\ InitialPages \in Nat /\ MaxPages \in Nat
  /\ MinPages >= 2
  /\ LowPages <= KernelPages /\ KernelPages < FrameCount
  /\ UserPages + MinPages < InitialPages /\ InitialPages <= MaxPages

VARIABLES
  bitmap,       \* the frames marked as used
  low, heap,    \* the shared tables of low memory and of the heap region
  table,        \* what every frame holds when it is read as a table
  stack,        \* the table of every task's stack: its frame, and its heap page
  heapOf,       \* the process whose heap a task uses
  next, end,    \* of every heap: the first page not handed out, heap_end
  status, current,
  pending,      \* the frame a task has found and the page it is for
  torn          \* frames that were marked before their finder marked them

spaceVars == <<low, heap, table, stack>>
heapVars == <<next, end>>
taskVars == <<heapOf, status, current>>
vars == <<bitmap, spaceVars, heapVars, taskVars, pending, torn>>

Absent == -1
Frame == 0 .. FrameCount - 1
LowPage == 0 .. LowPages - 1
HeapPage == 0 .. MaxPages - 1
StackPage == 0 .. StackPages - 1
Nothing == [frame |-> Absent, page |-> Absent]

Free == Frame \ bitmap

(* Mutant: the number of the bit is one too high.                          *)
FirstFree_OneTooHigh(free) == Min(free) + 1

(* GetFirstFreeBlock, with a frame left.                                   *)
FirstFree(free) == Min(free)

Below(S, n) == Cardinality({m \in S : m < n})

(* Mutant: the frames are taken in order, but the first one twice.         *)
Allocated_FirstTwice(pages, free) ==
  [p \in pages |-> CHOOSE f \in free : Below(free, f) = Max({0, Below(pages, p) - 1})]

(* AllocateRegion: the first page takes the first free frame, and so on.   *)
Allocated(pages, free) ==
  [p \in pages |-> CHOOSE f \in free : Below(free, f) = Below(pages, p)]

(* Mutant: the last frame of a region is not marked.                       *)
Used_AllButLast(frames) ==
  bitmap \cup {f \in frames : Cardinality(frames) > 1 => f # Max(frames)}

(* AllocateBlock marks the frames it hands out.                            *)
Used(frames) == bitmap \cup frames

(* FreeBlock, for every frame given back.                                  *)
Freed(frames) == bitmap \ frames

(* InitPaging: the kernel's pages have the frames of their own numbers,    *)
(* low memory is mapped to itself, but for page 0: a frame argument of 0   *)
(* asks AllocatePage for any frame.                                        *)
Init ==
  /\ bitmap = 0 .. KernelPages
  /\ low = [p \in LowPage |-> IF p = 0 THEN KernelPages ELSE p]
  /\ heap = [p \in HeapPage |-> Absent]
  /\ table = [f \in Frame |-> [p \in StackPage |-> Absent]]
  /\ stack = [t \in Task |-> Nothing]
  /\ heapOf = [t \in Task |-> Boot]
  /\ next = [t \in Process |-> 0] /\ end = [t \in Process |-> 0]
  /\ status = [t \in Task |-> "Unborn"]
  /\ current = Boot
  /\ pending = [t \in Task |-> Nothing]
  /\ torn = {}

(* The running code is not between finding a frame and marking it.         *)
Settled == current \in Task => pending[current] = Nothing

(* AllocatePage allocates a frame for a page that has none.                *)
Missing(pages) == {p \in pages : heap[p] = Absent}

WithPages(new) == [p \in HeapPage |-> IF p \in DOMAIN new THEN new[p] ELSE heap[p]]

(* CreateTask maps the first pages of the heap region, in the directory    *)
(* that is current; only the first call finds some missing.                *)
CreateTask(t) ==
  /\ status[t] = "Unborn" /\ Settled
  /\ current = Boot => t \in Process
  /\ LET pages == Missing(0 .. UserPages - 1)
         new == Allocated(pages, Free)
     IN  /\ Cardinality(pages) <= Cardinality(Free)
         /\ heap' = WithPages(new)
         /\ bitmap' = Used(Range(new))
  /\ heapOf' = [heapOf EXCEPT ![t] = IF t \in Process THEN t ELSE heapOf[current]]
  /\ status' = [status EXCEPT ![t] = "Created"]
  /\ UNCHANGED <<low, table, stack, heapVars, current, pending, torn>>

(* Mutant: a thread's first dispatch starts its heap like a process does.  *)
Starting_ThreadToo(t) == TRUE

(* The first dispatch starts the heap of a process.                        *)
Starting(t) == t \in Process

(* The first dispatch, in the handler: the heap of a process is mapped as  *)
(* far as it is not, a page of the heap becomes the table of the stack,    *)
(* and the stack is mapped.                                                *)
FirstDispatch(t) ==
  /\ status[t] = "Created"
  /\ LET h == heapOf[t]
         page == IF Starting(t) THEN UserPages ELSE next[h]
         region == IF Starting(t) THEN UserPages - 1 .. InitialPages - 1 ELSE {}
         pages == Missing(region \cup {page})
         new == Allocated(pages, Free)
         frames == Allocated(StackPage, Free \ Range(new))
         where == WithPages(new)[page]
     IN  /\ page < MaxPages
         /\ Cardinality(pages) + StackPages <= Cardinality(Free)
         /\ heap' = WithPages(new)
         /\ table' = [table EXCEPT ![where] = frames]
         /\ stack' = [stack EXCEPT ![t] = [frame |-> where, page |-> page]]
         /\ bitmap' = Used(Range(new) \cup Range(frames))
         /\ next' = [next EXCEPT ![h] = page + 1]
         /\ end' = [end EXCEPT ![h] = IF Starting(t) THEN InitialPages - 1 ELSE Max({@, page + 1})]
  /\ status' = [status EXCEPT ![t] = "Ready"]
  /\ current' = t
  /\ UNCHANGED <<low, heapOf, pending, torn>>

Dispatch(t) ==
  /\ status[t] = "Ready" /\ t # current
  /\ current' = t
  /\ UNCHANGED <<bitmap, spaceVars, heapVars, heapOf, status, pending, torn>>

Own == heapOf[current]

(* sys_malloc of a page that lies within the heap, or, after Expand, in a  *)
(* page of the region that has a frame already.                            *)
Malloc ==
  /\ current \in Task /\ Settled
  /\ next[Own] < MaxPages
  /\ next[Own] < end[Own] \/ heap[next[Own]] # Absent
  /\ next' = [next EXCEPT ![Own] = @ + 1]
  /\ end' = [end EXCEPT ![Own] = Max({@, next[Own] + 1})]
  /\ UNCHANGED <<bitmap, spaceVars, taskVars, pending, torn>>

(* sys_malloc expands the heap: AllocatePage finds the page without frame  *)
(* and AllocateBlock finds a free one.                                     *)
Find ==
  /\ current \in Task /\ Settled
  /\ next[Own] < MaxPages /\ next[Own] >= end[Own]
  /\ heap[next[Own]] = Absent
  /\ Free # {}
  /\ pending' = [pending EXCEPT ![current] = [frame |-> FirstFree(Free), page |-> next[Own]]]
  /\ UNCHANGED <<bitmap, spaceVars, heapVars, taskVars, torn>>

(* ... and marks it, and the page gets it.                                 *)
Mark ==
  /\ current \in Task /\ ~ Settled
  /\ LET found == pending[current]
     IN  /\ bitmap' = Used({found.frame})
         /\ torn' = torn \cup ({found.frame} \cap bitmap)
         /\ heap' = [heap EXCEPT ![found.page] = found.frame]
         /\ next' = [next EXCEPT ![Own] = Max({@, found.page + 1})]
         /\ end' = [end EXCEPT ![Own] = Max({@, found.page + 1})]
  /\ pending' = [pending EXCEPT ![current] = Nothing]
  /\ UNCHANGED <<low, table, stack, taskVars>>

(* The heap pages of tables are never given back: what heap h may free     *)
(* starts behind the last of them.                                         *)
Kept(h) ==
  1 + Max({UserPages - 1} \cup
          {stack[t].page : t \in {u \in Task : stack[u] # Nothing /\ heapOf[u] = h}})

(* Contract: one bit of the size where the mask of a page is meant.        *)
NewLength(length) == Max({IF length % 2 = 1 THEN 2 ELSE length, MinPages})

(* sys_free of the last blocks of a heap contracts it, if they reach to    *)
(* heap_end: not when Contract has cut it below them.  FreePage is given   *)
(* the offsets from the start of the heap where it expects addresses: they *)
(* are pages of low memory, which lose their mapping and their frames.     *)
Contract ==
  /\ current \in Task /\ Settled
  /\ next[Own] <= end[Own]
  /\ \E last \in Kept(Own) .. next[Own] - 1 :
       LET length == NewLength(last - UserPages)
           freed == {p \in LowPage : p > length /\ p < end[Own] - UserPages /\ low[p] # Absent}
       IN  /\ next' = [next EXCEPT ![Own] = last]
           /\ end' = [end EXCEPT ![Own] = UserPages + length]
           /\ bitmap' = Freed({low[p] : p \in freed})
           /\ low' = [p \in LowPage |-> IF p \in freed THEN Absent ELSE low[p]]
  /\ UNCHANGED <<heap, table, stack, taskVars, pending, torn>>

Next ==
  \/ \E t \in Task : CreateTask(t) \/ FirstDispatch(t) \/ Dispatch(t)
  \/ Malloc \/ Find \/ Mark \/ Contract

Spec == Init /\ [][Next]_vars

-----------------------------------------------------------------------------
(* Properties.                                                             *)

(* Every frame, page and table is one of the machine's: nothing that       *)
(* AllocateBlock returns lies outside the bitmap.                          *)
TypeOK ==
  /\ bitmap \subseteq Frame
  /\ low \in [LowPage -> Frame \cup {Absent}]
  /\ heap \in [HeapPage -> Frame \cup {Absent}]
  /\ table \in [Frame -> [StackPage -> Frame \cup {Absent}]]
  /\ stack \in [Task -> [frame : Frame, page : HeapPage] \cup {Nothing}]
  /\ heapOf \in [Task -> Process \cup {Boot}]
  /\ next \in [Process -> 0 .. MaxPages] /\ end \in [Process -> 0 .. MaxPages]
  /\ status \in [Task -> {"Unborn", "Created", "Ready"}]
  /\ current \in Task \cup {Boot}
  /\ pending \in [Task -> [frame : Frame, page : HeapPage] \cup {Nothing}]
  /\ torn \subseteq Frame

(* The frames of low memory that FreePage was wrongly told to free.        *)
Strayed == {p \in LowPage : low[p] = Absent}

Tables == {stack[t].frame : t \in {u \in Task : stack[u] # Nothing}}

(* Where a frame is mapped that AllocateBlock has handed out.  The kernel  *)
(* has the frames up to KernelPages, in pages of its own and of low memory.*)
Owners(f) ==
  {<<"heap", p>> : p \in {q \in HeapPage : heap[q] = f}}
    \cup {x \in {"stack"} \X Tables \X StackPage : table[x[2]][x[3]] = f}

(* A frame is mapped in one place only, whatever tasks are interrupted     *)
(* between finding a frame and marking it.  The exceptions: two tasks may  *)
(* share the frame of just such an interruption, and the kernel shares     *)
(* what Contract has wrongly freed.                                        *)
OneOwner ==
  /\ \A f \in Frame \ torn : Cardinality(Owners(f)) <= 1
  /\ \A f \in 0 .. KernelPages : Owners(f) # {} => f \in Strayed

(* A frame that is mapped is marked, so that AllocateBlock does not hand   *)
(* it out again, unless it is the kernel's and Contract has wrongly freed  *)
(* it.                                                                     *)
MappedIsMarked ==
  /\ \A f \in Frame : Owners(f) # {} => f \in bitmap
  /\ \A f \in 0 .. KernelPages : f \in bitmap \cup Strayed

(* The table of a task's stack stays as it is; but the first dispatch of a *)
(* task of another process, whose heap starts in the same pages, may       *)
(* replace it, and any first dispatch if its frame is in two heap pages    *)
(* after an interruption between finding and marking it.                   *)
StackKept ==
  [][\A t \in Task : stack[t] # Nothing /\ stack[t].frame \notin torn =>
       \/ stack'[t] = stack[t] /\ table'[stack[t].frame] = table[stack[t].frame]
       \/ \E u \in Task : FirstDispatch(u) /\ heapOf[u] # heapOf[t]]_vars

=============================================================================
