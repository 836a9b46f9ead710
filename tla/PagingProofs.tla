---------------------------- MODULE PagingProofs ----------------------------
(***************************************************************************)
(* Theorems about Paging, for any number of tasks, frames and pages: a     *)
(* frame that is mapped is marked and has one owner, and stacks keep their *)
(* tables, but for the exceptions that OneOwner, MappedIsMarked and        *)
(* StackKept name.                                                         *)
(***************************************************************************)
EXTENDS Paging, Ranks

-----------------------------------------------------------------------------
(* What AllocateRegion and the helpers return.                             *)

(* Below counts as the order of Ranks does.                                *)
LEMMA BelowIsRank ==
  ASSUME NEW S, IsFiniteSet(S), \A x \in S : x \in Int
  PROVE  /\ \A n \in S : Below(S, n) \in 0 .. Cardinality(S) - 1
         /\ \A m, n \in S : Below(S, m) = Below(S, n) => m = n
         /\ \A k \in 0 .. Cardinality(S) - 1 : \E n \in S : Below(S, n) = k
  <1> DEFINE up == {p \in S \X S : p[1] < p[2]}
  <1>1. \A x, y \in S : <<x, y>> \in up <=> x < y
    OBVIOUS
  <1>2. \A x \in S : x \in Int
    OBVIOUS
  <1>3. \A n \in S : Below(S, n) = Cardinality(Before(up, S, n))
    <2> TAKE n \in S
    <2>1. {m \in S : m < n} = Before(up, S, n)
      BY <1>1 DEF Before
    <2> QED
      BY <2>1 DEF Below
  <1> HIDE DEF up
  <1>4. StrictlyOrders(up, S)
    BY <1>1, <1>2 DEF StrictlyOrders
  <1>5. /\ \A x \in S : Cardinality(Before(up, S, x)) \in 0 .. Cardinality(S) - 1
        /\ \A x, y \in S :
             <<x, y>> \in up => Cardinality(Before(up, S, x)) < Cardinality(Before(up, S, y))
    BY <1>4, RanksDiffer, Zenon
  <1>6. \A k \in 0 .. Cardinality(S) - 1 : \E x \in S : Cardinality(Before(up, S, x)) = k
    BY <1>4, RanksAreTaken
  <1>7. ASSUME NEW m \in S, NEW n \in S, Below(S, m) = Below(S, n) PROVE m = n
    <2>1. ~ (m < n) /\ ~ (n < m)
      <3>1. m < n => Below(S, m) < Below(S, n)
        BY <1>1, <1>3, <1>5
      <3>2. n < m => Below(S, n) < Below(S, m)
        BY <1>1, <1>3, <1>5
      <3>3. Below(S, n) \in Int
        BY <1>3, <1>5
      <3> QED
        BY <1>7, <3>1, <3>2, <3>3
    <2> QED
      BY <1>2, <2>1
  <1>8. \A n \in S : Below(S, n) \in 0 .. Cardinality(S) - 1
    BY <1>3, <1>5, Zenon
  <1>9. \A k \in 0 .. Cardinality(S) - 1 : \E n \in S : Below(S, n) = k
    BY <1>3, <1>6, Zenon
  <1> QED
    BY <1>7, <1>8, <1>9

(* AllocateRegion gives every page a free frame, and no two the same.      *)
LEMMA AllocatedIsFree ==
  ASSUME NEW pages \in SUBSET Int, IsFiniteSet(pages), NEW free \in SUBSET Int, IsFiniteSet(free),
         Cardinality(pages) <= Cardinality(free)
  PROVE  /\ Allocated(pages, free) \in [pages -> free]
         /\ \A p, q \in pages : Allocated(pages, free)[p] = Allocated(pages, free)[q] => p = q
  <1>1. \A p \in pages : Below(pages, p) \in 0 .. Cardinality(pages) - 1
    BY BelowIsRank
  <1>2. \A k \in 0 .. Cardinality(free) - 1 : \E f \in free : Below(free, f) = k
    BY BelowIsRank
  <1>3. Cardinality(pages) \in Nat /\ Cardinality(free) \in Nat
    BY FS_CardinalityType
  <1>4. \A p \in pages : \E f \in free : Below(free, f) = Below(pages, p)
    <2> TAKE p \in pages
    <2> DEFINE k == Below(pages, p)
    <2>1. k \in 0 .. Cardinality(pages) - 1
      BY <1>1
    <2> HIDE DEF k
    <2>2. k \in 0 .. Cardinality(free) - 1
      BY <1>3, <2>1
    <2>3. \E f \in free : Below(free, f) = k
      BY <1>2, <2>2, Zenon
    <2> QED
      BY <2>3 DEF k
  <1>5. \A p \in pages : /\ Allocated(pages, free)[p] \in free
                         /\ Below(free, Allocated(pages, free)[p]) = Below(pages, p)
    BY <1>4, Zenon DEF Allocated
  <1>6. \A p, q \in pages : Below(pages, p) = Below(pages, q) => p = q
    BY BelowIsRank
  <1>7. \A p, q \in pages : Allocated(pages, free)[p] = Allocated(pages, free)[q] => p = q
    BY <1>5, <1>6, Zenon
  <1>8. Allocated(pages, free) = [p \in pages |-> Allocated(pages, free)[p]]
    BY DEF Allocated
  <1> QED
    BY <1>5, <1>7, <1>8, Zenon

(* The greatest of a finite set.                                           *)
LEMMA MaxIsGreatest ==
  ASSUME NEW S \in SUBSET Int, IsFiniteSet(S), S # {}
  PROVE  Max(S) \in S /\ \A y \in S : Max(S) >= y
  BY Extremes DEF Max

(* The greatest of two.                                                    *)
LEMMA MaxOfTwo ==
  ASSUME NEW a \in Int, NEW b \in Int
  PROVE  Max({a, b}) = IF a >= b THEN a ELSE b
  <1>1. {a, b} \in SUBSET Int /\ {a, b} # {}
    OBVIOUS
  <1>2. IsFiniteSet({a, b})
    <2>1. IsFiniteSet({a} \cup {b})
      BY FS_Singleton, FS_AddElement
    <2>2. {a} \cup {b} = {a, b}
      OBVIOUS
    <2> QED
      BY <2>1, <2>2
  <1>3. Max({a, b}) \in {a, b} /\ \A y \in {a, b} : Max({a, b}) >= y
    BY <1>1, <1>2, MaxIsGreatest
  <1> QED
    BY <1>3

(* GetFirstFreeBlock returns a free frame.                                 *)
LEMMA FirstFreeIsFree ==
  ASSUME NEW S \in SUBSET Int, IsFiniteSet(S), S # {}
  PROVE  FirstFree(S) \in S
  BY Extremes DEF FirstFree, Min

-----------------------------------------------------------------------------
(* The inductive invariant.                                                *)

(* Low memory keeps the frames InitPaging maps it to, or loses them.       *)
LowKept == \A p \in LowPage : low[p] \in {Absent, IF p = 0 THEN KernelPages ELSE p}

(* The kernel's frames stay marked, but for those Contract frees.          *)
KernelMarked == \A f \in 0 .. KernelPages : f \in bitmap \cup Strayed

(* AllocateBlock hands out frames that are the kernel's only if they have  *)
(* been freed wrongly.                                                     *)
Available(f) == f \in 0 .. KernelPages => f \in Strayed

Marked(f) == f \in bitmap /\ Available(f)

(* What has been handed out is marked; what has only been found may not be.*)
HeapMarked == \A p \in HeapPage : heap[p] # Absent => Marked(heap[p])
TablesMarked ==
  \A t \in Task : stack[t] # Nothing =>
    /\ Marked(stack[t].frame)
    /\ \A k \in StackPage : LET f == table[stack[t].frame][k] IN f # Absent => Marked(f)
FoundAvailable == \A t \in Task : pending[t] # Nothing => Available(pending[t].frame)

(* A frame outside torn is mapped once: in the heap region, in a stack, or *)
(* in neither.                                                             *)
HeapOnce ==
  \A p, q \in HeapPage : heap[p] = heap[q] /\ heap[p] \in Frame \ torn => p = q
StackOnce ==
  \A v, w \in Tables : \A j, k \in StackPage :
    table[v][j] = table[w][k] /\ table[v][j] \in Frame \ torn => v = w /\ j = k
Apart ==
  \A p \in HeapPage : \A w \in Tables : \A k \in StackPage :
    heap[p] = table[w][k] => heap[p] \in torn \cup {Absent}

(* The frame of a stack's table is in no other heap page than the one it   *)
(* was taken from, and the heap has handed out that one.                   *)
Anchored ==
  \A t \in Task : stack[t] # Nothing =>
    /\ \A p \in HeapPage : heap[p] = stack[t].frame => p = stack[t].page \/ heap[p] \in torn
    /\ heapOf[t] \in Process /\ stack[t].page < next[heapOf[t]]

(* A process has a heap of its own, and a thread that of a process that    *)
(* has run; a task has a stack from its first dispatch on.                 *)
Born(t) ==
  /\ heapOf[t] \in Process
  /\ t \in Process => heapOf[t] = t
  /\ t \notin Process => status[heapOf[t]] = "Ready"
Tasks ==
  /\ \A t \in Task : status[t] # "Unborn" => Born(t)
  /\ \A t \in Task : status[t] # "Ready" => stack[t] = Nothing
  /\ current \in Task => status[current] = "Ready"

IInv ==
  /\ TypeOK
  /\ LowKept /\ KernelMarked
  /\ HeapMarked /\ TablesMarked /\ FoundAvailable
  /\ HeapOnce /\ StackOnce /\ Apart
  /\ Anchored /\ Tasks

-----------------------------------------------------------------------------
(* What the actions share.                                                 *)

(* The bounds, and the sets they make.                                     *)
LEMMA Sizes ==
  /\ FrameCount \in Nat /\ KernelPages \in Nat /\ LowPages \in Nat /\ UserPages \in Nat \ {0}
  /\ InitialPages \in Nat /\ MaxPages \in Nat /\ MinPages \in Nat /\ StackPages \in Nat
  BY PagingAssumption

(* What the proofs count is finite.                                        *)
LEMMA FiniteDomains ==
  /\ IsFiniteSet(Frame) /\ IsFiniteSet(Free) /\ Free \subseteq Frame
  /\ IsFiniteSet(StackPage) /\ Cardinality(StackPage) = StackPages
  /\ \A pages \in SUBSET HeapPage : IsFiniteSet(pages)
  <1>1. IsFiniteSet(Frame) /\ IsFiniteSet(HeapPage) /\ IsFiniteSet(StackPage)
    <2>1. \A n \in Nat : IsFiniteSet(0 .. n - 1)
      BY FS_Interval
    <2> QED
      BY <2>1, Sizes DEF Frame, HeapPage, StackPage
  <1>2. Cardinality(0 .. StackPages - 1) = StackPages
    BY Sizes, FS_Interval
  <1>3. Free \in SUBSET Frame
    BY DEF Free
  <1>4. IsFiniteSet(Free)
    BY <1>1, <1>3, FS_Subset
  <1>5. \A pages \in SUBSET HeapPage : IsFiniteSet(pages)
    BY <1>1, FS_Subset
  <1> QED
    BY <1>1, <1>2, <1>3, <1>4, <1>5 DEF StackPage

(* AllocatePage for some pages: those without a frame get a free one each. *)
Grows(new) ==
  /\ WithPages(new) \in [HeapPage -> Frame \cup {Absent}]
  /\ \A p \in HeapPage : heap[p] # Absent => WithPages(new)[p] = heap[p]
  /\ \A p \in HeapPage : heap[p] = Absent => WithPages(new)[p] \in Free \cup {Absent}
  /\ \A p \in HeapPage : WithPages(new)[p] \in Range(new) \cup {heap[p]}
  /\ \A p, q \in HeapPage :
       WithPages(new)[p] = WithPages(new)[q] /\ WithPages(new)[p] \in Free => p = q
  /\ Range(new) \in SUBSET Free

(* AllocatePage finds a frame for every page.                              *)
LEMMA PagesGetFrames ==
  ASSUME TypeOK, HeapMarked, NEW pages \in SUBSET HeapPage,
         Cardinality(Missing(pages)) <= Cardinality(Free)
  PROVE  LET new == Allocated(Missing(pages), Free)
         IN  /\ Grows(new)
             /\ \A p \in pages : WithPages(new)[p] \in Frame
             /\ Cardinality(Range(new)) <= Cardinality(Missing(pages))
             /\ IsFiniteSet(Range(new))
  <1> DEFINE missing == Missing(pages)
             new == Allocated(missing, Free)
  <1>1. missing \in SUBSET HeapPage /\ (\A p \in missing : heap[p] = Absent)
    BY DEF Missing
  <1>2. IsFiniteSet(missing) /\ missing \in SUBSET Int /\ IsFiniteSet(Free) /\ Free \in SUBSET Int
    BY <1>1, FiniteDomains DEF HeapPage, Frame
  <1>3. Cardinality(missing) <= Cardinality(Free)
    OBVIOUS
  <1>9. \A p \in pages : p \in missing \/ heap[p] # Absent
    BY DEF Missing
  <1> HIDE DEF missing
  <1>4. new \in [missing -> Free] /\ \A p, q \in missing : new[p] = new[q] => p = q
    BY <1>2, <1>3, AllocatedIsFree
  <1> HIDE DEF new
  <1>5. Range(new) \in SUBSET Free /\ \A p \in missing : new[p] \in Range(new)
    BY <1>4 DEF Range
  <1>6. Cardinality(Range(new)) <= Cardinality(missing) /\ IsFiniteSet(Range(new))
    <2>1. new \in Surjection(missing, Range(new))
      BY <1>4 DEF Surjection, Range
    <2> QED
      BY <1>2, <2>1, FS_Surjection
  <1>7. WithPages(new) = [p \in HeapPage |-> IF p \in missing THEN new[p] ELSE heap[p]]
    BY <1>4 DEF WithPages
  <1>8. \A p \in HeapPage : heap[p] \notin Free /\ heap[p] \in Frame \cup {Absent}
    BY DEF HeapMarked, Marked, Free, TypeOK, Absent, Frame
  <1>10. Grows(new)
    <2> DEFINE after == WithPages(new)
    <2>1. \A p \in HeapPage : after[p] = IF p \in missing THEN new[p] ELSE heap[p]
      BY <1>7
    <2>2. after \in [HeapPage -> Frame \cup {Absent}]
      BY <1>4, <1>7, <1>8, FiniteDomains
    <2> HIDE DEF after
    <2>3. \A p, q \in HeapPage : after[p] = after[q] /\ after[p] \in Free => p = q
      BY <2>1, <1>4, <1>8
    <2>4. \A p \in HeapPage : /\ heap[p] # Absent => after[p] = heap[p]
                              /\ heap[p] = Absent => after[p] \in Free \cup {Absent}
                              /\ after[p] \in Range(new) \cup {heap[p]}
      BY <2>1, <1>1, <1>4, <1>5
    <2> QED
      BY <2>2, <2>3, <2>4, <1>5 DEF Grows, after
  <1>11. \A p \in pages : WithPages(new)[p] \in Frame
    BY <1>4, <1>7, <1>8, <1>9, FiniteDomains
  <1> QED
    BY <1>6, <1>10, <1>11 DEF new, missing

(* The stack of a task gets a frame for every page.                        *)
LEMMA StackGetsFrames ==
  ASSUME NEW taken \in SUBSET Free, IsFiniteSet(taken),
         Cardinality(taken) + StackPages <= Cardinality(Free)
  PROVE  LET frames == Allocated(StackPage, Free \ taken)
         IN  /\ frames \in [StackPage -> Free \ taken]
             /\ \A j, k \in StackPage : frames[j] = frames[k] => j = k
  <1> DEFINE left == Free \ taken
  <1>1. /\ Cardinality(Free) \in Nat /\ Cardinality(taken) \in Nat /\ StackPages \in Nat
        /\ Cardinality(Free \cap taken) = Cardinality(taken)
    <2>1. Free \cap taken = taken
      OBVIOUS
    <2> QED
      BY <2>1, FiniteDomains, Sizes, FS_CardinalityType
  <1>2. /\ IsFiniteSet(left)
        /\ Cardinality(left) = Cardinality(Free) - Cardinality(Free \cap taken)
    BY FiniteDomains, FS_Difference
  <1>3. left \in SUBSET Int /\ StackPage \in SUBSET Int
    BY FiniteDomains DEF Frame, StackPage
  <1> HIDE DEF left
  <1>4. Cardinality(StackPage) <= Cardinality(left)
    BY <1>1, <1>2, FiniteDomains
  <1>5. /\ Allocated(StackPage, left) \in [StackPage -> left]
        /\ \A j, k \in StackPage :
             Allocated(StackPage, left)[j] = Allocated(StackPage, left)[k] => j = k
    BY <1>2, <1>3, <1>4, FiniteDomains, AllocatedIsFree
  <1> QED
    BY <1>5 DEF left

(* The running task uses the heap of a process.                            *)
LEMMA OwnIsProcess ==
  ASSUME TypeOK, Tasks, current \in Task
  PROVE  /\ status[current] = "Ready" /\ Own \in Process /\ next[Own] \in 0 .. MaxPages
         /\ end[Own] \in 0 .. MaxPages
  BY DEF TypeOK, Tasks, Born, Own

-----------------------------------------------------------------------------
(* The invariant holds at first, and every action keeps it.                *)

(* When paging starts there is one address space and no task.              *)
LEMMA InitInv == Init => IInv
  <1> SUFFICES ASSUME Init PROVE IInv
    OBVIOUS
  <1>1. \A p \in LowPage : low[p] \in 0 .. KernelPages /\ low[p] # Absent
    BY PagingAssumption, Sizes DEF Init, LowPage, Absent
  <1>2. KernelPages < FrameCount
    BY PagingAssumption
  <1>3. TypeOK
    <2>1. low \in [LowPage -> Frame \cup {Absent}]
      BY <1>1, <1>2, Sizes DEF Init, Frame
    <2>2. bitmap \subseteq Frame
      BY <1>2, Sizes DEF Init, Frame
    <2>3. next \in [Process -> 0 .. MaxPages] /\ end \in [Process -> 0 .. MaxPages]
      BY Sizes DEF Init
    <2> QED
      BY <2>1, <2>2, <2>3 DEF Init, TypeOK
  <1>4. LowKept /\ KernelMarked
    BY DEF Init, LowKept, KernelMarked
  <1>5. Tables = {}
    BY DEF Init, Tables
  <1>6. HeapMarked /\ TablesMarked /\ FoundAvailable /\ Anchored
    BY DEF Init, HeapMarked, TablesMarked, FoundAvailable, Anchored
  <1>7. HeapOnce /\ StackOnce /\ Apart
    BY <1>5 DEF Init, HeapOnce, StackOnce, Apart, Absent, Frame
  <1>8. Tasks
    BY PagingAssumption DEF Init, Tasks
  <1> QED
    BY <1>3, <1>4, <1>6, <1>7, <1>8 DEF IInv

(* Dispatch and Malloc leave all mappings alone.                           *)
LEMMA MapsStay ==
  ASSUME IInv, UNCHANGED <<bitmap, spaceVars, heapOf, status, pending, torn>>
  PROVE  /\ LowKept' /\ KernelMarked' /\ HeapMarked' /\ TablesMarked' /\ FoundAvailable'
         /\ HeapOnce' /\ StackOnce' /\ Apart'
  <1>1. Tables' = Tables /\ Strayed' = Strayed
    BY DEF spaceVars, Tables, Strayed
  <1>2. LowKept' /\ KernelMarked'
    BY <1>1 DEF IInv, spaceVars, LowKept, KernelMarked
  <1>3. HeapMarked' /\ TablesMarked' /\ FoundAvailable'
    BY <1>1 DEF IInv, spaceVars, HeapMarked, TablesMarked, FoundAvailable, Marked, Available
  <1>4. HeapOnce' /\ StackOnce' /\ Apart'
    BY <1>1 DEF IInv, spaceVars, HeapOnce, StackOnce, Apart
  <1> QED
    BY <1>2, <1>3, <1>4

(* A dispatch changes who runs.                                            *)
LEMMA DispatchInv ==
  ASSUME IInv, NEW t \in Task, Dispatch(t)
  PROVE  IInv'
  <1>1. TypeOK'
    BY DEF IInv, Dispatch, TypeOK, spaceVars, heapVars
  <1>2. Anchored' /\ Tasks'
    BY DEF IInv, Dispatch, Anchored, Tasks, Born, spaceVars, heapVars
  <1> QED
    BY <1>1, <1>2, MapsStay DEF Dispatch, IInv

(* What a heap has handed out only grows.                                  *)
LEMMA MallocInv ==
  ASSUME IInv, Malloc
  PROVE  IInv'
  <1> USE DEF Malloc, taskVars, spaceVars
  <1>1. /\ Own \in Process /\ next[Own] \in 0 .. MaxPages - 1 /\ end[Own] \in 0 .. MaxPages
        /\ MaxPages \in Nat
    BY OwnIsProcess, Sizes DEF IInv
  <1>2. Max({end[Own], next[Own] + 1}) \in 0 .. MaxPages
    BY <1>1, MaxOfTwo
  <1>3. TypeOK'
    <2>1. next' \in [Process -> 0 .. MaxPages]
      BY <1>1 DEF IInv, TypeOK
    <2>2. end' \in [Process -> 0 .. MaxPages]
      BY <1>1, <1>2 DEF IInv, TypeOK
    <2> QED
      BY <2>1, <2>2 DEF IInv, TypeOK
  <1>4. Anchored'
    <2>1. \A h \in Process : next[h] \in Int /\ (next'[h] = next[h] \/ next'[h] = next[h] + 1)
      BY <1>1 DEF IInv, TypeOK
    <2>2. \A t \in Task : stack[t] # Nothing => stack[t].page \in Int
      BY DEF IInv, TypeOK, HeapPage
    <2> QED
      BY <2>1, <2>2 DEF IInv, Anchored
  <1>5. Tasks'
    BY DEF IInv, Tasks, Born
  <1> QED
    BY <1>3, <1>4, <1>5, MapsStay DEF IInv

(* A frame that is found is free, and so available.                        *)
LEMMA FindInv ==
  ASSUME IInv, Find
  PROVE  IInv'
  <1> USE DEF Find, taskVars, spaceVars, heapVars
  <1> DEFINE f == FirstFree(Free)
  <1>1. /\ Own \in Process /\ next[Own] \in 0 .. MaxPages - 1 /\ MaxPages \in Nat
    BY OwnIsProcess, Sizes DEF IInv
  <1>2. f \in Free /\ f \in Frame
    <2>1. Free \in SUBSET Int
      BY FiniteDomains DEF Frame
    <2> QED
      BY <2>1, FiniteDomains, FirstFreeIsFree
  <1>3. [frame |-> f, page |-> next[Own]] \in [frame : Frame, page : HeapPage]
    BY <1>1, <1>2 DEF HeapPage
  <1> HIDE DEF f
  <1>4. TypeOK'
    BY <1>3 DEF IInv, TypeOK, f
  <1>5. Tables' = Tables /\ Strayed' = Strayed
    BY DEF Tables, Strayed
  <1>6. LowKept' /\ KernelMarked' /\ HeapMarked' /\ TablesMarked' /\ HeapOnce' /\ StackOnce' /\ Apart'
    BY <1>5 DEF IInv, LowKept, KernelMarked, HeapMarked, TablesMarked, HeapOnce, StackOnce, Apart,
                Marked, Available
  <1>7. FoundAvailable'
    <2>1. Available(f)
      BY <1>2 DEF IInv, KernelMarked, Available, Free
    <2>2. pending \in [Task -> [frame : Frame, page : HeapPage] \cup {Nothing}]
      BY DEF IInv, TypeOK
    <2> QED
      BY <1>5, <2>1, <2>2 DEF IInv, FoundAvailable, Available, f
  <1>8. Anchored' /\ Tasks'
    BY DEF IInv, Anchored, Tasks, Born
  <1> QED
    BY <1>4, <1>6, <1>7, <1>8 DEF IInv

(* A frame that is marked was free, or it is torn.                         *)
LEMMA MarkInv ==
  ASSUME IInv, Mark
  PROVE  IInv'
  <1> USE DEF Mark, taskVars
  <1> DEFINE f == pending[current].frame
             q == pending[current].page
  <1>1. /\ Own \in Process /\ next[Own] \in 0 .. MaxPages /\ end[Own] \in 0 .. MaxPages
        /\ MaxPages \in Nat
    BY OwnIsProcess, Sizes DEF IInv
  <1>2. f \in Frame /\ q \in HeapPage /\ pending[current] # Nothing
    BY DEF IInv, TypeOK, Settled
  <1>3. Available(f)
    BY <1>2 DEF IInv, FoundAvailable
  <1>4. /\ bitmap' = bitmap \cup {f} /\ torn' = torn \cup ({f} \cap bitmap)
        /\ heap' = [heap EXCEPT ![q] = f]
        /\ next' = [next EXCEPT ![Own] = Max({@, q + 1})]
        /\ end' = [end EXCEPT ![Own] = Max({@, q + 1})]
    BY DEF Used
  <1> HIDE DEF f, q
  <1>5. q \in 0 .. MaxPages - 1
    BY <1>2 DEF HeapPage
  <1>6. /\ Max({next[Own], q + 1}) \in 0 .. MaxPages /\ Max({next[Own], q + 1}) >= next[Own]
        /\ Max({end[Own], q + 1}) \in 0 .. MaxPages
    BY <1>1, <1>5, MaxOfTwo
  <1>7. TypeOK'
    <2>1. /\ next' \in [Process -> 0 .. MaxPages]
          /\ end' \in [Process -> 0 .. MaxPages]
      BY <1>1, <1>4, <1>6 DEF IInv, TypeOK
    <2>2. /\ bitmap' \subseteq Frame /\ torn' \subseteq Frame
          /\ heap' \in [HeapPage -> Frame \cup {Absent}]
      BY <1>2, <1>4 DEF IInv, TypeOK
    <2>3. pending' \in [Task -> [frame : Frame, page : HeapPage] \cup {Nothing}]
      BY DEF IInv, TypeOK
    <2> QED
      BY <2>1, <2>2, <2>3 DEF IInv, TypeOK
  <1>8. Tables' = Tables /\ Strayed' = Strayed
    BY DEF Tables, Strayed
  <1>9. \A g \in bitmap : g # f \/ g \in torn'
    BY <1>4
  <1>10. heap \in [HeapPage -> Frame \cup {Absent}] /\ torn \subseteq torn' /\ f # Absent
    BY <1>2, <1>4, Sizes DEF IInv, TypeOK, Frame, Absent
  <1>11. \A p \in HeapPage : heap'[p] = IF p = q THEN f ELSE heap[p]
    BY <1>4, <1>10
  <1>12. \A p \in HeapPage : heap[p] # Absent => heap[p] \in bitmap
    BY DEF IInv, HeapMarked, Marked
  <1>13. \A w \in Tables : w \in bitmap /\ \A k \in StackPage : table[w][k] \in bitmap \cup {Absent}
    BY DEF IInv, TablesMarked, Tables, Marked
  <1>14. LowKept' /\ KernelMarked' /\ FoundAvailable'
    <2>1. pending \in [Task -> [frame : Frame, page : HeapPage] \cup {Nothing}]
      BY DEF IInv, TypeOK
    <2> QED
      BY <1>4, <1>8, <2>1 DEF IInv, LowKept, KernelMarked, FoundAvailable, Available
  <1>15. HeapMarked' /\ TablesMarked'
    BY <1>3, <1>4, <1>8, <1>11 DEF IInv, HeapMarked, TablesMarked, Marked, Available
  <1>16. HeapOnce'
    BY <1>9, <1>10, <1>11, <1>12 DEF IInv, HeapOnce
  <1>17. StackOnce'
    BY <1>8, <1>10 DEF IInv, StackOnce
  <1>18. Apart'
    <2> SUFFICES ASSUME NEW p \in HeapPage, NEW w \in Tables, NEW k \in StackPage,
                        heap'[p] = table[w][k]
                 PROVE  heap'[p] \in torn' \cup {Absent}
      BY <1>8 DEF Apart
    <2>1. CASE p = q
      BY <2>1, <1>9, <1>11, <1>13
    <2>2. CASE p # q
      BY <2>2, <1>10, <1>11 DEF IInv, Apart
    <2> QED
      BY <2>1, <2>2
  <1>19. Anchored'
    <2> SUFFICES ASSUME NEW t \in Task, stack[t] # Nothing
                 PROVE  /\ \A p \in HeapPage : heap'[p] = stack[t].frame =>
                                              p = stack[t].page \/ heap'[p] \in torn'
                        /\ heapOf[t] \in Process /\ stack[t].page < next'[heapOf[t]]
      BY DEF Anchored
    <2>1. /\ stack[t].frame \in bitmap
          /\ \A p \in HeapPage : heap[p] = stack[t].frame => p = stack[t].page \/ heap[p] \in torn
          /\ heapOf[t] \in Process /\ stack[t].page < next[heapOf[t]]
      BY DEF IInv, Anchored, TablesMarked, Marked
    <2>2. next'[heapOf[t]] >= next[heapOf[t]] /\ next[heapOf[t]] \in Int /\ stack[t].page \in Int
      BY <1>1, <1>4, <1>6, <2>1 DEF IInv, TypeOK, HeapPage
    <2>3. next'[heapOf[t]] \in Int
      BY <1>7, <2>1 DEF TypeOK
    <2> QED
      BY <1>9, <1>10, <1>11, <2>1, <2>2, <2>3
  <1>20. Tasks'
    BY DEF IInv, Tasks, Born
  <1> QED
    BY <1>7, <1>14, <1>15, <1>16, <1>17, <1>18, <1>19, <1>20 DEF IInv

(* What a heap may free starts behind the tables that lie in it.           *)
LEMMA KeptIsBehind ==
  ASSUME TypeOK, NEW h
  PROVE  /\ Kept(h) \in Int /\ Kept(h) >= UserPages
         /\ \A t \in Task : stack[t] # Nothing /\ heapOf[t] = h => stack[t].page < Kept(h)
  <1> DEFINE tables == {stack[t].page : t \in {u \in Task : stack[u] # Nothing /\ heapOf[u] = h}}
             pages == {UserPages - 1} \cup tables
  <1>1. tables \in SUBSET HeapPage
    BY DEF TypeOK
  <1>2. IsFiniteSet(tables)
    BY <1>1, FiniteDomains
  <1>3. IsFiniteSet(pages)
    <2>1. IsFiniteSet(tables \cup {UserPages - 1})
      BY <1>2, FS_AddElement
    <2>2. tables \cup {UserPages - 1} = pages
      OBVIOUS
    <2> QED
      BY <2>1, <2>2
  <1>4. pages \in SUBSET Int /\ pages # {}
    BY <1>1, Sizes DEF HeapPage
  <1>5. \A t \in Task : stack[t] # Nothing /\ heapOf[t] = h => stack[t].page \in pages
    OBVIOUS
  <1>6. UserPages - 1 \in pages /\ Kept(h) = 1 + Max(pages)
    BY DEF Kept
  <1> HIDE DEF pages
  <1>7. Max(pages) \in pages /\ \A p \in pages : Max(pages) >= p
    BY <1>3, <1>4, MaxIsGreatest
  <1>8. Max(pages) \in Int /\ \A p \in pages : p \in Int
    BY <1>4, <1>7
  <1> HIDE DEF tables
  <1>9. Kept(h) \in Int /\ \A p \in pages : p < Kept(h)
    BY <1>6, <1>7, <1>8
  <1> QED
    BY <1>5, <1>6, <1>9, Sizes

(* The frames that Contract frees are the kernel's, mapped nowhere else.   *)
LEMMA ContractInv ==
  ASSUME IInv, Contract
  PROVE  IInv'
  <1> USE DEF Contract, taskVars
  <1>1. PICK last \in Kept(Own) .. next[Own] - 1 :
          LET length == NewLength(last - UserPages)
              freed == {p \in LowPage : p > length /\ p < end[Own] - UserPages /\ low[p] # Absent}
          IN  /\ next' = [next EXCEPT ![Own] = last]
              /\ end' = [end EXCEPT ![Own] = UserPages + length]
              /\ bitmap' = Freed({low[p] : p \in freed})
              /\ low' = [p \in LowPage |-> IF p \in freed THEN Absent ELSE low[p]]
    OBVIOUS
  <1> DEFINE length == NewLength(last - UserPages)
             freed == {p \in LowPage : p > length /\ p < end[Own] - UserPages /\ low[p] # Absent}
             frames == {low[p] : p \in freed}
  <1>2. /\ Own \in Process /\ next[Own] \in 0 .. MaxPages /\ end[Own] \in 0 .. MaxPages
        /\ MaxPages \in Nat
    BY OwnIsProcess, Sizes DEF IInv
  <1>3. /\ Kept(Own) \in Int /\ Kept(Own) >= UserPages
        /\ \A t \in Task : stack[t] # Nothing /\ heapOf[t] = Own => stack[t].page < Kept(Own)
    BY KeptIsBehind DEF IInv
  <1>4. last \in UserPages .. MaxPages - 1 /\ last >= Kept(Own)
    BY <1>1, <1>2, <1>3, Sizes
  <1>5. length \in MinPages .. MaxPages - UserPages
    <2>1. last - UserPages \in 0 .. MaxPages - UserPages
      BY <1>4, Sizes
    <2>2. UserPages + MinPages < MaxPages /\ MinPages >= 2
      BY PagingAssumption, Sizes
    <2> DEFINE cut == IF (last - UserPages) % 2 = 1 THEN 2 ELSE last - UserPages
    <2>3. cut \in 0 .. MaxPages - UserPages
      BY <2>1, <2>2, Sizes
    <2>4. length = Max({cut, MinPages})
      BY DEF NewLength
    <2> HIDE DEF cut, length
    <2> QED
      BY <2>2, <2>3, <2>4, MaxOfTwo, Sizes
  <1>6. \A p \in freed : p \in LowPage /\ p > 0 /\ low[p] = p
    BY <1>5, PagingAssumption, Sizes DEF IInv, LowKept, LowPage
  <1>7. \A p \in freed : low[p] # Absent
    OBVIOUS
  <1>8. /\ next' = [next EXCEPT ![Own] = last] /\ end' = [end EXCEPT ![Own] = UserPages + length]
        /\ bitmap' = bitmap \ frames
        /\ low' = [p \in LowPage |-> IF p \in freed THEN Absent ELSE low[p]]
    BY <1>1 DEF Freed
  <1> HIDE DEF length, freed
  <1>9. TypeOK'
    <2>1. /\ next' \in [Process -> 0 .. MaxPages]
          /\ end' \in [Process -> 0 .. MaxPages]
      BY <1>2, <1>4, <1>5, <1>8, Sizes DEF IInv, TypeOK
    <2>2. low' \in [LowPage -> Frame \cup {Absent}] /\ bitmap' \subseteq Frame
      BY <1>8 DEF IInv, TypeOK
    <2> QED
      BY <2>1, <2>2 DEF IInv, TypeOK
  <1>10. /\ Tables' = Tables
         /\ Strayed \subseteq Strayed' /\ \A p \in freed : p \in Strayed' /\ p \notin Strayed
    BY <1>6, <1>7, <1>8 DEF Tables, Strayed
  <1>11. \A f \in frames : f \in Strayed' /\ f \notin Strayed /\ f \in 0 .. KernelPages
    BY <1>6, <1>10, PagingAssumption, Sizes DEF LowPage
  <1> HIDE DEF frames
  <1>12. LowKept' /\ KernelMarked' /\ FoundAvailable'
    BY <1>8, <1>10, <1>11 DEF IInv, LowKept, KernelMarked, FoundAvailable, Available
  <1>13. \A f : Marked(f) => Marked(f)'
    BY <1>8, <1>10, <1>11 DEF Marked, Available
  <1>14. HeapMarked' /\ TablesMarked'
    <2>1. HeapMarked'
      BY <1>13 DEF IInv, HeapMarked
    <2>2. TablesMarked'
      BY <1>13 DEF IInv, TablesMarked
    <2> QED
      BY <2>1, <2>2
  <1>15. HeapOnce' /\ StackOnce' /\ Apart'
    BY <1>10 DEF IInv, HeapOnce, StackOnce, Apart
  <1>16. Anchored'
    <2>1. \A t \in Task : stack[t] # Nothing => stack[t].page < next'[heapOf[t]]
      <3> SUFFICES ASSUME NEW t \in Task, stack[t] # Nothing
                   PROVE  stack[t].page < next'[heapOf[t]]
        OBVIOUS
      <3>1. heapOf[t] \in Process /\ stack[t].page < next[heapOf[t]] /\ stack[t].page \in Int
        BY DEF IInv, Anchored, TypeOK, HeapPage
      <3>2. CASE heapOf[t] = Own
        <4>1. next'[Own] = last
          BY <1>2, <1>8 DEF IInv, TypeOK
        <4> QED
          BY <1>3, <1>4, <3>1, <3>2, <4>1
      <3>3. CASE heapOf[t] # Own
        BY <1>8, <3>1, <3>3 DEF IInv, TypeOK
      <3> QED
        BY <3>2, <3>3
    <2> QED
      BY <2>1 DEF IInv, Anchored
  <1>17. Tasks'
    BY DEF IInv, Tasks, Born
  <1> QED
    BY <1>9, <1>12, <1>14, <1>15, <1>16, <1>17 DEF IInv

(* The mappings of the heap region when AllocatePage adds some.            *)
LEMMA HeapGrows ==
  ASSUME IInv, NEW new, Grows(new), heap' = WithPages(new), bitmap \cup Range(new) \subseteq bitmap',
         UNCHANGED <<low, pending, torn>>
  PROVE  /\ LowKept' /\ KernelMarked' /\ FoundAvailable'
         /\ HeapMarked' /\ HeapOnce'
         /\ \A p \in HeapPage : heap'[p] = heap[p] \/ heap'[p] \in Range(new)
  <1>1. Strayed' = Strayed
    BY DEF Strayed
  <1>2. \A p \in HeapPage : /\ heap[p] # Absent => heap'[p] = heap[p]
                            /\ heap[p] = Absent => heap'[p] \in Free \cup {Absent}
                            /\ heap'[p] = heap[p] \/ heap'[p] \in Range(new)
    BY DEF Grows
  <1>3. \A f \in Range(new) : f \in Free /\ f \in bitmap'
    BY DEF Grows
  <1>4. LowKept' /\ KernelMarked' /\ FoundAvailable'
    BY <1>1 DEF IInv, LowKept, KernelMarked, FoundAvailable, Available
  <1>5. \A f \in Free : Available(f)
    BY DEF IInv, KernelMarked, Available, Free
  <1>6. HeapMarked'
    BY <1>1, <1>2, <1>3, <1>5 DEF IInv, HeapMarked, Marked, Available
  <1>7. HeapOnce'
    <2> SUFFICES ASSUME NEW p \in HeapPage, NEW q \in HeapPage, heap'[p] = heap'[q],
                        heap'[p] \in Frame \ torn
                 PROVE  p = q
      BY DEF HeapOnce
    <2>1. CASE heap'[p] \in Free
      BY <2>1 DEF Grows
    <2>2. CASE heap'[p] \notin Free
      <3>1. heap'[p] = heap[p] /\ heap'[q] = heap[q]
        BY <2>2, <1>2, <1>3
      <3> QED
        BY <3>1 DEF IInv, HeapOnce
    <2> QED
      BY <2>1, <2>2
  <1> QED
    BY <1>2, <1>4, <1>6, <1>7

(* A new task has no stack, and the pages it maps get frames of their own. *)
LEMMA CreateTaskInv ==
  ASSUME IInv, NEW t \in Task, CreateTask(t)
  PROVE  IInv'
  <1> USE DEF CreateTask, heapVars
  <1> DEFINE pages == 0 .. UserPages - 1
             new == Allocated(Missing(pages), Free)
  <1>1. pages \in SUBSET HeapPage
    BY PagingAssumption, Sizes DEF HeapPage
  <1>2. Cardinality(Missing(pages)) <= Cardinality(Free) /\ heap' = WithPages(new)
        /\ bitmap' = bitmap \cup Range(new)
    BY DEF Used
  <1> HIDE DEF pages
  <1>3. Grows(new)
    BY <1>1, <1>2, PagesGetFrames DEF IInv
  <1> HIDE DEF new
  <1>4. /\ LowKept' /\ KernelMarked' /\ FoundAvailable' /\ HeapMarked' /\ HeapOnce'
        /\ \A p \in HeapPage : heap'[p] = heap[p] \/ heap'[p] \in Range(new)
    BY <1>2, <1>3, HeapGrows
  <1>5. \A f \in Range(new) : f \in Frame /\ f \notin bitmap
    BY <1>3 DEF Grows, Free
  <1>6. Tables' = Tables /\ Strayed' = Strayed
    BY DEF Tables, Strayed
  <1>7. TablesMarked' /\ StackOnce'
    BY <1>2, <1>6 DEF IInv, TablesMarked, StackOnce, Marked, Available
  <1>8. \A w \in Tables : w \in bitmap /\ \A k \in StackPage : table[w][k] \in bitmap \cup {Absent}
    BY DEF IInv, TablesMarked, Tables, Marked
  <1>9. Apart'
    <2> SUFFICES ASSUME NEW p \in HeapPage, NEW w \in Tables, NEW k \in StackPage,
                        heap'[p] = table[w][k]
                 PROVE  heap'[p] \in torn \cup {Absent}
      BY <1>6 DEF Apart
    <2>1. heap'[p] \notin Range(new)
      BY <1>5, <1>8, Sizes DEF Frame, Absent
    <2> QED
      BY <2>1, <1>4 DEF IInv, Apart
  <1>10. t \notin Process => heapOf[current] \in Process /\ status[heapOf[current]] = "Ready"
    <2> SUFFICES ASSUME t \notin Process
                 PROVE  heapOf[current] \in Process /\ status[heapOf[current]] = "Ready"
      OBVIOUS
    <2>1. current \in Task /\ status[current] = "Ready" /\ Born(current)
      BY DEF IInv, Tasks, TypeOK
    <2> QED
      BY <2>1 DEF Born
  <1>11. TypeOK'
    <2>1. heap' \in [HeapPage -> Frame \cup {Absent}]
      BY <1>2, <1>3 DEF Grows
    <2>2. bitmap' \subseteq Frame
      BY <1>2, <1>5 DEF IInv, TypeOK
    <2>3. heapOf' \in [Task -> Process \cup {Boot}]
      BY <1>10 DEF IInv, TypeOK
    <2>4. status' \in [Task -> {"Unborn", "Created", "Ready"}]
      BY DEF IInv, TypeOK
    <2> QED
      BY <2>1, <2>2, <2>3, <2>4 DEF IInv, TypeOK
  <1>12. \A u \in Task : stack[u] # Nothing => u # t /\ heapOf'[u] = heapOf[u]
    BY DEF IInv, Tasks, TypeOK
  <1>13. Anchored'
    <2> SUFFICES ASSUME NEW u \in Task, stack[u] # Nothing
                 PROVE  /\ \A p \in HeapPage : heap'[p] = stack[u].frame =>
                                              p = stack[u].page \/ heap'[p] \in torn
                        /\ heapOf'[u] \in Process /\ stack[u].page < next[heapOf'[u]]
      BY DEF Anchored
    <2>1. stack[u].frame \in bitmap
      BY DEF IInv, TablesMarked, Marked
    <2> QED
      BY <2>1, <1>4, <1>5, <1>12 DEF IInv, Anchored
  <1>14. Tasks'
    <2>1. ASSUME NEW u \in Task, status'[u] # "Unborn" PROVE Born(u)'
      <3>1. status' = [status EXCEPT ![t] = "Created"] /\ Process \subseteq Task
        BY PagingAssumption
      <3>2. \A h \in Process : status[h] = "Ready" => status'[h] = "Ready"
        BY <3>1 DEF IInv, TypeOK
      <3>3. CASE u = t
        <4>1. heapOf'[t] = IF t \in Process THEN t ELSE heapOf[current]
          BY DEF IInv, TypeOK
        <4> QED
          BY <4>1, <1>10, <3>2, <3>3 DEF Born
      <3>4. CASE u # t
        <4>1. heapOf'[u] = heapOf[u] /\ status[u] # "Unborn"
          BY <2>1, <3>4 DEF IInv, TypeOK
        <4> QED
          BY <4>1, <3>2 DEF IInv, Tasks, Born
      <3> QED
        BY <3>3, <3>4
    <2>2. \A u \in Task : status'[u] # "Ready" => stack'[u] = Nothing
      BY DEF IInv, Tasks, TypeOK
    <2>3. current' \in Task => status'[current'] = "Ready"
      BY DEF IInv, Tasks, TypeOK
    <2> QED
      BY <2>1, <2>2, <2>3 DEF Tasks
  <1> QED
    BY <1>4, <1>7, <1>9, <1>11, <1>13, <1>14 DEF IInv

(* The heap page that becomes the table of a task's stack.                 *)
TablePage(t) == IF Starting(t) THEN UserPages ELSE next[heapOf[t]]

(* What a first dispatch does, with the frames it takes.                   *)
Begins(t, new, frames, where) ==
  /\ Grows(new) /\ heap' = WithPages(new)
  /\ frames \in [StackPage -> Free \ Range(new)]
  /\ \A j, k \in StackPage : frames[j] = frames[k] => j = k
  /\ where \in Frame /\ where = heap'[TablePage(t)]
  /\ table' = [table EXCEPT ![where] = frames]
  /\ stack' = [stack EXCEPT ![t] = [frame |-> where, page |-> TablePage(t)]]
  /\ bitmap' = bitmap \cup Range(new) \cup Range(frames)
  /\ next' = [next EXCEPT ![heapOf[t]] = TablePage(t) + 1]
  /\ end' \in [Process -> 0 .. MaxPages]

(* The frames that a first dispatch takes are all there.                   *)
LEMMA FirstDispatchBegins ==
  ASSUME IInv, NEW t \in Task, FirstDispatch(t)
  PROVE  /\ heapOf[t] \in Process /\ TablePage(t) \in HeapPage
         /\ \E new, frames, where : Begins(t, new, frames, where)
  <1> USE DEF FirstDispatch
  <1> DEFINE h == heapOf[t]
             page == TablePage(t)
             region == IF Starting(t) THEN UserPages - 1 .. InitialPages - 1 ELSE {}
             pages == region \cup {page}
             new == Allocated(Missing(pages), Free)
             frames == Allocated(StackPage, Free \ Range(new))
             where == WithPages(new)[page]
  <1>1. h \in Process
    BY DEF IInv, Tasks, Born
  <1>2. page \in HeapPage
    BY <1>1, Sizes DEF IInv, TypeOK, TablePage, HeapPage
  <1>3. pages \in SUBSET HeapPage
    <2>1. region \in SUBSET HeapPage
      BY PagingAssumption, Sizes DEF HeapPage
    <2> QED
      BY <1>2, <2>1
  <1>4. /\ Cardinality(Missing(pages)) + StackPages <= Cardinality(Free)
        /\ heap' = WithPages(new)
        /\ table' = [table EXCEPT ![where] = frames]
        /\ stack' = [stack EXCEPT ![t] = [frame |-> where, page |-> page]]
        /\ bitmap' = bitmap \cup Range(new) \cup Range(frames)
        /\ next' = [next EXCEPT ![h] = page + 1]
        /\ end' = [end EXCEPT ![h] = IF Starting(t) THEN InitialPages - 1 ELSE Max({@, page + 1})]
    BY DEF Used, TablePage
  <1>5. /\ IsFiniteSet(Missing(pages)) /\ Cardinality(Missing(pages)) \in Nat
        /\ Cardinality(Free) \in Nat /\ StackPages \in Nat
    <2>1. Missing(pages) \in SUBSET HeapPage
      BY <1>3 DEF Missing
    <2> QED
      BY <2>1, FiniteDomains, Sizes, FS_CardinalityType
  <1>6. page \in pages
    OBVIOUS
  <1> HIDE DEF pages
  <1>7. /\ Grows(new) /\ (\A p \in pages : WithPages(new)[p] \in Frame)
        /\ Cardinality(Range(new)) <= Cardinality(Missing(pages)) /\ IsFiniteSet(Range(new))
    <2>1. Cardinality(Missing(pages)) <= Cardinality(Free)
      BY <1>4, <1>5
    <2> QED
      BY <2>1, <1>3, PagesGetFrames DEF IInv
  <1> HIDE DEF new
  <1>8. /\ frames \in [StackPage -> Free \ Range(new)]
        /\ \A j, k \in StackPage : frames[j] = frames[k] => j = k
    <2>1. Cardinality(Range(new)) \in Nat
      BY <1>7, FS_CardinalityType
    <2>2. Cardinality(Range(new)) + StackPages <= Cardinality(Free)
      BY <1>4, <1>5, <1>7, <2>1
    <2>3. Range(new) \in SUBSET Free
      BY <1>7 DEF Grows
    <2> QED
      BY <1>7, <2>2, <2>3, StackGetsFrames
  <1>9. end' \in [Process -> 0 .. MaxPages]
    <2>1. InitialPages - 1 \in 0 .. MaxPages
      BY PagingAssumption, Sizes
    <2>2. end[h] \in 0 .. MaxPages /\ page \in 0 .. MaxPages - 1
      BY <1>1, <1>2 DEF IInv, TypeOK, HeapPage
    <2>3. Max({end[h], page + 1}) \in 0 .. MaxPages
      BY <2>2, MaxOfTwo, Sizes
    <2> HIDE DEF page
    <2> QED
      BY <1>1, <1>4, <2>1, <2>3 DEF IInv, TypeOK
  <1>10. where \in Frame
    BY <1>6, <1>7
  <1> HIDE DEF frames
  <1>11. Begins(t, new, frames, where)
    BY <1>4, <1>7, <1>8, <1>9, <1>10 DEF Begins
  <1> QED
    BY <1>1, <1>2, <1>11

(* The table of a stack goes to a page that no stack of the heap has.      *)
LEMMA FirstDispatchInv ==
  ASSUME IInv, NEW t \in Task, FirstDispatch(t)
  PROVE  IInv'
  <1> DEFINE h == heapOf[t]
             page == TablePage(t)
  <1>1. h \in Process /\ page \in HeapPage
    BY FirstDispatchBegins
  <1>2. PICK new, frames, where : Begins(t, new, frames, where)
    BY FirstDispatchBegins
  <1>3. /\ status[t] = "Created" /\ status' = [status EXCEPT ![t] = "Ready"] /\ current' = t
        /\ UNCHANGED <<low, heapOf, pending, torn>>
    BY DEF FirstDispatch
  <1>4. /\ heap' = WithPages(new) /\ bitmap' = bitmap \cup Range(new) \cup Range(frames)
        /\ where \in Frame /\ where = heap'[page]
        /\ table' = [table EXCEPT ![where] = frames]
        /\ stack' = [stack EXCEPT ![t] = [frame |-> where, page |-> page]]
        /\ next' = [next EXCEPT ![h] = page + 1]
    BY <1>2 DEF Begins
  <1>5. /\ Range(new) \in SUBSET Free /\ Range(frames) \in SUBSET (Free \ Range(new))
        /\ Free \in SUBSET Frame
        /\ \A f \in Free : f \in Frame /\ f \notin bitmap /\ f # Absent
    <2>1. Range(frames) \in SUBSET (Free \ Range(new))
      BY <1>2 DEF Begins, Range
    <2> QED
      BY <1>2, <2>1, Sizes DEF Begins, Grows, Free, Frame, Absent
  <1>6. /\ LowKept' /\ KernelMarked' /\ FoundAvailable' /\ HeapMarked' /\ HeapOnce'
        /\ \A p \in HeapPage : heap'[p] = heap[p] \/ heap'[p] \in Range(new)
    BY <1>2, <1>3, HeapGrows DEF Begins
  <1>7. /\ stack[t] = Nothing /\ stack'[t] = [frame |-> where, page |-> page]
        /\ \A u \in Task : u # t => stack'[u] = stack[u]
        /\ stack'[t] # Nothing
    BY <1>3, <1>4, Sizes DEF IInv, Tasks, TypeOK, Nothing, Absent, Frame
  <1>8. Tables' \subseteq Tables \cup {where}
    BY <1>7 DEF Tables
  <1>9. /\ table'[where] = frames /\ frames \in [StackPage -> Free \ Range(new)]
        /\ \A w \in Frame : w # where => table'[w] = table[w]
        /\ \A k \in StackPage : frames[k] \in Free \ Range(new) /\ frames[k] \in Range(frames)
    BY <1>2, <1>4 DEF Begins, IInv, TypeOK, Range
  <1>10. \A w \in Tables : /\ w \in Frame /\ w \in bitmap
                           /\ \A k \in StackPage : table[w][k] \in bitmap \cup {Absent}
    BY DEF IInv, TypeOK, TablesMarked, Tables, Marked
  <1>11. \A p \in HeapPage : heap[p] \in bitmap \cup {Absent}
    BY DEF IInv, HeapMarked, Marked
  <1>12. TypeOK'
    <2>1. heap' \in [HeapPage -> Frame \cup {Absent}] /\ bitmap' \subseteq Frame
      BY <1>2, <1>4, <1>5 DEF Begins, Grows, IInv, TypeOK
    <2>2. frames \in [StackPage -> Frame \cup {Absent}]
      BY <1>5, <1>9
    <2>3. table' \in [Frame -> [StackPage -> Frame \cup {Absent}]]
      BY <2>2, <1>4 DEF IInv, TypeOK
    <2>4. stack' \in [Task -> [frame : Frame, page : HeapPage] \cup {Nothing}]
      <3>1. [frame |-> where, page |-> page] \in [frame : Frame, page : HeapPage]
        BY <1>1, <1>4
      <3> HIDE DEF page
      <3> QED
        BY <1>4, <3>1 DEF IInv, TypeOK
    <2>5. next' \in [Process -> 0 .. MaxPages]
      <3>1. page + 1 \in 0 .. MaxPages
        BY <1>1, Sizes DEF HeapPage
      <3> HIDE DEF page
      <3> QED
        BY <1>4, <3>1 DEF IInv, TypeOK
    <2>6. end' \in [Process -> 0 .. MaxPages]
      BY <1>2 DEF Begins
    <2>7. status' \in [Task -> {"Unborn", "Created", "Ready"}]
      BY <1>3 DEF IInv, TypeOK
    <2> QED
      BY <1>3, <2>1, <2>3, <2>4, <2>5, <2>6, <2>7 DEF IInv, TypeOK
  <1>13. TablesMarked'
    <2> DEFINE NowMarked(f) == f \in bitmap' /\ (f \in 0 .. KernelPages => f \in Strayed)
    <2>1. Strayed' = Strayed /\ bitmap \subseteq bitmap'
      BY <1>3, <1>4 DEF Strayed
    <2>2. \A k \in StackPage : NowMarked(frames[k])
      BY <1>4, <1>9 DEF IInv, KernelMarked, Free
    <2>3. where # Absent /\ NowMarked(where)
      BY <1>1, <1>4, <1>6, <2>1, Sizes DEF HeapMarked, Marked, Available, Frame, Absent
    <2>4. \A u \in Task : stack[u] # Nothing =>
            /\ NowMarked(stack[u].frame) /\ stack[u].frame \in Frame
            /\ \A k \in StackPage : LET f == table[stack[u].frame][k] IN f # Absent => NowMarked(f)
      BY <2>1 DEF IInv, TypeOK, TablesMarked, Marked, Available
    <2> HIDE DEF NowMarked
    <2>5. \A u \in Task : stack'[u] # Nothing =>
            /\ NowMarked(stack'[u].frame)
            /\ \A k \in StackPage : LET f == table'[stack'[u].frame][k] IN f # Absent => NowMarked(f)
      <3> SUFFICES ASSUME NEW u \in Task, stack'[u] # Nothing
                   PROVE  /\ NowMarked(stack'[u].frame)
                          /\ \A k \in StackPage :
                               LET f == table'[stack'[u].frame][k] IN f # Absent => NowMarked(f)
        OBVIOUS
      <3>1. CASE stack'[u].frame = where
        BY <2>2, <2>3, <3>1, <1>9
      <3>2. CASE stack'[u].frame # where
        <4>1. stack'[u] = stack[u]
          BY <1>7, <3>2
        <4> QED
          BY <2>4, <3>2, <4>1, <1>9
      <3> QED
        BY <3>1, <3>2
    <2> QED
      BY <2>1, <2>5 DEF NowMarked, TablesMarked, Marked, Available
  <1>14. StackOnce'
    <2> SUFFICES ASSUME NEW v \in Tables', NEW w \in Tables', NEW j \in StackPage, NEW k \in StackPage,
                        table'[v][j] = table'[w][k], table'[v][j] \in Frame \ torn
                 PROVE  v = w /\ j = k
      BY <1>3 DEF StackOnce
    <2>1. \A x \in Tables' : x = where \/ (x \in Tables /\ x \in Frame /\ table'[x] = table[x])
      BY <1>8, <1>9, <1>10
    <2>2. CASE v = where /\ w = where
      BY <2>2, <1>2, <1>9 DEF Begins
    <2>3. CASE v = where /\ w # where
      <3>1. frames[j] \in Free /\ frames[j] = table[w][k] /\ w \in Tables
        BY <2>1, <2>3, <1>9
      <3> QED
        BY <3>1, <1>5, <1>10
    <2>4. CASE v # where /\ w = where
      <3>1. frames[k] \in Free /\ frames[k] = table[v][j] /\ v \in Tables
        BY <2>1, <2>4, <1>9
      <3> QED
        BY <3>1, <1>5, <1>10
    <2>5. CASE v # where /\ w # where
      BY <2>1, <2>5 DEF IInv, StackOnce
    <2> QED
      BY <2>2, <2>3, <2>4, <2>5
  <1>15. Apart'
    <2> SUFFICES ASSUME NEW p \in HeapPage, NEW w \in Tables', NEW k \in StackPage,
                        heap'[p] = table'[w][k]
                 PROVE  heap'[p] \in torn \cup {Absent}
      BY <1>3 DEF Apart
    <2>1. CASE w = where
      <3>1. frames[k] \in Free \ Range(new) /\ heap'[p] = frames[k]
        BY <2>1, <1>9
      <3> QED
        BY <3>1, <1>5, <1>6, <1>11
    <2>2. CASE w # where
      <3>1. w \in Tables /\ table'[w] = table[w]
        BY <2>2, <1>8, <1>9, <1>10
      <3>2. heap'[p] = heap[p]
        BY <3>1, <1>5, <1>6, <1>10
      <3> QED
        BY <3>1, <3>2 DEF IInv, Apart
    <2> QED
      BY <2>1, <2>2
  <1>16. Anchored'
    <2> SUFFICES ASSUME NEW u \in Task, stack'[u] # Nothing
                 PROVE  /\ \A p \in HeapPage : heap'[p] = stack'[u].frame =>
                                              p = stack'[u].page \/ heap'[p] \in torn
                        /\ heapOf[u] \in Process /\ stack'[u].page < next'[heapOf[u]]
      BY <1>3 DEF Anchored
    <2>1. CASE u = t
      <3>1. \A p \in HeapPage : heap'[p] = where => p = page \/ heap'[p] \in torn
        BY <1>1, <1>3, <1>4, <1>6 DEF HeapOnce
      <3>2. next'[h] = page + 1 /\ page \in Int
        BY <1>1, <1>4 DEF IInv, TypeOK, HeapPage
      <3> HIDE DEF page
      <3> QED
        BY <2>1, <1>1, <1>7, <3>1, <3>2
    <2>2. CASE u # t
      <3>1. stack'[u] = stack[u] /\ stack[u] # Nothing /\ stack[u].frame \in bitmap
        BY <2>2, <1>7 DEF IInv, TablesMarked, Marked
      <3>2. \A p \in HeapPage : heap'[p] = stack[u].frame => heap'[p] = heap[p]
        BY <3>1, <1>5, <1>6
      <3>3. heapOf[u] \in Process /\ stack[u].page < next[heapOf[u]] /\ stack[u].page \in Int
        BY <3>1 DEF IInv, Anchored, TypeOK, HeapPage
      <3>4. stack[u].page < next'[heapOf[u]]
        <4>1. CASE heapOf[u] # h
          BY <3>3, <4>1, <1>4 DEF IInv, TypeOK
        <4>2. CASE heapOf[u] = h /\ t \in Process
          <5>1. h = t /\ u \notin Process /\ status[heapOf[u]] = "Ready"
            BY <2>2, <3>1, <4>2, <1>3 DEF IInv, Tasks, Born
          <5> QED
            BY <5>1, <4>2, <1>3
        <4>3. CASE heapOf[u] = h /\ t \notin Process
          <5>1. page = next[h] /\ next'[h] = next[h] + 1 /\ next[h] \in Int
            BY <4>3, <1>1, <1>4 DEF TablePage, Starting, IInv, TypeOK
          <5> QED
            BY <4>3, <5>1, <3>3
        <4> QED
          BY <4>1, <4>2, <4>3
      <3> QED
        BY <3>1, <3>2, <3>3, <3>4 DEF IInv, Anchored
    <2> QED
      BY <2>1, <2>2
  <1>17. Tasks'
    <2>1. \A u \in Task : status[u] = "Ready" => status'[u] = "Ready"
      BY <1>3 DEF IInv, TypeOK
    <2>2. \A u \in Task : status'[u] # "Unborn" => Born(u)'
      BY <2>1, <1>3, PagingAssumption DEF IInv, Tasks, Born, TypeOK
    <2>3. \A u \in Task : status'[u] # "Ready" => stack'[u] = Nothing
      BY <1>3, <1>7 DEF IInv, Tasks, TypeOK
    <2> QED
      BY <2>2, <2>3, <1>3 DEF Tasks, IInv, TypeOK
  <1> QED
    BY <1>6, <1>12, <1>13, <1>14, <1>15, <1>16, <1>17 DEF IInv

-----------------------------------------------------------------------------
(* The theorems.                                                           *)

(* Every step keeps the invariant.                                         *)
LEMMA StepInv ==
  ASSUME IInv, [Next]_vars
  PROVE  IInv'
  <1>1. ASSUME NEW t \in Task, CreateTask(t) PROVE IInv'
    BY <1>1, CreateTaskInv
  <1>2. ASSUME NEW t \in Task, FirstDispatch(t) PROVE IInv'
    BY <1>2, FirstDispatchInv
  <1>3. ASSUME NEW t \in Task, Dispatch(t) PROVE IInv'
    BY <1>3, DispatchInv
  <1>4. CASE Malloc
    BY <1>4, MallocInv
  <1>5. CASE Find
    BY <1>5, FindInv
  <1>6. CASE Mark
    BY <1>6, MarkInv
  <1>7. CASE Contract
    BY <1>7, ContractInv
  <1>8. CASE UNCHANGED vars
    <2> USE <1>8 DEF vars, heapVars, taskVars
    <2>1. TypeOK'
      BY DEF IInv, TypeOK, spaceVars
    <2>2. Anchored' /\ Tasks'
      BY DEF IInv, Anchored, Tasks, Born, spaceVars
    <2> QED
      BY <2>1, <2>2, MapsStay DEF IInv
  <1> QED
    BY <1>1, <1>2, <1>3, <1>4, <1>5, <1>6, <1>7, <1>8 DEF Next

(* The inductive invariant is one.                                         *)
THEOREM Invariant == Spec => []IInv
<1>1. Init => IInv
  BY InitInv
<1>2. IInv /\ [Next]_vars => IInv'
  BY StepInv
<1> QED
  BY <1>1, <1>2, PTL DEF Spec

(* No table and no task ever names a frame the machine does not have, and  *)
(* no heap grows behind the bound.                                         *)
THEOREM TypeCorrect == Spec => []TypeOK
<1>1. IInv => TypeOK
  BY DEF IInv
<1> QED
  BY <1>1, Invariant, PTL

(* A frame outside torn is mapped once in all address spaces, however      *)
(* CreateTask, first dispatches and the heaps of the tasks interleave.     *)
THEOREM FramesHaveOneOwner == Spec => []OneOwner
<1>1. IInv => OneOwner
  <2> SUFFICES ASSUME IInv PROVE OneOwner
    OBVIOUS
  <2>1. ASSUME NEW f \in Frame \ torn PROVE Cardinality(Owners(f)) <= 1
    <3>1. ASSUME NEW x \in Owners(f), NEW y \in Owners(f) PROVE x = y
      <4> DEFINE InHeap(z) == \E p \in HeapPage : z = <<"heap", p>> /\ heap[p] = f
                 InStack(z) == \E w \in Tables : \E k \in StackPage :
                                 z = <<"stack", w, k>> /\ table[w][k] = f
      <4>1. ASSUME NEW z \in Owners(f) PROVE InHeap(z) \/ InStack(z)
        BY DEF Owners
      <4>2. f # Absent /\ f \in Frame /\ f \notin torn
        BY Sizes DEF Frame, Absent
      <4>3. InHeap(x) /\ InHeap(y) => x = y
        BY <4>2 DEF IInv, HeapOnce
      <4>4. InStack(x) /\ InStack(y) => x = y
        BY <4>2 DEF IInv, StackOnce
      <4>5. ~ (InHeap(x) /\ InStack(y)) /\ ~ (InStack(x) /\ InHeap(y))
        BY <4>2 DEF IInv, Apart
      <4> QED
        BY <4>1, <4>3, <4>4, <4>5
    <3>2. CASE Owners(f) = {}
      BY <3>2, FS_EmptySet
    <3>3. CASE Owners(f) # {}
      <4>1. PICK x \in Owners(f) : TRUE
        BY <3>3
      <4>2. Owners(f) = {x}
        BY <3>1, <4>1
      <4> QED
        BY <4>2, FS_Singleton
    <3> QED
      BY <3>2, <3>3
  <2>2. ASSUME NEW f \in 0 .. KernelPages, Owners(f) # {} PROVE f \in Strayed
    BY <2>2, Sizes DEF Owners, IInv, HeapMarked, TablesMarked, Tables, Marked, Available, Absent
  <2> QED
    BY <2>1, <2>2 DEF OneOwner
<1> QED
  BY <1>1, Invariant, PTL

(* A frame that is mapped is marked in the bitmap: AllocateBlock never     *)
(* hands it out a second time, but for what Contract has wrongly freed.    *)
THEOREM MappedFramesAreMarked == Spec => []MappedIsMarked
<1>1. IInv => MappedIsMarked
  <2> SUFFICES ASSUME IInv PROVE MappedIsMarked
    OBVIOUS
  <2>1. ASSUME NEW f \in Frame, Owners(f) # {} PROVE f \in bitmap
    BY <2>1, Sizes DEF Owners, IInv, HeapMarked, TablesMarked, Tables, Marked, Frame, Absent
  <2> QED
    BY <2>1 DEF MappedIsMarked, IInv, KernelMarked
<1> QED
  BY <1>1, Invariant, PTL

(* The table of a task's stack stays what it is, until a first dispatch of *)
(* another process replaces it, if its frame is not torn.                  *)
THEOREM StacksAreKept == Spec => StackKept
<1>1. IInv /\ [Next]_vars =>
        [\A t \in Task : stack[t] # Nothing /\ stack[t].frame \notin torn =>
           \/ stack'[t] = stack[t] /\ table'[stack[t].frame] = table[stack[t].frame]
           \/ \E u \in Task : FirstDispatch(u) /\ heapOf[u] # heapOf[t]]_vars
  <2> DEFINE Stays(t) == stack'[t] = stack[t] /\ table'[stack[t].frame] = table[stack[t].frame]
             Replaced(t) == \E u \in Task : FirstDispatch(u) /\ heapOf[u] # heapOf[t]
  <2> SUFFICES ASSUME IInv, Next, NEW t \in Task, stack[t] # Nothing, stack[t].frame \notin torn
               PROVE  Stays(t) \/ Replaced(t)
    OBVIOUS
  <2>1. CASE UNCHANGED <<table, stack>>
    BY <2>1
  <2>2. ASSUME NEW u \in Task, FirstDispatch(u), heapOf[u] = heapOf[t] PROVE Stays(t)
    <3>1. heapOf[u] \in Process /\ TablePage(u) \in HeapPage
      BY <2>2, FirstDispatchBegins
    <3>2. PICK new, frames, where : Begins(u, new, frames, where)
      BY <2>2, FirstDispatchBegins
    <3>3. /\ table' = [table EXCEPT ![where] = frames] /\ where = heap'[TablePage(u)]
          /\ stack' = [stack EXCEPT ![u] = [frame |-> where, page |-> TablePage(u)]]
          /\ heap' = WithPages(new) /\ Grows(new)
      BY <3>2 DEF Begins
    <3>4. t # u /\ status[u] = "Created"
      BY <2>2 DEF FirstDispatch, IInv, Tasks
    <3>5. /\ stack[t].frame \in bitmap /\ stack[t].page < next[heapOf[t]]
          /\ \A p \in HeapPage : heap[p] = stack[t].frame => p = stack[t].page
          /\ stack[t].page \in Int
      BY DEF IInv, TablesMarked, Marked, Anchored, TypeOK, HeapPage
    <3>6. u \notin Process
      BY <2>2, <3>4 DEF IInv, Tasks, Born
    <3>7. TablePage(u) = next[heapOf[t]]
      BY <2>2, <3>6 DEF TablePage, Starting
    <3>8. where # stack[t].frame
      <4>1. heap'[TablePage(u)] \in Free \/ heap'[TablePage(u)] = heap[TablePage(u)]
        BY <3>1, <3>3 DEF Grows
      <4>2. heap[TablePage(u)] # stack[t].frame
        BY <3>1, <3>5, <3>7
      <4> QED
        BY <3>3, <3>5, <4>1, <4>2 DEF Free
    <3>9. stack[t].frame \in Frame
      BY DEF IInv, TypeOK
    <3> QED
      BY <3>3, <3>4, <3>8, <3>9 DEF IInv, TypeOK
  <2> QED
    BY <2>1, <2>2 DEF Next, CreateTask, Dispatch, Malloc, Find, Mark, Contract, spaceVars
<1> QED
  BY <1>1, Invariant, PTL DEF Spec, StackKept

=============================================================================
