-------------------------------- MODULE Heap --------------------------------
(***************************************************************************)
(* The heap of source/memory_management/heap.cpp, which serves the kernel  *)
(* (kheap) and every process.  Memory is a function from addresses to      *)
(* words; a block is a header, its payload and a footer, and everything    *)
(* the allocator knows of a block it reads from those words.  Sizes and    *)
(* addresses count words of four bytes; a page has Page words.             *)
(*                                                                         *)
(* malloc and free are one step each.  One caller may be given up in the   *)
(* middle of malloc, as kernel_main is when the first task is dispatched   *)
(* while it creates the second one: what it has stored by then stays.      *)
(***************************************************************************)
EXTENDS Integers, Sequences, SequencesExt, FiniteSetsExt

CONSTANTS
  Page,          \* words of a page (0x1000 bytes in the code)
  HeapStart,     \* heap_start, the first word after the index
  InitialEnd,    \* heap_end after Init
  MinSize,       \* HEAP_MIN_SIZE
  Top,           \* the last word the model keeps
  Sizes,         \* the sizes callers ask for
  Aligns,        \* whether callers ask for an aligned block
  Freeing,       \* whether callers give blocks back
  Abandoning,    \* whether a caller may be given up in malloc
  MaxCalls       \* bound on the calls of malloc

MaxWord == 65535    \* the model's words have 16 bits

ASSUME HeapAssumption ==
  /\ {HeapStart, InitialEnd, MinSize, Top, MaxCalls} \subseteq Nat
  /\ Page \in Nat \ {0} /\ Top < MaxWord
  /\ HeapStart % Page = 0 /\ InitialEnd % Page = 0
  /\ HeapStart < InitialEnd /\ InitialEnd < Top
  /\ Sizes \subseteq Nat \ {0} /\ Aligns \subseteq BOOLEAN

VARIABLES
  mem,           \* the words of memory
  heapIndex,     \* the headers of the free blocks, in the order of their sizes
  heap_end,
  pages,         \* the numbers of the pages that are mapped
  live,          \* the blocks callers hold
  calls,         \* the calls of malloc so far
  stopped,       \* where a caller was given up, or "Nowhere"
  halted         \* a page fault has stopped the machine

vars == <<mem, heapIndex, heap_end, pages, live, calls, stopped, halted>>

HEADER == 3    \* magic, is_hole, size
FOOTER == 2    \* magic, header
MAGIC == 48879    \* HEAP_MAGIC, cut to the width of the model's words
DATA == 54321     \* what a caller writes into its block

Address == HeapStart - FOOTER .. Top

(* Unsigned arithmetic.                                                    *)
Word == 0 .. MaxWord

Wrap_Signed(n) == n    \* mutant: signed sizes
Wrap(n) == n % (MaxWord + 1)

Size(m, h) == m[h + 2]
IsHole(m, h) == m[h + 1] = 1

(* What the code writes when it fills in a header or a footer.             *)
PutHeader(m, h, size, hole) ==
  [m EXCEPT ![h] = MAGIC, ![h + 1] = hole, ![h + 2] = size]

PutFooter(m, f, h) == [m EXCEPT ![f] = MAGIC, ![f + 1] = h]

-----------------------------------------------------------------------------
(* HeapOrderedArray: a free block goes before the first one that is not    *)
(* smaller.                                                                *)
Place(m, index, h) ==
  Min({Len(index) + 1} \cup {i \in DOMAIN index : Size(m, index[i]) >= Size(m, h)})

Insert(m, index, h) == InsertAt(index, Place(m, index, h), h)

(* Mutant: the size is increased before the entries are moved.             *)
Inserting_CountedFirst(m, index, h, k) ==
  LET i == Place(m, index, h)
  IN  [j \in 1 .. Len(index) + 1 |->
         IF j = i THEN h
         ELSE IF j \in i + 1 .. i + k \/ j > Len(index) THEN index[j - 1] ELSE index[j]]

(* ... when k entries have been moved: the next one is in tmp only.        *)
Inserting(m, index, h, k) ==
  LET i == Place(m, index, h)
  IN  [j \in DOMAIN index |->
         IF j = i THEN h ELSE IF j \in i + 1 .. i + k THEN index[j - 1] ELSE index[j]]

(* Mutant: the block that is handed out stays in the index.                *)
Drop_Kept(index, i) == index

(* OrderedArray::Remove: an index that is out of range drops the last one. *)
Drop(index, i) ==
  IF i \in DOMAIN index THEN RemoveAt(index, i) ELSE Front(index)

(* FindSmallestHole: the first entry that is large enough; 0 when none is. *)
Offset(h) == Page - ((h + HEADER) % Page)

Fits(m, h, size, align) ==
  IF align THEN Wrap(Size(m, h) - Offset(h)) >= size ELSE Size(m, h) >= size

FindSmallestHole(m, index, size, align) ==
  LET fitting == {i \in DOMAIN index : Fits(m, index[i], size, align)}
  IN  IF fitting = {} THEN 0 ELSE Min(fitting)

(* ... when k entries have been moved.                                     *)
Dropping(index, i, k) ==
  [j \in DOMAIN index |-> IF j \in i .. i + k - 1 THEN index[j + 1] ELSE index[j]]

-----------------------------------------------------------------------------
(* Expand and the growth of the last free block; a heap without free       *)
(* blocks gets one at its old end.  The heap is passed as a record.        *)
RoundUp(length) == IF length >= Page THEN (length \div Page) * Page + Page ELSE length

Grow(h, size) ==
  LET growth == RoundUp(h.end - HeapStart + size) - (h.end - HeapStart)
      last == Max(Range(h.index))
      header == IF h.index = <<>> THEN h.end ELSE last
      length == IF h.index = <<>> THEN growth ELSE Size(h.mem, last) + growth
      headed == IF h.index = <<>> THEN PutHeader(h.mem, header, length, 1)
                                  ELSE [h.mem EXCEPT ![header + 2] = length]
      footed == PutFooter(headed, header + length - FOOTER, header)
  IN  [mem |-> footed,
       index |-> IF h.index = <<>> THEN Insert(footed, h.index, header) ELSE h.index,
       end |-> h.end + growth,
       pages |-> h.pages \cup (h.end \div Page .. (h.end + growth - 1) \div Page)]

(* Alloc calls itself again after Expand; a second Expand is always enough.*)
Grown(h, size, align) ==
  LET enough(g) == FindSmallestHole(g.mem, g.index, size, align) # 0
      once == Grow(h, size)
  IN  IF enough(h) THEN h ELSE IF enough(once) THEN once ELSE Grow(once, size)

(* Mutant: the header, not the payload, is put on the page boundary.       *)
FrontSize_HeaderAligned(hole, align) == IF align THEN Page - (hole % Page) ELSE 0

(* What an aligned request skips, so that its payload starts a page.       *)
FrontSize(hole, align) ==
  IF align THEN Page - (hole % Page) - HEADER ELSE 0

(* The rest of Alloc: entry i of the index is cut.  An aligned request     *)
(* leaves a free block in front, still in the index; words that remain     *)
(* behind become a free block.                                             *)
Cut(h, i, request, align) ==
  LET hole == h.index[i]
      size == Size(h.mem, hole)
      small == Wrap(size - request) < HEADER + FOOTER
      need == IF small THEN size ELSE request
      front == FrontSize(hole, align)
      pos == hole + front
      rest == Wrap(Wrap(size - front) - need)
      fronted == IF align
                   THEN PutFooter(PutHeader(h.mem, hole, Wrap(front), 1),
                                  hole + front - FOOTER, hole)
                   ELSE h.mem
      blocked == PutFooter(PutHeader(fronted, pos, need, 0), pos + need - FOOTER, pos)
      behind == pos + need
      headed == PutHeader(blocked, behind, rest, 1)
      last == Wrap(behind + rest - FOOTER)
      rested == IF last < h.end THEN PutFooter(headed, last, behind) ELSE headed
      index == IF align THEN h.index ELSE Drop(h.index, i)
  IN  [mem |-> IF rest > 0 THEN rested ELSE blocked,
       index |-> IF rest > 0 THEN Insert(rested, index, behind) ELSE index,
       address |-> pos + HEADER,
       fronted |-> fronted, blocked |-> blocked, dropped |-> index,
       behind |-> IF rest > 0 THEN {behind} ELSE {}]

Current == [mem |-> mem, index |-> heapIndex, end |-> heap_end, pages |-> pages]

Malloc(size, align) ==
  /\ ~ halted
  /\ calls < MaxCalls
  /\ calls' = calls + 1
  /\ LET request == size + HEADER + FOOTER
         grown == Grown(Current, request, align)
         found == FindSmallestHole(grown.mem, grown.index, request, align)
         cut == Cut(grown, found, request, align)
     IN  /\ grown.end <= Top + 1
         /\ mem' = cut.mem
         /\ heapIndex' = cut.index
         /\ heap_end' = grown.end
         /\ pages' = grown.pages
         /\ live' = live \cup {[address |-> cut.address, size |-> size, align |-> align]}
  /\ UNCHANGED <<stopped, halted>>

(* A caller is given up in malloc; what it stores in one header or footer  *)
(* is stored together.  In Expand: ...                                     *)
StopGrowing(request, align) ==
  \E h \in {Current, Grow(Current, request)} :
    LET grown == Grow(h, request)
    IN  /\ FindSmallestHole(mem, heapIndex, request, align) = 0
        /\ FindSmallestHole(h.mem, h.index, request, align) = 0
        /\ grown.end <= Top + 1
        /\ stopped' = "Growing"
        /\ pages' = grown.pages /\ heap_end' \in {h.end, grown.end}
        /\ mem' = h.mem /\ heapIndex' = h.index

(* ... in the Remove of Alloc, between its stores, or in its Insert.       *)
StopCutting(request, align) ==
  LET grown == Grown(Current, request, align)
      found == FindSmallestHole(grown.mem, grown.index, request, align)
      cut == Cut(grown, found, request, align)
  IN  /\ grown.end <= Top + 1
      /\ pages' = grown.pages /\ heap_end' = grown.end
      /\ \/ /\ ~ align /\ stopped' = "Removing" /\ mem' = grown.mem
            /\ \E k \in 0 .. Len(grown.index) - found :
                 heapIndex' = Dropping(grown.index, found, k)
         \/ /\ stopped' = "Cutting" /\ heapIndex' = cut.dropped
            /\ mem' \in {grown.mem, cut.fronted, cut.blocked, cut.mem}
         \/ /\ stopped' = "Inserting" /\ mem' = cut.mem
            /\ \E h \in cut.behind :
                 \E k \in 0 .. Len(cut.dropped) - Place(cut.mem, cut.dropped, h) :
                   heapIndex' = Inserting(cut.mem, cut.dropped, h, k)

AbandonMalloc(size, align) ==
  /\ ~ halted /\ Abandoning /\ stopped = "Nowhere"
  /\ calls < MaxCalls
  /\ calls' = calls + 1
  /\ LET request == size + HEADER + FOOTER
     IN  StopGrowing(request, align) \/ StopCutting(request, align)
  /\ UNCHANGED <<live, halted>>

-----------------------------------------------------------------------------
(* Contract: the bit tests of the code; FreePage is given offsets from the *)
(* start of the heap where it expects addresses.                           *)
NewSize(size) ==
  LET rounded == IF (size \div Page) % 2 = 1 THEN 2 * Page ELSE size
  IN  IF rounded < MinSize THEN MinSize ELSE rounded

FreedPages(old, new) ==
  {i \div Page : i \in {j \in {old - k * Page : k \in 1 .. old \div Page} : new < j}}

(* A free block that ends at the end of the heap is cut with it.           *)
Contracted(m, h, end) ==
  LET old == end - HeapStart
      new == NewSize(h - HeapStart)
      size == Wrap(Size(m, h) - (old - new))
      footer == Wrap(h + size - FOOTER)
  IN  [mem |-> IF size > 0 THEN PutFooter([m EXCEPT ![h + 2] = size], footer, h) ELSE m,
       end |-> HeapStart + new,
       freed |-> FreedPages(old, new)]

(* The free block on the left is the one that the footer there names; it   *)
(* grows in place and is in the index already.                             *)
MergedLeft(m, h) ==
  LET footer == h + Size(m, h) - FOOTER
      left == m[h - FOOTER + 1]
  IN  IF m[h - FOOTER] = MAGIC /\ IsHole(m, left)
        THEN [mem |-> [m EXCEPT ![footer + 1] = left, ![left + 2] = Wrap(@ + Size(m, h))],
              header |-> left, footer |-> footer]
        ELSE [mem |-> m, header |-> h, footer |-> footer]

(* Mutant: the swallowed block stays in the index.                         *)
MergedRight_KeptInIndex(m, index, h, footer) ==
  LET right == footer + FOOTER
  IN  IF m[right] = MAGIC /\ IsHole(m, right)
        THEN [mem |-> [m EXCEPT ![h + 2] = Wrap(@ + Size(m, right))],
              index |-> index,
              footer |-> right + Size(m, right) - FOOTER]
        ELSE [mem |-> m, index |-> index, footer |-> footer]

(* A free block on the right is swallowed and removed from the index; its  *)
(* footer goes on naming the old header.                                   *)
MergedRight(m, index, h, footer) ==
  LET right == footer + FOOTER
      at == {i \in DOMAIN index : index[i] = right}
  IN  IF m[right] = MAGIC /\ IsHole(m, right)
        THEN [mem |-> [m EXCEPT ![h + 2] = Wrap(@ + Size(m, right))],
              index |-> Drop(index, IF at = {} THEN 0 ELSE Min(at)),
              footer |-> right + Size(m, right) - FOOTER]
        ELSE [mem |-> m, index |-> index, footer |-> footer]

Free(b) ==
  /\ ~ halted
  /\ Freeing
  /\ LET header == b.address - HEADER
         left == MergedLeft([mem EXCEPT ![header + 1] = 1], header)
         right == MergedRight(left.mem, heapIndex, left.header, left.footer)
         cut == Contracted(right.mem, left.header, heap_end)
         end == right.footer + FOOTER = heap_end
         final == IF end THEN cut.mem ELSE right.mem
     IN  IF (left.footer + FOOTER) \div Page \notin pages
           THEN /\ halted' = TRUE
                /\ mem' = left.mem
                /\ UNCHANGED <<heapIndex, heap_end, pages, live>>
           ELSE /\ mem' = final
                /\ heapIndex' = IF left.header = header
                                  THEN Insert(final, right.index, header) ELSE right.index
                /\ heap_end' = IF end THEN cut.end ELSE heap_end
                /\ pages' = IF end THEN pages \ cut.freed ELSE pages
                /\ live' = live \ {b}
                /\ UNCHANGED halted
  /\ UNCHANGED <<calls, stopped>>

(* A caller fills its block.                                               *)
Words(b) == b.address .. b.address + b.size - 1

Write(b) ==
  /\ ~ halted
  /\ \E a \in Words(b) : mem[a] # DATA
  /\ mem' = [a \in Address |-> IF a \in Words(b) THEN DATA ELSE mem[a]]
  /\ UNCHANGED <<heapIndex, heap_end, pages, live, calls, stopped, halted>>

-----------------------------------------------------------------------------
(* Init maps the heap, its last page included, and makes one free block of *)
(* it, without a footer.                                                   *)
Init ==
  /\ mem = PutHeader([a \in Address |-> 0], HeapStart, InitialEnd - HeapStart, 1)
  /\ heapIndex = <<HeapStart>>
  /\ heap_end = InitialEnd
  /\ pages = 0 .. InitialEnd \div Page
  /\ live = {}
  /\ calls = 0
  /\ stopped = "Nowhere"
  /\ halted = FALSE

Next ==
  \/ \E size \in Sizes, align \in Aligns : Malloc(size, align) \/ AbandonMalloc(size, align)
  \/ \E b \in live : Free(b) \/ Write(b)

Spec == Init /\ [][Next]_vars

-----------------------------------------------------------------------------
(* Properties.                                                             *)

TypeOK ==
  /\ mem \in [Address -> Word]
  /\ heapIndex \in Seq(Address)
  /\ heap_end \in Nat
  /\ pages \subseteq Nat
  /\ live \subseteq [address : Address, size : Sizes, align : Aligns]
  /\ calls \in 0 .. MaxCalls
  /\ stopped \in {"Nowhere", "Growing", "Removing", "Cutting", "Inserting"}
  /\ halted \in BOOLEAN

FreeBlocks == Range(heapIndex)
UsedBlocks == {b.address - HEADER : b \in live}
EndOf(m, h) == h + Size(m, h)

(* The blocks lie in the heap, apart from each other.                      *)
LieApart(m, free, used, end) ==
  /\ free \cap used = {}
  /\ \A h \in free \cup used :
       /\ h \in HeapStart .. end - HEADER
       /\ Size(m, h) >= HEADER + FOOTER /\ EndOf(m, h) <= end
  /\ \A g, h \in free \cup used : g < h => EndOf(m, g) <= h

(* The blocks have headers of their own and meet end to end from the start *)
(* of the heap to its end; nothing before them looks like a footer.        *)
MeetEndToEnd(m, free, used, end) ==
  /\ free \cap used = {}
  /\ \A h \in free \cup used :
       /\ h \in HeapStart .. end - HEADER
       /\ m[h] = MAGIC /\ Size(m, h) >= HEADER + FOOTER
       /\ IsHole(m, h) <=> h \in free
  /\ {EndOf(m, h) : h \in free \cup used} \cup {HeapStart} = free \cup used \cup {end}
  /\ \A g, h \in free \cup used : EndOf(m, g) = EndOf(m, h) => g = h
  /\ m[HeapStart - FOOTER] # MAGIC

(* The footer names the header, in every block that a caller holds and in  *)
(* every free block that has a block on its right.                         *)
NameTheirHeaders(m, free, used, end) ==
  \A h \in free \cup used : h \in used \/ EndOf(m, h) < end =>
    m[EndOf(m, h) - FOOTER] = MAGIC /\ m[EndOf(m, h) - FOOTER + 1] = h

(* A heap of a page at least; every caller holds a block of its own, with  *)
(* room for what it asked for.                                             *)
Held ==
  /\ ~ halted
  /\ heap_end \in HeapStart + Page .. Top + 1
  /\ \A b, c \in live : b.address = c.address => b = c
  /\ \A b \in live : Size(mem, b.address - HEADER) >= b.size + HEADER + FOOTER

(* The heap is in order: every free block is once in the index, and the    *)
(* free blocks and those that callers hold meet end to end.                *)
WellFormed ==
  /\ TypeOK /\ Held /\ IsInjective(heapIndex)
  /\ MeetEndToEnd(mem, FreeBlocks, UsedBlocks, heap_end)

FootersTrue == NameTheirHeaders(mem, FreeBlocks, UsedBlocks, heap_end)

(* What is left of that order when a caller was given up: words may have   *)
(* been lost, but the blocks, free and used, are apart from each other.    *)
Apart == TypeOK /\ Held /\ LieApart(mem, FreeBlocks, UsedBlocks, heap_end)

(* What a request must meet for malloc to do its work: a free block it     *)
(* grows is the last block of the heap, and what an aligned request leaves *)
(* in front and behind is nothing or enough for a block of its own.        *)
GrowsLast(g) == g.index # <<>> => EndOf(g.mem, Max(Range(g.index))) = g.end

Sound(size, align) ==
  LET request == size + HEADER + FOOTER
      grown == Grown(Current, request, align)
      hole == grown.index[FindSmallestHole(grown.mem, grown.index, request, align)]
      front == FrontSize(hole, align)
      rest == Size(grown.mem, hole) - front - request
  IN  /\ FindSmallestHole(mem, heapIndex, request, align) = 0 => GrowsLast(Current)
      /\ align => front >= HEADER + FOOTER /\ (rest = 0 \/ rest >= HEADER + FOOTER)

(* What free needs: footers that are true, and a block that is not merged  *)
(* with the end of the heap, or does not make the heap shorter.            *)
FreesInside(b) ==
  FootersTrue /\ EndOf(mem, b.address - HEADER) < heap_end /\ UNCHANGED heap_end

(* A heap in order stays in order when malloc cuts a free block, grows the *)
(* heap or makes room for an aligned block.                                *)
MallocKeepsForm ==
  [][\A b \in live' \ live :
       WellFormed /\ Sound(b.size, b.align) =>
         WellFormed' /\ (FootersTrue => FootersTrue')]_vars

(* A heap in order whose footers are true stays in order when free merges  *)
(* a block with its free neighbours, away from the end of the heap.        *)
FreeKeepsForm ==
  [][\A b \in live \ live' : WellFormed /\ FreesInside(b) => WellFormed']_vars

(* A caller that is given up in malloc loses words and nothing else,       *)
(* wherever that is; only when it is given up while Remove moves the       *)
(* entries of the index, one of them is there twice.                       *)
AbandonedMallocLosesWords ==
  [][stopped' # stopped =>
       \A size \in Sizes, align \in Aligns :
         WellFormed /\ Sound(size, align) /\ AbandonMalloc(size, align) =>
           Apart' /\ (stopped' = "Removing" \/ IsInjective(heapIndex)')]_vars

(* And it does not harm those who come after it: malloc keeps such a heap  *)
(* as it is, with blocks apart, if no entry is twice in the index.         *)
MallocKeepsApart ==
  [][\A b \in live' \ live :
       Apart /\ IsInjective(heapIndex) /\ Sound(b.size, b.align) =>
         Apart' /\ IsInjective(heapIndex)']_vars

A == INSTANCE Allocator
     WITH Usable <- HeapStart .. Top, PageSize <- Page, content <- mem

(* From a heap in order, malloc and free keep the promises made to their   *)
(* callers under the same conditions: blocks apart from each other,        *)
(* aligned, and left alone.  So does a malloc that is given up.            *)
KeepsPromises ==
  [][/\ WellFormed /\ UNCHANGED halted
     /\ \A b \in live \ live' : FreesInside(b)
     /\ calls' # calls =>
          \E size \in Sizes, align \in Aligns :
            /\ Sound(size, align)
            /\ Malloc(size, align) \/ AbandonMalloc(size, align)
     => A!Next]_vars

(* heap.cpp:252 grows "the last header in the heap": blocks in use stay    *)
(* apart from each other when the heap grows.                              *)
BlocksApart ==
  \A b, c \in live : b # c => Words(b) \cap Words(c) = {}

(* heap.cpp:206 "make sure we are not overreaching": no block in use is    *)
(* left beyond the end of a heap that was cut.                             *)
EndAboveBlocks ==
  \A b \in live : b.address + b.size <= heap_end

(* heap.cpp:424 "rewrite footer to point to our header" when a free block  *)
(* on the right is swallowed.                                              *)
FootersPointToTheirHeaders == WellFormed => FootersTrue

=============================================================================
