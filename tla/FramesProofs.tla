---------------------------- MODULE FramesProofs ----------------------------
(***************************************************************************)
(* Theorems about Frames, for bitmaps and words of any size: what is in    *)
(* the reserved words is true, and as long as these suffice the physical   *)
(* memory manager keeps the promise of FramePool.                          *)
(***************************************************************************)
EXTENDS Frames, WellFoundedInduction, TLAPS

(* Quotient and remainder.                                                 *)
LEMMA Division ==
  ASSUME NEW a \in Nat, NEW b \in Nat \ {0}
  PROVE  /\ a \div b \in Nat /\ a % b \in 0 .. b - 1
         /\ a = b * (a \div b) + (a % b)
  BY SMT

(* A frame has a place in the bitmap, and no two have the same.            *)
LEMMA Places ==
  ASSUME NEW f \in Frame
  PROVE  /\ IndexFromBit(f) \in Entry /\ OffsetFromBit(f) \in Bit
         /\ \A g \in Frame :
              IndexFromBit(g) = IndexFromBit(f) /\ OffsetFromBit(g) = OffsetFromBit(f) => g = f
  <1>1. f \in Nat /\ f < Entries * EntryBits /\ EntryBits \in Nat \ {0} /\ Entries \in Nat \ {0}
    BY EntryAssumption DEF Frame, Count
  <1>2. /\ f \div EntryBits \in Nat /\ f % EntryBits \in 0 .. EntryBits - 1
        /\ f = EntryBits * (f \div EntryBits) + (f % EntryBits)
    BY <1>1, Division
  <1>3. f \div EntryBits < Entries
    BY <1>1, <1>2, SMTT(30)
  <1>4. ASSUME NEW g \in Frame,
               IndexFromBit(g) = IndexFromBit(f), OffsetFromBit(g) = OffsetFromBit(f)
        PROVE  g = f
    <2>1. g \in Nat
      BY <1>1 DEF Frame, Count
    <2>2. g = EntryBits * (g \div EntryBits) + (g % EntryBits)
      BY <1>1, <2>1, Division
    <2> QED
      BY <1>2, <1>4, <2>2 DEF IndexFromBit, OffsetFromBit
  <1> QED
    BY <1>1, <1>2, <1>3, <1>4 DEF Entry, Bit, IndexFromBit, OffsetFromBit

(* Frames in order have their words in order.                              *)
LEMMA Quotients ==
  ASSUME NEW b \in Nat \ {0}, NEW q \in Nat, NEW p \in Nat, NEW r \in Nat, NEW t \in Nat,
         t < b, b * q + r <= b * p + t
  PROVE  q <= p
  <1>1. SUFFICES ASSUME q >= p + 1 PROVE FALSE
    OBVIOUS
  <1>2. PICK d \in Nat : q = p + 1 + d
    <2>1. q - p - 1 \in Nat
      BY <1>1
    <2> QED
      BY <2>1
  <1>3. b * q = b * p + b + b * d
    BY <1>2
  <1>4. b * d \in Nat /\ b * p \in Nat
    OBVIOUS
  <1> QED
    BY <1>3, <1>4

(* The first words have the first frames.                                  *)
LEMMA InOrder ==
  ASSUME NEW f \in Frame, NEW g \in Frame, f <= g
  PROVE  IndexFromBit(f) <= IndexFromBit(g)
  <1>1. f \in Nat /\ g \in Nat /\ EntryBits \in Nat \ {0}
    BY EntryAssumption DEF Frame, Count
  <1>2. /\ f \div EntryBits \in Nat /\ f % EntryBits \in 0 .. EntryBits - 1
        /\ f = EntryBits * (f \div EntryBits) + (f % EntryBits)
    BY <1>1, Division
  <1>3. /\ g \div EntryBits \in Nat /\ g % EntryBits \in 0 .. EntryBits - 1
        /\ g = EntryBits * (g \div EntryBits) + (g % EntryBits)
    BY <1>1, Division
  <1>4. f \div EntryBits <= g \div EntryBits
    <2> DEFINE q == f \div EntryBits
               p == g \div EntryBits
               r == f % EntryBits
               t == g % EntryBits
    <2>1. /\ q \in Nat /\ r \in Nat /\ p \in Nat /\ t \in Nat /\ t < EntryBits
          /\ EntryBits * q + r <= EntryBits * p + t
      BY <1>1, <1>2, <1>3
    <2>2. q <= p
      <3> HIDE DEF q, p, r, t
      <3> QED
        BY <1>1, <2>1, Quotients
    <2> QED
      BY <2>2
  <1> QED
    BY <1>4 DEF IndexFromBit

(* A set of natural numbers that is not empty has a least one.             *)
LEMMA Least ==
  ASSUME NEW S \in SUBSET Nat, S # {}
  PROVE  \E f \in S : \A g \in S : f <= g
  <1>1. OpToRel(<, Nat) = {ss \in Nat \X Nat : ss[1] < ss[2]}
    BY DEF OpToRel
  <1>2. IsWellFoundedOn({ss \in Nat \X Nat : ss[1] < ss[2]}, Nat)
    BY <1>1, NatLessThanWellFounded
  <1>3. \E f \in S : \A g \in S : ~ (<<g, f>> \in {ss \in Nat \X Nat : ss[1] < ss[2]})
    BY <1>2, WFMin
  <1>4. PICK f \in S : \A g \in S : ~ (<<g, f>> \in {ss \in Nat \X Nat : ss[1] < ss[2]})
    BY <1>3
  <1>5. ASSUME NEW g \in S PROVE f <= g
    <2>1. ~ (<<g, f>> \in {ss \in Nat \X Nat : ss[1] < ss[2]})
      BY <1>4
    <2>2. g \in Nat /\ f \in Nat
      OBVIOUS
    <2> QED
      BY <2>1, <2>2
  <1> QED
    BY <1>5

(* GetFirstFreeBlock finds the lowest free frame.                          *)
LEMMA FreeIsLowest ==
  ASSUME Unmarked # {}
  PROVE  FirstFree \in Unmarked /\ \A g \in Unmarked : FirstFree <= g
  <1>1. Unmarked \subseteq Nat
    BY EntryAssumption DEF Unmarked, Frame, Count
  <1> QED
    BY <1>1, Least DEF FirstFree

(* The frame AllocateBlock hands out is free, and one of the reserved      *)
(* words unless these are full.                                            *)
LEMMA FreeFrame ==
  ASSUME MarkedIsHeld, Unmarked # {}
  PROVE  /\ FirstFree \in Frame /\ ~ Marked(FirstFree)
         /\ OwnFrame \subseteq held => FirstFree \notin OwnFrame
         /\ ~ (OwnFrame \subseteq held) =>
              FirstFree \in OwnFrame \ held /\ \A g \in OwnFrame \ held : FirstFree <= g
  <1>1. FirstFree \in Unmarked /\ \A g \in Unmarked : FirstFree <= g
    BY FreeIsLowest
  <1>2. FirstFree \in Frame /\ ~ Marked(FirstFree)
    BY <1>1 DEF Unmarked
  <1>3. FirstFree \in OwnFrame => FirstFree \notin held
    BY <1>2 DEF MarkedIsHeld
  <1>4. \A g \in OwnFrame \ held : FirstFree <= g
    <2> TAKE g \in OwnFrame \ held
    <2>1. g \in Frame /\ ~ Marked(g)
      BY DEF MarkedIsHeld, OwnFrame
    <2> QED
      BY <1>1, <2>1 DEF Unmarked
  <1>5. ASSUME NEW g \in OwnFrame \ held PROVE FirstFree \in OwnFrame
    <2>1. FirstFree <= g /\ g \in Frame /\ IndexFromBit(g) \in OwnEntry
      BY <1>4 DEF OwnFrame
    <2>2. IndexFromBit(FirstFree) <= IndexFromBit(g)
      BY <1>2, <2>1, InOrder
    <2>3. IndexFromBit(FirstFree) \in Entry /\ IndexFromBit(g) \in Entry
      BY <1>2, <2>1, Places
    <2>4. Entries \div EntryBytes \in Nat
      BY EntryAssumption, Division
    <2> QED
      BY <1>2, <2>1, <2>2, <2>3, <2>4 DEF OwnFrame, OwnEntry, Entry
  <1> QED
    BY <1>2, <1>3, <1>4, <1>5

-----------------------------------------------------------------------------
(* The inductive invariant.                                                *)
IInv == TypeOK /\ MarkedIsHeld /\ LostOnlyWhenFull

(* PMM::Init establishes the invariant.                                    *)
LEMMA InitIsSound == Init => IInv
  <1> SUFFICES ASSUME Init PROVE IInv
    OBVIOUS
  <1>1. TypeOK
    BY DEF Init, TypeOK
  <1>2. MarkedIsHeld
    BY DEF Init, MarkedIsHeld, Marked, OwnFrame, Cleared
  <1> QED
    BY <1>1, <1>2 DEF Init, IInv, LostOnlyWhenFull

(* Setting or clearing the bit of one frame leaves all others as they are. *)
LEMMA OneBit ==
  ASSUME TypeOK, NEW f \in Frame, NEW g \in Frame, f # g, NEW word \in SUBSET Bit,
         \A b \in Bit \ {OffsetFromBit(f)} : b \in word <=> b \in array[IndexFromBit(f)],
         array' = [array EXCEPT ![IndexFromBit(f)] = word]
  PROVE  Marked(g)' <=> Marked(g)
  <1>1. IndexFromBit(f) \in Entry /\ IndexFromBit(g) \in Entry
    BY Places
  <1>2. OffsetFromBit(f) \in Bit /\ OffsetFromBit(g) \in Bit
    BY Places
  <1>3. CASE IndexFromBit(g) # IndexFromBit(f)
    BY <1>1, <1>3 DEF TypeOK, Marked
  <1>4. CASE IndexFromBit(g) = IndexFromBit(f)
    <2>1. OffsetFromBit(g) # OffsetFromBit(f)
      BY <1>4, Places
    <2>2. array'[IndexFromBit(g)] = word
      BY <1>1, <1>4 DEF TypeOK
    <2> QED
      BY <1>2, <1>4, <2>1, <2>2 DEF Marked
  <1> QED
    BY <1>3, <1>4

(* AllocateBlock keeps it.                                                 *)
LEMMA AllocateIsSound == ASSUME IInv, AllocateBlock PROVE IInv'
  <1> DEFINE f == FirstFree
             word == array[IndexFromBit(f)] \cup {OffsetFromBit(f)}
  <1>1. f \in Frame /\ ~ Marked(f)
    BY FreeFrame DEF IInv, AllocateBlock
  <1>2. IndexFromBit(f) \in Entry /\ OffsetFromBit(f) \in Bit
    BY <1>1, Places
  <1>3. array' = [array EXCEPT ![IndexFromBit(f)] = word] /\ word \in SUBSET Bit
    BY <1>2 DEF AllocateBlock, IInv, TypeOK
  <1>4. TypeOK'
    BY <1>1, <1>2, <1>3 DEF AllocateBlock, IInv, TypeOK
  <1>5. MarkedIsHeld'
    <2> SUFFICES ASSUME NEW g \in OwnFrame PROVE Marked(g)' <=> g \in held'
      BY DEF MarkedIsHeld, OwnFrame, OwnEntry, IndexFromBit, Frame, Count
    <2>1. CASE g = f
      <3>1. array'[IndexFromBit(f)] = word
        BY <1>2, <1>3 DEF IInv, TypeOK
      <3> QED
        BY <2>1, <3>1 DEF AllocateBlock, Marked
    <2>2. CASE g # f
      <3>1. Marked(g)' <=> Marked(g)
        BY <1>1, <1>3, <2>2, OneBit DEF IInv, OwnFrame
      <3> QED
        BY <2>2, <3>1 DEF AllocateBlock, IInv, MarkedIsHeld
    <2> QED
      BY <2>1, <2>2
  <1>6. LostOnlyWhenFull'
    BY DEF AllocateBlock, IInv, LostOnlyWhenFull
  <1> QED
    BY <1>4, <1>5, <1>6 DEF IInv

(* FreeBlock keeps it.                                                     *)
LEMMA FreeIsSound == ASSUME IInv, NEW f \in Frame, FreeBlock(f) PROVE IInv'
  <1> DEFINE word == array[IndexFromBit(f)] \ {OffsetFromBit(f)}
  <1>1. IndexFromBit(f) \in Entry /\ OffsetFromBit(f) \in Bit
    BY Places
  <1>2. array' = [array EXCEPT ![IndexFromBit(f)] = word] /\ word \in SUBSET Bit
    BY <1>1 DEF FreeBlock, Unmark, IInv, TypeOK
  <1>3. TypeOK'
    BY <1>1, <1>2 DEF FreeBlock, IInv, TypeOK
  <1>4. MarkedIsHeld'
    <2> SUFFICES ASSUME NEW g \in OwnFrame PROVE Marked(g)' <=> g \in held'
      BY DEF MarkedIsHeld, OwnFrame, OwnEntry, IndexFromBit, Frame, Count
    <2>1. CASE g = f
      <3>1. array'[IndexFromBit(f)] = word
        BY <1>1, <1>2 DEF IInv, TypeOK
      <3> QED
        BY <2>1, <3>1 DEF FreeBlock, Marked
    <2>2. CASE g # f
      <3>1. Marked(g)' <=> Marked(g)
        BY <1>2, <2>2, OneBit DEF IInv, OwnFrame
      <3> QED
        BY <2>2, <3>1 DEF FreeBlock, IInv, MarkedIsHeld
    <2> QED
      BY <2>1, <2>2
  <1>5. LostOnlyWhenFull'
    BY DEF FreeBlock, IInv, LostOnlyWhenFull
  <1> QED
    BY <1>3, <1>4, <1>5 DEF IInv

(* The owners of the words behind do not disturb it.                       *)
LEMMA OtherIsSound ==
  ASSUME IInv, NEW i \in Entry \ OwnEntry, NEW word \in SUBSET Bit, WriteOther(i, word)
  PROVE  IInv'
  <1>1. TypeOK'
    BY DEF WriteOther, IInv, TypeOK
  <1>2. MarkedIsHeld'
    <2> SUFFICES ASSUME NEW g \in OwnFrame PROVE Marked(g)' <=> g \in held'
      BY DEF MarkedIsHeld, OwnFrame, OwnEntry, IndexFromBit, Frame, Count
    <2>1. IndexFromBit(g) # i /\ IndexFromBit(g) \in Entry
      BY Places DEF OwnFrame
    <2>2. array'[IndexFromBit(g)] = array[IndexFromBit(g)]
      BY <2>1 DEF WriteOther, IInv, TypeOK
    <2> QED
      BY <2>2 DEF WriteOther, IInv, MarkedIsHeld, Marked
  <1> QED
    BY <1>1, <1>2 DEF WriteOther, IInv, LostOnlyWhenFull

(* AllocateBlock finds nothing only when the reserved words are full.      *)
LEMMA NothingIsSound == ASSUME IInv, AllocateNothing PROVE IInv'
  <1>1. OwnFrame \subseteq held
    BY DEF AllocateNothing, Unmarked, IInv, MarkedIsHeld, OwnFrame
  <1>2. TypeOK' /\ MarkedIsHeld'
    BY DEF AllocateNothing, IInv, TypeOK, MarkedIsHeld, Marked
  <1> QED
    BY <1>1, <1>2 DEF AllocateNothing, IInv, LostOnlyWhenFull

(* Types, the truth of the bitmap and when it is exhausted, together.      *)
THEOREM Invariant == Spec => []IInv
  <1>1. ASSUME IInv, [Next]_vars PROVE IInv'
    <2>1. CASE UNCHANGED vars
      BY <1>1, <2>1 DEF vars, IInv, TypeOK, MarkedIsHeld, Marked, LostOnlyWhenFull
    <2> QED
      BY <1>1, <2>1, AllocateIsSound, FreeIsSound, OtherIsSound, NothingIsSound DEF Next
  <1> QED
    BY <1>1, InitIsSound, PTL DEF Spec

-----------------------------------------------------------------------------
(* The words, the frames handed out and the flag keep their types          *)
(* (TypeOK).                                                               *)
THEOREM TypeCorrect == Spec => []TypeOK
  <1>1. IInv => TypeOK
    BY DEF IInv
  <1> QED
    BY <1>1, Invariant, PTL

(* The reserved words of the bitmap mark exactly the frames in use, for    *)
(* every size of memory (PMM::Init, AllocateBlock, FreeBlock).             *)
THEOREM BitmapIsTrue == Spec => []MarkedIsHeld
  <1>1. IInv => MarkedIsHeld
    BY DEF IInv
  <1> QED
    BY <1>1, Invariant, PTL

(* AllocateBlock does not answer -1 while a frame of the reserved words is *)
(* left.                                                                   *)
THEOREM NothingOnlyWhenFull == Spec => []LostOnlyWhenFull
  <1>1. IInv => LostOnlyWhenFull
    BY DEF IInv
  <1> QED
    BY <1>1, Invariant, PTL

(* The page directory behind the bitmap is not written by AllocateBlock or *)
(* FreeBlock while only frames of the reserved words are in use.           *)
THEOREM DirectoryIsLeftAlone == Spec => OthersKept
  <1>1. ASSUME IInv, held \subseteq OwnFrame, held' \subseteq OwnFrame, NEW i \in Entry \ OwnEntry,
               AllocateBlock \/ (\E f \in Frame : FreeBlock(f))
        PROVE  array'[i] = array[i]
    <2>1. CASE AllocateBlock
      <3>1. FirstFree \in OwnFrame
        BY <1>1, <2>1 DEF AllocateBlock
      <3> QED
        BY <1>1, <2>1, <3>1 DEF AllocateBlock, OwnFrame, IInv, TypeOK
    <2>2. ASSUME NEW f \in Frame, FreeBlock(f) PROVE array'[i] = array[i]
      <3>1. f \in OwnFrame
        BY <1>1, <2>2 DEF FreeBlock
      <3> QED
        BY <1>1, <2>2, <3>1 DEF FreeBlock, Unmark, OwnFrame, IInv, TypeOK
    <2> QED
      BY <1>1, <2>1, <2>2
  <1>2. IInv /\ [Next]_vars =>
          [AllocateBlock \/ (\E f \in Frame : FreeBlock(f)) =>
             \/ ~ (held \subseteq OwnFrame /\ held' \subseteq OwnFrame)
             \/ \A i \in Entry \ OwnEntry : array'[i] = array[i]]_vars
    BY <1>1
  <1> QED
    BY <1>2, Invariant, PTL DEF Spec, OthersKept

(* The steps of the physical memory manager are steps of FramePool: the    *)
(* lowest frame nobody has is handed out, until the reserved words are     *)
(* full.                                                                   *)
THEOREM KeepsPromise == Spec => ImplementsFramePool
  <1>1. Init => Promise!Init
    BY DEF Init, Promise!Init
  <1>2. ASSUME IInv, AllocateBlock PROVE [Promise!Next]_held
    <2>1. /\ FirstFree \in Frame
          /\ OwnFrame \subseteq held => FirstFree \notin OwnFrame
          /\ ~ (OwnFrame \subseteq held) =>
               FirstFree \in OwnFrame \ held /\ \A g \in OwnFrame \ held : FirstFree <= g
      BY <1>2, FreeFrame DEF IInv, AllocateBlock
    <2>2. CASE OwnFrame \subseteq held
      BY <1>2, <2>1, <2>2 DEF AllocateBlock, Promise!Next, Promise!Allocate
    <2>3. CASE ~ (OwnFrame \subseteq held)
      <3>1. ASSUME NEW g \in OwnFrame \ held, \A h \in OwnFrame \ held : g <= h
            PROVE  g = FirstFree
        <4>1. g \in Int /\ FirstFree \in Int /\ g <= FirstFree /\ FirstFree <= g
          BY <2>1, <2>3, <3>1, EntryAssumption DEF OwnFrame, Frame, Count
        <4> QED
          BY <4>1
      <3>2. Promise!Lowest(OwnFrame \ held) = FirstFree
        BY <2>1, <2>3, <3>1 DEF Promise!Lowest
      <3> QED
        BY <1>2, <2>3, <3>2 DEF AllocateBlock, Promise!Next, Promise!Allocate
    <2> QED
      BY <2>2, <2>3
  <1>3. ASSUME IInv, [Next]_vars PROVE [Promise!Next]_held
    <2>1. CASE UNCHANGED vars
      BY <2>1 DEF vars
    <2>2. ASSUME NEW f \in Frame, FreeBlock(f) PROVE Promise!Next
      BY <2>2 DEF FreeBlock, Promise!Next, Promise!Free
    <2> QED
      BY <1>2, <1>3, <2>1, <2>2 DEF Next, AllocateNothing, WriteOther
  <1> QED
    BY <1>1, <1>3, Invariant, PTL DEF Spec, ImplementsFramePool, Promise!Spec

=============================================================================
