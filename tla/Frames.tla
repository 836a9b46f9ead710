------------------------------- MODULE Frames -------------------------------
(***************************************************************************)
(* The physical memory manager, physical_memory_manager.cpp and bitmap.cpp *)
(* in source/, in the words of memory it works on.                         *)
(*                                                                         *)
(* PMM::Init needs Entries words for its bitmap but asks malloc_ for as    *)
(* many bytes.  The words behind them go to the next who asks: the page    *)
(* directory and the tables of InitPaging.  Both work on the same words.   *)
(***************************************************************************)
EXTENDS Integers, FiniteSets

CONSTANTS
  Entries,     \* size, in PMM::Init: the words of the bitmap
  EntryBits,   \* bytePerEntry, the bits of a word
  EntryBytes   \* sizeof_type_t

ASSUME EntryAssumption ==
  Entries \in Nat \ {0} /\ EntryBits \in Nat \ {0} /\ EntryBytes \in Nat \ {0}

VARIABLES
  array,   \* the words from where the bitmap starts: the bits set in each
  held,    \* the frames that were handed out and not given back
  lost     \* has AllocateBlock written behind the last word?

vars == <<array, held, lost>>

Entry == 0 .. Entries - 1
Bit == 0 .. EntryBits - 1

(* SetMemSize.                                                             *)
Count == Entries * EntryBits

Frame == 0 .. Count - 1

IndexFromBit(f) == f \div EntryBits

(* Mutant: bits are counted from 1.                                        *)
OffsetFromBit_FromOne(f) == (f % EntryBits) + 1

OffsetFromBit(f) == f % EntryBits

(* The words of the bitmap that malloc_ reserved, and their frames.        *)
OwnEntry == 0 .. (Entries \div EntryBytes) - 1
OwnFrame == {f \in Frame : IndexFromBit(f) \in OwnEntry}

Marked(f) == OffsetFromBit(f) \in array[IndexFromBit(f)]

(* Mutant: the last of the reserved words is not cleared.                  *)
Cleared_AllButLast == OwnEntry \ {Entries \div EntryBytes - 1}

(* PMMBitmap::Clear clears what was reserved.                              *)
Cleared == OwnEntry

Init ==
  /\ array \in [Entry -> SUBSET Bit]
  /\ \A i \in Cleared : array[i] = {}
  /\ held = {}
  /\ lost = FALSE

(* Mutant: only the first word is looked at.                               *)
Unmarked_FirstWord == {f \in Frame : IndexFromBit(f) = 0 /\ ~ Marked(f)}

(* GetFirstFreeBlock's search.                                             *)
Unmarked == {f \in Frame : ~ Marked(f)}

(* Mutant: the search starts at the end.                                   *)
FirstFree_Last == CHOOSE f \in Unmarked : \A g \in Unmarked : g <= f

FirstFree == CHOOSE f \in Unmarked : \A g \in Unmarked : f <= g

AllocateBlock ==
  /\ ~ lost /\ Unmarked # {}
  /\ array' = [array EXCEPT ![IndexFromBit(FirstFree)] = @ \cup {OffsetFromBit(FirstFree)}]
  /\ held' = held \cup {FirstFree}
  /\ UNCHANGED lost

(* GetFirstFreeBlock found nothing and answers -1, which AllocateBlock     *)
(* takes for a frame.                                                      *)
AllocateNothing ==
  /\ ~ lost /\ Unmarked = {}
  /\ lost' = TRUE
  /\ UNCHANGED <<array, held>>

(* Mutant: the index is rounded up.                                        *)
Unmark_RoundedUp(f) ==
  [array EXCEPT ![(f + EntryBits - 1) \div EntryBits] = @ \ {OffsetFromBit(f)}]

Unmark(f) == [array EXCEPT ![IndexFromBit(f)] = @ \ {OffsetFromBit(f)}]

FreeBlock(f) ==
  /\ ~ lost /\ f \in held
  /\ array' = Unmark(f)
  /\ held' = held \ {f}
  /\ UNCHANGED lost

(* Who owns a word behind the reserved ones writes it.                     *)
WriteOther(i, word) ==
  /\ ~ lost
  /\ array' = [array EXCEPT ![i] = word]
  /\ UNCHANGED <<held, lost>>

Next ==
  \/ AllocateBlock \/ AllocateNothing
  \/ \E f \in Frame : FreeBlock(f)
  \/ \E i \in Entry \ OwnEntry, word \in SUBSET Bit : WriteOther(i, word)

Spec == Init /\ [][Next]_vars

-----------------------------------------------------------------------------
(* Properties.                                                             *)

(* The bits of a word are its own, the frames are the machine's.           *)
TypeOK ==
  /\ array \in [Entry -> SUBSET Bit]
  /\ held \subseteq Frame
  /\ lost \in BOOLEAN

(* Of the frames in the reserved words the bitmap is true: exactly those   *)
(* are marked that were handed out, whatever the others write.             *)
MarkedIsHeld == \A f \in OwnFrame : Marked(f) <=> f \in held

(* AllocateBlock and FreeBlock change none of the words of others, the     *)
(* page directory among them, as long as no frame is in use that is not in *)
(* a reserved word.                                                        *)
OthersKept ==
  [][AllocateBlock \/ (\E f \in Frame : FreeBlock(f)) =>
       \/ ~ (held \subseteq OwnFrame /\ held' \subseteq OwnFrame)
       \/ \A i \in Entry \ OwnEntry : array'[i] = array[i]]_vars

(* AllocateBlock answers -1 only when the reserved words are full.         *)
LostOnlyWhenFull == lost => OwnFrame \subseteq held

Promise == INSTANCE FramePool WITH Pool <- OwnFrame, taken <- held

(* The physical memory manager implements FramePool: the lowest frame that *)
(* nobody holds is handed out, until the reserved words are full.          *)
ImplementsFramePool == Promise!Spec

=============================================================================
