----------------------------- MODULE FramePool -----------------------------
(***************************************************************************)
(* What the physical memory manager promises to paging: a frame handed out *)
(* belongs to nobody, and it is the lowest there is, so that the first     *)
(* frames of the machine go to the kernel's first pages.  The promise ends *)
(* when the pool is used up: nothing is said of the frames behind it.      *)
(***************************************************************************)
EXTENDS Integers

CONSTANTS
  Frame,   \* the frames that may ever be handed out
  Pool     \* those the promise is about

VARIABLE taken

Init == taken = {}

Lowest(S) == CHOOSE f \in S : \A g \in S : f <= g

Allocate ==
  IF Pool \subseteq taken THEN \E f \in Frame \ Pool : taken' = taken \cup {f}
  ELSE taken' = taken \cup {Lowest(Pool \ taken)}

Free(f) == f \in taken /\ taken' = taken \ {f}

Next == Allocate \/ \E f \in Frame : Free(f)

Spec == Init /\ [][Next]_taken

=============================================================================
