----------------------------- MODULE Allocator -----------------------------
(***************************************************************************)
(* What malloc and free promise their callers: the blocks handed out and   *)
(* not yet given back lie apart from each other, on a page boundary when   *)
(* the caller asks for it, and what a caller wrote into its block stays    *)
(* there until it gives the block back.                                    *)
(***************************************************************************)
EXTENDS Integers

CONSTANTS
  Usable,      \* the addresses a block may cover
  PageSize     \* what an aligned block is aligned to

VARIABLES
  live,        \* the blocks in use: address, size, aligned or not
  content      \* what memory holds at every address

vars == <<live, content>>

Words(b) == b.address .. b.address + b.size - 1

(* No word of a block in use changes.                                      *)
Kept(blocks) ==
  \A b \in blocks : \A a \in Words(b) : content'[a] = content[a]

Init == live = {}

Malloc(b) ==
  /\ b.align => b.address % PageSize = 0
  /\ Words(b) \subseteq Usable
  /\ \A other \in live : Words(b) \cap Words(other) = {}
  /\ live' = live \cup {b}
  /\ Kept(live)

Free(b) ==
  /\ live' = live \ {b}
  /\ Kept(live')

(* The owner of a block writes into it.                                    *)
Write(b) ==
  /\ UNCHANGED live
  /\ Kept(live \ {b})

Next ==
  \/ \E b \in live' \ live : Malloc(b)
  \/ \E b \in live : Free(b) \/ Write(b)
  \/ UNCHANGED live /\ Kept(live)

Spec == Init /\ [][Next]_vars

=============================================================================
