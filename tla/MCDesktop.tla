----------------------------- MODULE MCDesktop -----------------------------
(* Instances of Desktop for TLC: two windows, as UsermodeGraphics opens.   *)
EXTENDS Desktop

CONSTANTS w1, w2

TwoWindows == <<w1, w2>>

Overlapping == [w \in Window |-> IF w = w1 THEN [x |-> 0, y |-> 0] ELSE [x |-> 1, y |-> 1]]

(* The pointer also stands still: where the edge of the screen stops it.   *)
DownAndBack == {[x |-> 1, y |-> 1], [x |-> -1, y |-> 0]}

(* Clicks on both windows, below their titles: nothing is dragged.         *)
SideBySide == [w \in Window |-> IF w = w1 THEN Origin ELSE [x |-> 1, y |-> 0]]

BelowTitles == {[x |-> 1, y |-> 1], [x |-> -1, y |-> 1]}

LeftOnly == {{}, {"left"}}

(* The right button is pressed while the left one is held.                *)
WithRight == {{}, {"left"}, {"left", "right"}}

=============================================================================
