----------------------------- MODULE MCDrawing -----------------------------
(* An instance of Drawing for TLC.                                         *)
EXTENDS Drawing

CONSTANTS w1, w2

TwoWindows == <<w1, w2>>

(* The second window covers the right edge of the first, its title too.    *)
Overlapping == [w \in Window |-> IF w = w1 THEN Origin ELSE [x |-> 1, y |-> 0]]

Along == {[x |-> 1, y |-> 0], [x |-> -1, y |-> 0]}

LeftOnly == {{}, {"left"}}

=============================================================================
