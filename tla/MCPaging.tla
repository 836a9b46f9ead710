------------------------------ MODULE MCPaging ------------------------------
(* Instances of Paging for TLC: two processes and a thread.                *)
EXTENDS Paging

CONSTANTS p1, p2, u1

=============================================================================
