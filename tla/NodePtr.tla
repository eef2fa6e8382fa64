------------------------------ MODULE NodePtr ------------------------------
(* The pointer that every node traits class can make: node_ptr().          *)
CONSTANT Null
=============================================================================
