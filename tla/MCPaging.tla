------------------------------ MODULE MCPaging ------------------------------
(***************************************************************************)
(* Paging with two entries to a table and four tables to a directory: one   *)
(* table for the identity mapping, one for the heap and one for what it     *)
(* grows to, one for a stack.  Five frames run out within a clone or two.    *)
(***************************************************************************)
EXTENDS Paging

TopOfStack == {7}
=============================================================================
