------------------------------ MODULE MCPaging ------------------------------
(* Small instances of Paging: pages of two rows, or of one.                *)
EXTENDS Paging

MCRows == 1..3
MoreRows == 1..4
=============================================================================
