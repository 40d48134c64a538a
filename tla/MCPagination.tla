------------------------------ MODULE MCPagination ------------------------------
(***************************************************************************)
(* Constants for model checking Pagination.                                *)
(***************************************************************************)
EXTENDS Pagination

(* All switches; the size 0 that array_filter drops, a size the query refuses,
   and sizes below and above the maximum.  Of three or four records a size of 2
   makes a last page that is not full and one that is. *)
MCSettings == [serverEnabled : BOOLEAN, clientEnabled : BOOLEAN,
               clientItemsPerPage : BOOLEAN, itemsPerPage : {0, 2},
               maximumItemsPerPage : {0, 2}]

MCPages == {0, 1, 2}
MCSizes == {-1, 0, 1, 3}
================================================================================
