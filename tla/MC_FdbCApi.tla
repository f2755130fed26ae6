------------------------------ MODULE MC_FdbCApi ------------------------------
(* One client of the C API: listings of none, one or two elements, two     *)
(* retrieves, and up to eight calls, enough to list, read part of a        *)
(* listing, list again and read on, or retrieve twice and delete.          *)
EXTENDS FdbCApi

CONSTANTS e1, e2

MCListings == {<<>>, <<e1>>, <<e1, e2>>}

=============================================================================
