---------------------------- MODULE MCPagination ----------------------------
(***************************************************************************)
(* Small instances of Pagination for TLC.                                  *)
(***************************************************************************)
EXTENDS Pagination

\* Two keys in one millisecond, one in the next; as prices, three prices.
MCIds == 1..3
MCKeys == {1000, 1001, 2000}
MCLimits == {1}
=============================================================================
